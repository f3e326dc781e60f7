------------------------------- MODULE FileSend -------------------------------
(***************************************************************************)
(* A file sent by `y2m send file` (file_flow.rs, cmd_send.rs), and beside  *)
(* it the same file sent by `/file` in a session (FileTransfer): the       *)
(* receivers and the server cannot tell the two apart.                     *)
(*                                                                         *)
(* The command has no entry in the local file store.  It waits with a      *)
(* deadline, takes packets only, and its process ends with the transfer.   *)
(* It sends no heartbeats: a server that finds it silent for too long      *)
(* sweeps its session away in the middle of the transfer.                  *)
(***************************************************************************)
EXTENDS FileTransfer

CONSTANT
    Overtaken   \* bound: the receivers whose offer an abort may overtake

ASSUME OvertakenAssumption == Overtaken \subseteq Receivers

VARIABLE
    flow    \* where send_file_flow is; "none" when a session sends the file

flowVars == <<vars, flow>>

Flows == {"none", "start", "accept", "grace", "send", "ack", "ended"}

FlowTypeOK == TypeOK /\ flow \in Flows

FlowInit == Init /\ flow \in {"none", "start"}

-----------------------------------------------------------------------------
(* send_file_flow                                                          *)

Goes(to) == flow' = to

SendOffer ==
    /\ flow = "start" /\ Sender \in up
    /\ Goes("accept")
    /\ Send(Sender, Packet("offer"))
    /\ UNCHANGED <<target, local, next, task, outcome, packets, frames, up, serverVars>>

\* The process ends, and its connection with it.
Exit(why) ==
    /\ Goes("ended")
    /\ outcome' = [outcome EXCEPT ![Sender] = why]
    /\ packets' = [packets EXCEPT ![Sender] = <<>>]
    /\ IF Sender \in up THEN Hangup(Sender) ELSE UNCHANGED <<up, uplink>>
    /\ UNCHANGED <<target, local, next, task, frames, serverVars>>

Arrived(kind) == packets[Sender] # <<>> /\ Head(packets[Sender]) = kind

\* wait_for_file_accept: the first accept will do.  Others of the group are given
\* 280 ms to join.
FirstAccept ==
    /\ flow = "accept"
    /\ Take(Sender, "accept")
    /\ Goes(IF Broadcast THEN "grace" ELSE "send")
    /\ UNCHANGED <<target, clientVars, uplink, frames, serverVars>>

GraceOver ==
    /\ flow = "grace"
    /\ Goes("send")
    /\ UNCHANGED vars

\* send_chunks_with_progress and file_complete, without an await in between
Everything == [i \in 1 .. Chunks |-> Chunk(i - 1)] \o <<Packet("complete")>>

SendAll ==
    /\ flow = "send" /\ Sender \in up
    /\ Goes("ack")
    /\ uplink' = [uplink EXCEPT ![Sender] = @ \o Everything]
    /\ UNCHANGED <<target, clientVars, packets, frames, serverVars>>

\* wait_for_file_ack: the first ack decides.
FirstAck ==
    /\ flow = "ack"
    /\ \/ Arrived("ackOk") /\ Exit("delivered")
       \/ Arrived("ackRejected") /\ Exit("refused")

\* Slip: any error is taken for a refusal of the receiver.
BailAsRefused ==
    /\ flow \in {"accept", "ack"}
    /\ \/ Arrived("abort") /\ Exit("cancelled")
       \/ (Arrived("tooLarge") \/ Arrived("error")) /\ Exit("refused")
       \/ flow = "accept" /\ Arrived("reject") /\ Exit("refused")

\* Slip: an error after the file has been sent is reported like one before it.
BailAsUnsent ==
    /\ flow \in {"accept", "ack"}
    /\ \/ Arrived("abort") /\ Exit("cancelled")
       \/ (Arrived("tooLarge") \/ Arrived("error")) /\ Exit("unsent")
       \/ flow = "accept" /\ Arrived("reject") /\ Exit("refused")

\* An abort or any error of the server ends either wait, a reject the first one.
\* Of an error the command says that the server refused to send the file ("unsent")
\* or, when the file has been sent, that the server has failed ("failed").
Bail ==
    /\ flow \in {"accept", "ack"}
    /\ \/ Arrived("abort") /\ Exit("cancelled")
       \/ /\ Arrived("tooLarge") \/ Arrived("error")
          /\ Exit(IF flow = "accept" THEN "unsent" ELSE "failed")
       \/ flow = "accept" /\ Arrived("reject") /\ Exit("refused")

\* dispatch_packet: the plugin finds no such file in the store.
Dispatch ==
    /\ flow = "ack"
    /\ Take(Sender, "accept") \/ Take(Sender, "reject")
    /\ Goes("ack")
    /\ UNCHANGED <<target, clientVars, uplink, frames, serverVars>>

\* Slip: a sender whose time is up leaves its connection to the server.
DeadlineSilently ==
    /\ flow \in {"accept", "ack"}
    /\ Goes("ended")
    /\ outcome' = [outcome EXCEPT ![Sender] = "cancelled"]
    /\ packets' = [packets EXCEPT ![Sender] = <<>>]
    /\ UNCHANGED <<target, local, next, task, up, uplink, frames, serverVars>>

\* A wait that has taken too long
Deadline == flow \in {"accept", "ack"} /\ Exit("cancelled")

\* The connection breaks, or the Close that the sweeper sends arrives.  What has come
\* before is still taken, and then the end of the stream.
LoseConnection ==
    /\ flow \notin {"none", "ended"}
    /\ Sender \in up
    /\ Sender \in MayLeave \/ Sender \notin online
    /\ Hangup(Sender)
    /\ UNCHANGED <<target, local, next, task, outcome, packets, frames, serverVars, flow>>

Closed ==
    /\ Sender \notin up
    /\ \/ flow = "start"
       \/ flow = "send"
       \/ flow \in {"accept", "ack"} /\ packets[Sender] = <<>>
    /\ Exit("disconnected")

Flow ==
    \/ SendOffer \/ FirstAccept \/ GraceOver \/ SendAll \/ FirstAck
    \/ Bail \/ Dispatch \/ Deadline \/ Closed

-----------------------------------------------------------------------------
(* The sweeper: spawn_heartbeat_timeout_task                               *)

\* remove_connection, the heartbeat_timeout error and then Close to the sender,
\* cleanup_related_transfers.  The handler of the socket goes on with the frames that
\* have come, and ends the session once more at their end.
Sweep ==
    LET gone == {r \in Receivers : legs[r] # "none"}
    IN  /\ flow # "none" /\ Sender \in online
        /\ online' = online \ {Sender}
        /\ legs' = NoLegs
        /\ ackExpected' = (ackExpected /\ gone = {})
        /\ packets' = [c \in Clients |->
                          IF c \in Listening({Sender}) THEN Append(packets[c], "error")
                          ELSE IF c \in Listening(gone) THEN Append(packets[c], "abort")
                          ELSE packets[c]]
        /\ UNCHANGED <<target, clientVars, uplink, frames, flow>>

\* The sweeper and the handler of the offer at the same time: create_offer has noted
\* some legs when the sweeper cleans them up, and its abort may come to a receiver
\* before the offer does.  (Of other packets the sweeper finds all or nothing done.)
SweepDuringOffer ==
    LET found == Addressed \cap online
    IN  /\ flow # "none" /\ Sender \in online
        /\ Broadcast \/ found # {}
        /\ Receive(Sender, "offer")
        /\ online' = online \ {Sender}
        /\ \E noted \in SUBSET found : \E late \in SUBSET (noted \cap Overtaken) :
             /\ legs' = [r \in Receivers |->
                           IF r \in found \ noted THEN "offered" ELSE "none"]
             /\ packets' = [c \in Clients |->
                  CASE c \in Listening({Sender}) -> Append(packets[c], "error")
                    [] c \in Listening(late) -> Append(Append(packets[c], "abort"), "offer")
                    [] c \in Listening(noted \ late) ->
                          Append(Append(packets[c], "offer"), "abort")
                    [] c \in Listening(found \ noted) -> Append(packets[c], "offer")
                    [] OTHER -> packets[c]]
        /\ UNCHANGED <<target, clientVars, frames, ackExpected, flow>>

-----------------------------------------------------------------------------

\* The other clients and the server
Tasks ==
    \/ \E r \in Receivers : Loop(r) \/ OnChunk(r)
    \/ \E c \in Clients : Server(c)

Peers ==
    \/ \E r \in Receivers : Accept(r) \/ Reject(r) \/ Abort(r) \/ Leave(r)
    \/ Tasks

FlowNext ==
    \/ flow = "none" /\ Next /\ UNCHANGED flow
    \/ flow # "none" /\ Peers /\ UNCHANGED flow
    \/ LoseConnection \/ Sweep \/ SweepDuringOffer
    \/ Flow

\* Some task that can go on does.  A transfer has finitely many steps, so this is
\* enough for all of them to be taken; no task needs a share of its own.  Nothing
\* makes the sweeper come.
Progress ==
    \/ flow = "none" /\ (SendTask \/ Loop(Sender)) /\ UNCHANGED flow
    \/ Tasks /\ UNCHANGED flow
    \/ Flow

FlowSpec == FlowInit /\ [][FlowNext]_flowVars

FairFlowSpec == FlowSpec /\ WF_flowVars(Progress)

-----------------------------------------------------------------------------
(* Properties                                                              *)

\* However the sender of a file for one receiver comes to its end, after a success,
\* a timeout or a lost connection, the receiver is not left with the file: it
\* neither waits for chunks nor offers it to its user any more.
ReceiverLetsGo ==
    \A r \in Receivers :
        outcome[Sender] # "none" /\ target = r ~> local[r] = "absent"

\* A refusal is true as well: the one receiver of a file whose sender reports that
\* the peer refused it has not saved it, does not hold it, and has no offer of it to
\* come.  (Of the errors of the server, which the command also reports as "服务端拒绝
\* 文件发送", nothing of the kind is true: see UnsentMeansNotSaved.)
RefusedMeansNotSaved ==
    \A r \in Receivers :
        target = r /\ outcome[Sender] = "refused" =>
            /\ local[r] = "absent" /\ outcome[r] # "saved"
            /\ \A i \in 1 .. Len(packets[r]) : packets[r][i] # "offer"

\* A file that the server refused to send, and be it by a sweep that crossed with the
\* accept, has not been sent to anyone: a receiver may still be asked for it and
\* agree, but it never gets a chunk.
UnsentMeansNotSaved ==
    outcome[Sender] = "unsent" =>
        \A r \in Receivers : next[r] = 0 /\ outcome[r] # "saved"

-----------------------------------------------------------------------------
(* What the users see of it                                                *)

SenderView ==
    IF outcome[Sender] # "none" THEN outcome[Sender]
    ELSE IF flow = "start" \/ (flow = "none" /\ local[Sender] = "absent") THEN "idle"
    ELSE "offered"

ReceiverView(r) ==
    CASE local[r] = "PendingOffer" -> "asked"
      [] local[r] = "Receiving" -> "receiving"
      [] OTHER -> IF outcome[r] = "none" THEN "unaware" ELSE outcome[r]

Promise == INSTANCE TransferPromise WITH
    sender <- SenderView,
    view <- [r \in Receivers |-> ReceiverView(r)],
    got <- next

\* Every step of the clients, of the server and of the command is a step its users
\* were promised, or none that they see.
KeepsPromise == Promise!PromiseSpec

=============================================================================
