---------------------------- MODULE FileTransfer ----------------------------
(***************************************************************************)
(* One file sent in `y2m chat` or `y2m run`, from end to end: the local    *)
(* file stores of the sender and the receivers (file_store.rs, state/), the*)
(* background task that sends the chunks, the two inbound queues of a      *)
(* client (client-core connection.rs, core.rs) and the server between them.*)
(*                                                                         *)
(* A client's session loop handles one message or one line of its user at  *)
(* a time, while the send task runs beside it.  The reader of a client     *)
(* puts packets and chunks into different queues and the loop takes from   *)
(* either.  The server handles one packet per step here; FileRelay takes   *)
(* its steps apart.                                                        *)
(***************************************************************************)
EXTENDS Naturals, Sequences

CONSTANTS
    Sender,
    Receivers,
    Everyone,       \* stands for no target client: the offer goes to all
    Targets,        \* bound: whom the file may be offered to
    Chunks,         \* chunks the file is cut into, 0 for an empty file
    AutoAccept,     \* receivers with a configured download_dir
    MayLeave        \* bound: the clients whose connection may break

ASSUME FileTransferAssumption ==
    /\ Sender \notin Receivers
    /\ Everyone \notin Receivers
    /\ Targets \subseteq Receivers \cup {Everyone}
    /\ Chunks \in Nat
    /\ AutoAccept \subseteq Receivers

VARIABLES
    target,     \* the receiver the offer names, or Everyone
    local,      \* LocalFileStore: the state of the file at each client
    next,       \* next_chunk_index of each receiver
    task,       \* the send task: where it is and the chunk it has come to
    outcome,    \* what each client's console said of the end of the file
    up,         \* the clients whose connection still stands
    uplink,     \* frames on their way from each client to the server
    packets,    \* inbound_rx of each client
    frames,     \* binary_rx of each client
    legs,       \* the registry's leg of each receiver
    ackExpected,\* by_request_id holds the id of file_complete
    online      \* the clients the server has a session for

clientVars == <<local, next, task, outcome, up>>
wireVars == <<uplink, packets, frames>>
serverVars == <<legs, ackExpected, online>>
vars == <<target, clientVars, wireVars, serverVars>>

Clients == Receivers \cup {Sender}

Broadcast == target = Everyone
Addressed == IF Broadcast THEN Receivers ELSE {target}

\* total_chunks of the offer: total_chunks.max(1)
TotalChunks == IF Chunks = 0 THEN 1 ELSE Chunks

LocalStates == {"absent", "PendingOffer", "Receiving",
                "WaitingAccept", "Sending", "WaitingAck"}

IsOutgoing(state) == state \in {"WaitingAccept", "Sending", "WaitingAck"}

Outcomes == {"none", "delivered", "refused", "unsent", "failed", "saved",
             "incomplete", "broken", "cancelled", "disconnected"}

Kinds == {"offer", "accept", "reject", "abort", "complete", "ackOk",
          "ackRejected", "tooLarge", "error"}

\* What travels to the server: packets, chunks and the end of the stream.
Frame == [kind: Kinds \cup {"chunk", "close"}, index: 0 .. Chunks]
Packet(kind) == [kind |-> kind, index |-> 0]
Chunk(i) == [kind |-> "chunk", index |-> i]

TypeOK ==
    /\ target \in Targets
    /\ local \in [Clients -> LocalStates]
    /\ next \in [Receivers -> 0 .. TotalChunks]
    /\ task \in [at: {"none", "check", "put", "complete", "phase", "ended"},
                 pos: 0 .. Chunks]
    /\ outcome \in [Clients -> Outcomes]
    /\ uplink \in [Clients -> Seq(Frame)]
    /\ packets \in [Clients -> Seq(Kinds)]
    /\ frames \in [Receivers -> Seq(0 .. Chunks)]
    /\ legs \in [Receivers -> {"none", "offered", "accepted"}]
    /\ ackExpected \in BOOLEAN
    /\ up \in SUBSET Clients
    /\ online \in SUBSET Clients

Init ==
    /\ target \in Targets
    /\ local = [c \in Clients |-> "absent"]
    /\ next = [r \in Receivers |-> 0]
    /\ task = [at |-> "none", pos |-> 0]
    /\ outcome = [c \in Clients |-> "none"]
    /\ uplink = [c \in Clients |-> <<>>]
    /\ packets = [c \in Clients |-> <<>>]
    /\ frames = [r \in Receivers |-> <<>>]
    /\ legs = [r \in Receivers |-> "none"]
    /\ ackExpected = FALSE
    /\ up = Clients
    /\ online = Clients

Send(c, frame) == uplink' = [uplink EXCEPT ![c] = Append(@, frame)]

\* The store of c lets go of the file, and its console says why.
Forget(c, why) ==
    /\ local' = [local EXCEPT ![c] = "absent"]
    /\ outcome' = [outcome EXCEPT ![c] = why]

-----------------------------------------------------------------------------
(* LocalFileTransfer: what becomes of an entry of the store                *)

\* LocalFileTransfer::outgoing
InsertOutgoing == local' = [local EXCEPT ![Sender] = "WaitingAccept"]

\* LocalFileTransfer::pending_offer
InsertPendingOffer(r) ==
    /\ local' = [local EXCEPT ![r] = "PendingOffer"]
    /\ next' = [next EXCEPT ![r] = 0]

MoveToIncoming(r) ==
    /\ local' = [local EXCEPT ![r] = "Receiving"]
    /\ next' = [next EXCEPT ![r] = 0]

\* An outgoing file goes on only from the state it is expected to be in.
TransitionTo(from, to) ==
    local' = IF local[Sender] = from THEN [local EXCEPT ![Sender] = to] ELSE local

\* validate_incoming_chunk, for chunks that the sender has cut in the same way
ValidChunk(r, i) == i < TotalChunks /\ i = next[r]

ApplyChunk(r) == next' = [next EXCEPT ![r] = @ + 1]

-----------------------------------------------------------------------------
(* What users do                                                           *)

\* /file: start_outgoing_file
Offer ==
    /\ Sender \in up /\ local[Sender] = "absent" /\ outcome[Sender] = "none"
    /\ InsertOutgoing
    /\ Send(Sender, Packet("offer"))
    /\ UNCHANGED <<target, next, task, outcome, packets, frames, up, serverVars>>

\* send_accept_for_pending
SendAccept(r) == MoveToIncoming(r) /\ Send(r, Packet("accept"))

\* /accept
Accept(r) ==
    /\ local[r] = "PendingOffer"
    /\ SendAccept(r)
    /\ UNCHANGED <<target, task, outcome, packets, frames, up, serverVars>>

\* /reject
Reject(r) ==
    /\ local[r] = "PendingOffer"
    /\ Forget(r, "cancelled")
    /\ Send(r, Packet("reject"))
    /\ UNCHANGED <<target, next, task, packets, frames, up, serverVars>>

\* /abort: abort_transfer.  The sender of a file for everyone asks for a client
\* named "*", so the server cannot place its abort.
Abort(c) ==
    /\ local[c] # "absent"
    /\ Forget(c, "cancelled")
    /\ IF c = Sender /\ Broadcast THEN UNCHANGED uplink
                                  ELSE Send(c, Packet("abort"))
    /\ UNCHANGED <<target, next, task, packets, frames, up, serverVars>>

\* The connection of c ends: part of what it sent may be lost.
Hangup(c) ==
    /\ up' = up \ {c}
    /\ \E n \in 0 .. Len(uplink[c]) :
          uplink' = [uplink EXCEPT ![c] = Append(SubSeq(@, 1, n), Packet("close"))]

\* The connection of c breaks: what it has not handled is never handled.  The store
\* is cleared when the client connects again; until then nothing that reads it runs,
\* the user's lines included, so it is cleared here.
Leave(c) ==
    /\ c \in MayLeave \cap up
    /\ Hangup(c)
    /\ IF local[c] # "absent" THEN Forget(c, "disconnected")
                              ELSE UNCHANGED <<local, outcome>>
    /\ packets' = [packets EXCEPT ![c] = <<>>]
    /\ frames' = [r \in Receivers |-> IF r = c THEN <<>> ELSE frames[r]]
    /\ task' = IF c = Sender THEN [task EXCEPT !.at = "ended"] ELSE task
    /\ UNCHANGED <<target, next, serverVars>>

-----------------------------------------------------------------------------
(* The session loop: recv_next_message takes a packet or a chunk           *)

Take(c, kind) ==
    /\ packets[c] # <<>> /\ Head(packets[c]) = kind
    /\ packets' = [packets EXCEPT ![c] = Tail(@)]

\* handle_file_offer
OnOffer(r) ==
    /\ Take(r, "offer")
    /\ IF r \in AutoAccept THEN SendAccept(r)
                            ELSE InsertPendingOffer(r) /\ UNCHANGED uplink
    /\ UNCHANGED <<target, task, outcome, frames, up, serverVars>>

SpawnSendTask == task' = [at |-> "check", pos |-> 0]

\* Slip: every accept starts a send task.
OnAcceptAlways ==
    /\ Take(Sender, "accept")
    /\ local' = [local EXCEPT ![Sender] = "Sending"]
    /\ SpawnSendTask
    /\ UNCHANGED <<target, next, outcome, uplink, frames, up, serverVars>>

\* handle_outgoing_file_accept: the first accept starts the send task.
OnAccept ==
    /\ Take(Sender, "accept")
    /\ TransitionTo("WaitingAccept", "Sending")
    /\ IF local[Sender] = "WaitingAccept" THEN SpawnSendTask ELSE UNCHANGED task
    /\ UNCHANGED <<target, next, outcome, uplink, frames, up, serverVars>>

\* handle_file_reject, handle_file_abort and handle_server_error of a file that
\* is still there.
OnEnd(c, kind, why) ==
    /\ Take(c, kind)
    /\ IF local[c] # "absent" THEN Forget(c, why) ELSE UNCHANGED <<local, outcome>>
    /\ UNCHANGED <<target, next, task, uplink, frames, up, serverVars>>

\* handle_server_error of an error that names no file: it is printed.
OnError ==
    /\ Take(Sender, "error")
    /\ UNCHANGED <<target, clientVars, uplink, frames, serverVars>>

\* Slip: an ack is reported, whatever has become of its file.
OnAckAnyway(status) ==
    /\ Take(Sender, IF status = "delivered" THEN "ackOk" ELSE "ackRejected")
    /\ Forget(Sender, status)
    /\ UNCHANGED <<target, next, task, uplink, frames, up, serverVars>>

\* handle_ack: only a file that waits for this very ack is looked for.
OnAck(status) ==
    /\ Take(Sender, IF status = "delivered" THEN "ackOk" ELSE "ackRejected")
    /\ IF local[Sender] = "WaitingAck" THEN Forget(Sender, status)
                                       ELSE UNCHANGED <<local, outcome>>
    /\ UNCHANGED <<target, next, task, uplink, frames, up, serverVars>>

\* Slip: the number of chunks is not compared.
OnCompleteUnchecked(r) ==
    /\ Take(r, "complete")
    /\ IF local[r] = "Receiving"
       THEN Forget(r, IF next[r] = TotalChunks THEN "saved" ELSE "incomplete")
            /\ Send(r, Packet("ackOk"))
       ELSE UNCHANGED <<local, outcome, uplink>>
    /\ UNCHANGED <<target, next, task, frames, up, serverVars>>

\* compute_file_complete_status: chunks are appended in order, so all of them make
\* up the file.
FileComplete(r) == next[r] = TotalChunks

\* handle_file_complete
OnComplete(r) ==
    /\ Take(r, "complete")
    /\ IF local[r] = "Receiving"
       THEN IF FileComplete(r)
            THEN Forget(r, "saved") /\ Send(r, Packet("ackOk"))
            ELSE Forget(r, "incomplete") /\ Send(r, Packet("ackRejected"))
       ELSE UNCHANGED <<local, outcome, uplink>>
    /\ UNCHANGED <<target, next, task, frames, up, serverVars>>

FailIncoming(r) == Forget(r, "broken") /\ Send(r, Packet("abort"))

\* handle_binary_frame: a file that is not being received ignores its chunks.
OnChunk(r) ==
    /\ frames[r] # <<>>
    /\ frames' = [frames EXCEPT ![r] = Tail(@)]
    /\ \/ /\ local[r] = "Receiving" /\ ValidChunk(r, Head(frames[r]))
          /\ ApplyChunk(r)
          /\ UNCHANGED <<local, outcome, uplink>>
       \/ /\ local[r] = "Receiving" /\ ~ValidChunk(r, Head(frames[r]))
          /\ FailIncoming(r)
          /\ UNCHANGED next
       \/ /\ local[r] # "Receiving"
          /\ UNCHANGED <<local, outcome, uplink, next>>
    /\ UNCHANGED <<target, task, packets, up, serverVars>>

Loop(c) ==
    \/ c \in Receivers /\ (OnOffer(c) \/ OnComplete(c))
    \/ c = Sender /\ \/ OnAccept
                     \/ OnEnd(Sender, "reject", "refused")
                     \/ OnEnd(Sender, "tooLarge", "refused")
                     \/ OnAck("delivered")
                     \/ OnAck("refused")
                     \/ OnError
    \/ OnEnd(c, "abort", "cancelled")

-----------------------------------------------------------------------------
(* The send task: run_outgoing_file_send, send_chunks_loop                 *)

TaskGoes(at) == task' = [task EXCEPT !.at = at]

HasOutgoingFile == IsOutgoing(local[Sender])

\* Slip: one chunk too many.
CheckOutgoingPastEnd ==
    /\ task.at = "check"
    /\ TaskGoes(IF ~HasOutgoingFile THEN "ended"
                ELSE IF task.pos <= Chunks THEN "put" ELSE "complete")
    /\ UNCHANGED <<target, local, next, outcome, wireVars, up, serverVars>>

\* has_outgoing_file before every chunk and before file_complete
CheckOutgoing ==
    /\ task.at = "check"
    /\ TaskGoes(IF ~HasOutgoingFile THEN "ended"
                ELSE IF task.pos < Chunks THEN "put" ELSE "complete")
    /\ UNCHANGED <<target, local, next, outcome, wireVars, up, serverVars>>

\* Slip: chunks are counted from 1.
PutChunkFromOne ==
    /\ task.at = "put"
    /\ Send(Sender, Chunk(task.pos + 1))
    /\ task' = [at |-> "check", pos |-> task.pos + 1]
    /\ UNCHANGED <<target, local, next, outcome, packets, frames, up, serverVars>>

PutChunk ==
    /\ task.at = "put"
    /\ Send(Sender, Chunk(task.pos))
    /\ task' = [at |-> "check", pos |-> task.pos + 1]
    /\ UNCHANGED <<target, local, next, outcome, packets, frames, up, serverVars>>

PutComplete ==
    /\ task.at = "complete"
    /\ Send(Sender, Packet("complete"))
    /\ TaskGoes("phase")
    /\ UNCHANGED <<target, local, next, outcome, packets, frames, up, serverVars>>

\* update_outgoing_phase: only now does the store know which ack to wait for.
AwaitAck ==
    /\ task.at = "phase"
    /\ TransitionTo("Sending", "WaitingAck")
    /\ TaskGoes("ended")
    /\ UNCHANGED <<target, next, outcome, wireVars, up, serverVars>>

SendTask == CheckOutgoing \/ PutChunk \/ PutComplete \/ AwaitAck

-----------------------------------------------------------------------------
(* The server, one frame of client c at a time                             *)

Receive(c, kind) ==
    /\ uplink[c] # <<>> /\ Head(uplink[c]).kind = kind
    /\ uplink' = [uplink EXCEPT ![c] = Tail(@)]

\* A client that has left no longer reads what the server still sends it.
Listening(conns) == conns \cap online \cap up

Deliver(conns, kind) ==
    packets' = [c \in Clients |-> IF c \in Listening(conns)
                                  THEN Append(packets[c], kind) ELSE packets[c]]

NoLegs == [r \in Receivers |-> "none"]

\* The server answers what it cannot place with an error that names no file.  One
\* to a receiver is only printed, and is left out.
Complain == Deliver({Sender}, "error")

\* Slip: an offer has been forwarded by the time it turns out to be too large.
RelayOfferUnlimited ==
    LET found == Addressed \cap online
    IN  /\ Receive(Sender, "offer")
        /\ legs' = [r \in Receivers |-> IF r \in found THEN "offered" ELSE "none"]
        /\ packets' = [c \in Clients |->
                          IF c = Sender THEN Append(packets[c], "tooLarge")
                          ELSE IF c \in Listening(found) THEN Append(packets[c], "offer")
                          ELSE packets[c]]
        /\ UNCHANGED <<target, clientVars, frames, ackExpected, online>>

\* An offer goes to those who are there; one that is too large ends the file.  A
\* sweep of the sender may come in between: see FileSend.SweepDuringOffer.
RelayOffer ==
    LET found == Addressed \cap online
    IN  /\ Receive(Sender, "offer")
        /\ \/ /\ Broadcast \/ found # {}
              /\ legs' = [r \in Receivers |-> IF r \in found THEN "offered" ELSE "none"]
              /\ Deliver(found, "offer")
           \/ /\ Broadcast \/ found # {}
              /\ Deliver({Sender}, "tooLarge")
              /\ UNCHANGED legs
           \/ /\ ~Broadcast /\ found = {}
              /\ Complain
              /\ UNCHANGED legs
        /\ UNCHANGED <<target, clientVars, frames, ackExpected, online>>

RelayAccept(r) ==
    /\ Receive(r, "accept")
    /\ IF Sender \in online /\ legs[r] # "none"
       THEN /\ legs' = [legs EXCEPT ![r] = "accepted"]
            /\ Deliver({Sender}, "accept")
       ELSE UNCHANGED <<legs, packets>>
    /\ UNCHANGED <<target, clientVars, frames, ackExpected, online>>

\* Slip: an abort is forwarded to the sender of the file only.
RelayEndToSender(c, kind) ==
    /\ Receive(c, kind)
    /\ legs' = NoLegs
    /\ ackExpected' = FALSE
    /\ Deliver({Sender}, kind)
    /\ UNCHANGED <<target, clientVars, frames, online>>

\* file_reject and file_abort drop all legs of the file, whoever sends them, and
\* go to one peer.
RelayEnd(c, kind) ==
    LET peer == IF c = Sender THEN Addressed ELSE {Sender}
    IN  /\ Receive(c, kind)
        /\ IF peer \cap online # {}
           THEN /\ legs' = NoLegs
                /\ ackExpected' = FALSE
                /\ Deliver(peer, kind)
           ELSE /\ UNCHANGED <<legs, ackExpected>>
                /\ IF c = Sender THEN Complain ELSE UNCHANGED packets
        /\ UNCHANGED <<target, clientVars, frames, online>>

RelayComplete ==
    /\ Receive(Sender, "complete")
    /\ IF legs # NoLegs /\ (Broadcast \/ Addressed \cap online # {})
       THEN ackExpected' = TRUE /\ Deliver(Addressed, "complete")
       ELSE Complain /\ UNCHANGED ackExpected
    /\ UNCHANGED <<target, clientVars, frames, legs, online>>

RelayAck(r, kind) ==
    /\ Receive(r, kind)
    /\ IF Sender \in online
       THEN /\ legs' = IF ackExpected THEN NoLegs ELSE legs
            /\ ackExpected' = FALSE
            /\ Deliver({Sender}, kind)
       ELSE UNCHANGED <<legs, ackExpected, packets>>
    /\ UNCHANGED <<target, clientVars, frames, online>>

\* The chunk goes to whoever has accepted, if anyone has.
RelayChunk ==
    LET accepters == {r \in online \cap Receivers : legs[r] = "accepted"}
    IN  /\ Receive(Sender, "chunk")
        /\ frames' = [r \in Receivers |->
                        IF r \in Listening(accepters)
                        THEN Append(frames[r], Head(uplink[Sender]).index)
                        ELSE frames[r]]
        /\ IF accepters = {} THEN Complain ELSE UNCHANGED packets
        /\ UNCHANGED <<target, clientVars, serverVars>>

\* The end of the socket: remove_connection, remove_by_connection, and an abort
\* to the other end of every leg removed.
EndSession(c) ==
    LET gone == {r \in Receivers : legs[r] # "none" /\ c \in {r, Sender}}
        peers == IF c = Sender THEN gone ELSE IF gone # {} THEN {Sender} ELSE {}
    IN  /\ Receive(c, "close")
        /\ online' = online \ {c}
        /\ legs' = [r \in Receivers |-> IF r \in gone THEN "none" ELSE legs[r]]
        /\ ackExpected' = (ackExpected /\ gone = {})
        /\ Deliver(peers, "abort")
        /\ UNCHANGED <<target, clientVars, frames>>

Server(c) ==
    \/ c = Sender /\ (RelayOffer \/ RelayComplete \/ RelayChunk)
    \/ c \in Receivers /\ \/ RelayAccept(c)
                          \/ RelayEnd(c, "reject")
                          \/ RelayAck(c, "ackOk")
                          \/ RelayAck(c, "ackRejected")
    \/ RelayEnd(c, "abort")
    \/ EndSession(c)

-----------------------------------------------------------------------------

User ==
    \/ Offer
    \/ \E r \in Receivers : Accept(r) \/ Reject(r)
    \/ \E c \in Clients : Abort(c) \/ Leave(c)

Next ==
    \/ User
    \/ SendTask
    \/ \E c \in Clients : Loop(c) \/ Server(c)
    \/ \E r \in Receivers : OnChunk(r)

\* The runtimes keep polling their tasks, and select! is fair to both queues.
\* Nothing is assumed of the users or of connections.
Fairness ==
    /\ WF_vars(SendTask)
    /\ \A c \in Clients : WF_vars(Loop(c)) /\ WF_vars(Server(c))
    /\ \A r \in Receivers : WF_vars(OnChunk(r))

Spec == Init /\ [][Next]_vars

FairSpec == Spec /\ Fairness

-----------------------------------------------------------------------------
(* Properties                                                              *)

\* The sender's "文件发送完成" is true: some receiver has saved the whole file.
\* (A receiver saves nothing unless it has all chunks.)
DeliveredMeansSaved ==
    outcome[Sender] = "delivered" => \E r \in Receivers : outcome[r] = "saved"

\* A receiver can only lose step with the chunks at the first one, by accepting
\* a broadcast file that is already being sent; a receiver that was there from
\* the start never does, and neither does the one receiver of a unicast file.
BrokenOnlyAtStart ==
    \A r \in Receivers :
        outcome[r] = "broken" => Broadcast /\ next[r] = 0

\* "WebSocket 基于 TCP，天然有序可靠": a receiver that is told the file is complete
\* has got all its chunks.
CompleteComesLast == \A r \in Receivers : outcome[r] # "incomplete"

\* The one receiver of a file that has accepted it does not wait for it for ever:
\* the file is completed, fails or is cancelled.
ReceiverLearns ==
    \A r \in Receivers : target = r /\ local[r] = "Receiving" ~> local[r] = "absent"

\* Once the receivers are through with the file, so is the sender: no file is
\* left in `/files` waiting for an ack that has come and gone.
SenderLearns ==
    (\A r \in Receivers : outcome[r] \in {"saved", "incomplete"})
        ~> local[Sender] = "absent"

=============================================================================
