------------------------------ MODULE FileRelay ------------------------------
(***************************************************************************)
(* How the y2m server relays file transfers (crates/server/src/ws.rs,      *)
(* router.rs and init.rs): one handler task per socket, the heartbeat      *)
(* sweeper, the session directory and the transfer registry.               *)
(*                                                                         *)
(* A handler takes one packet at a time: it routes it, applies its effect  *)
(* on the registry, then forwards it.  Between the locks it takes, every   *)
(* other handler and the sweeper may run.  The sweeper may find any online *)
(* session expired, and a session it removed is a zombie: its handler goes *)
(* on reading the socket until the socket ends.                            *)
(*                                                                         *)
(* All clients are in one group.  They send what the y2m client can send:  *)
(* a receiver answers a file it was offered, a sender sends chunks and     *)
(* `file_complete` once it has heard an accept, in any order the delays of *)
(* the network allow.                                                      *)
(***************************************************************************)
EXTENDS SessionDirectory

CONSTANTS
    Files,      \* file ids
    None,       \* an absent map entry
    Sweeper,    \* the heartbeat sweeper
    NameOf,     \* NameOf[c]: the name the client of socket c asks for
    OwnerOf,    \* OwnerOf[f]: the connection that sends file f
    Sweepable,  \* bound: the connections whose heartbeats may fail
    Everyone,   \* the target of a packet without a target client name
    Star,       \* "*", the peer a client notes for a file sent to everyone
    Targets     \* bound: the targets files are offered to

VARIABLES
    legs,       \* the transfer registry,
    byRequest   \* see TransferRegistry

INSTANCE TransferRegistry

ASSUME FileRelayAssumption ==
    /\ Sweeper \notin Conns
    /\ None \notin Leg \cup Files \cup Conns
    /\ NoSlot \notin Slots
    /\ NameOf \in [Conns -> Slots]
    /\ OwnerOf \in [Files -> Conns]
    /\ Sweepable \subseteq Conns
    /\ Everyone \notin Slots
    /\ Star \notin Slots \cup {NoSlot, Everyone}
    /\ Targets \subseteq Slots \cup {Everyone}

VARIABLES
    job,        \* what each handler and the sweeper is doing
    victim,     \* the connection the sweeper is removing
    addressed,  \* the target the sender of a file gave its offer
    sent,       \* packets each client has sent: pairs of kind and file
    heard       \* packets put into each socket's outbound channel

registryVars == <<legs, byRequest>>
relayVars == <<job, victim, addressed, sent, heard>>
vars == <<dirVars, registryVars, relayVars>>

Tasks == Conns \cup {Sweeper}

Kinds == {"offer", "accept", "reject", "abort", "complete", "ack", "chunk"}

Steps == {"new", "registering", "idle", "finished",
          "offer", "accept", "drop", "dropIds", "complete", "completeIds",
          "ack", "ackLegs", "forward", "chunk",
          "leaving", "releasing", "scan", "removeLegs", "removeIds", "report"}

\* A task between two packets; `at` says where it is, the other fields are the
\* locals of the packet it works on.
Job(at) == [at |-> at, kind |-> None, file |-> None, to |-> {},
            ids |-> {}, keys |-> {}, removed |-> {}]

Jobs == [at: Steps, kind: Kinds \cup {None}, file: Files \cup {None},
         to: SUBSET Conns, ids: SUBSET Rids, keys: SUBSET LegKeys,
         removed: SUBSET TransferRecord]

TypeOK ==
    /\ DirTypeOK
    /\ RegistryTypeOK
    /\ job \in [Tasks -> Jobs]
    /\ victim \in Conns \cup {None}
    /\ addressed \in [Files -> Slots \cup {Everyone, None}]
    /\ sent \in [Conns -> SUBSET (Kinds \X Files)]
    /\ heard \in [Conns -> SUBSET (Kinds \X Files)]

Init ==
    /\ DirInit
    /\ RegistryInit
    /\ job = [p \in Tasks |-> Job(IF p = Sweeper THEN "idle" ELSE "new")]
    /\ victim = None
    /\ addressed = [f \in Files |-> None]
    /\ sent = [c \in Conns |-> {}]
    /\ heard = [c \in Conns |-> {}]

\* Task p goes on at another step with the same locals.
Goto(p, at) == job' = [job EXCEPT ![p].at = at]

\* Packets of this kind and file put into the channels of these connections.
Deliver(conns, kind, f) ==
    heard' = [c \in Conns |-> IF c \in conns THEN heard[c] \cup {<<kind, f>>}
                                             ELSE heard[c]]

-----------------------------------------------------------------------------
(* handle_init_packet                                                      *)

BeginInit(c) ==
    /\ job[c].at = "new"
    /\ Bind(c, NameOf[c])
    /\ Goto(c, "registering")
    /\ UNCHANGED <<registryVars, victim, addressed, sent, heard>>

EndInit(c) ==
    /\ job[c].at = "registering"
    /\ Publish(c)
    /\ Goto(c, "idle")
    /\ UNCHANGED <<registryVars, victim, addressed, sent, heard>>

-----------------------------------------------------------------------------
(* What the clients send, and route_event / route_ack on it                *)

\* Who a target stands for: a group is known while one of its names is taken.
Members(target) ==
    IF target = Everyone THEN {d \in Conns : slot[d] # NoSlot}
                         ELSE Holders(target)

\* The handler of c takes a packet off its socket and routes it; the records it
\* resolves are the ones it will use, whatever becomes of those sessions.  A
\* target that is not there is answered with an error and nothing else happens;
\* a packet to everyone does not go back to its sender.
Route(c, kind, f, target, at) ==
    /\ job[c].at = "idle"
    /\ sent' = [sent EXCEPT ![c] = @ \cup {<<kind, f>>}]
    /\ LET to == IF target = Everyone THEN Members(target) \ {c}
                                      ELSE Members(target)
       IN  job' = IF Members(target) = {} THEN job
                  ELSE [job EXCEPT ![c] = [Job(at) EXCEPT
                            !.kind = kind, !.file = f, !.to = to,
                            !.keys = IF at = "offer" THEN {f} \X to ELSE {}]]
    /\ UNCHANGED <<dirVars, registryVars, victim, heard>>

HasSent(c, kinds, f) == \E k \in kinds : <<k, f>> \in sent[c]
HasHeard(c, kinds, f) == \E k \in kinds : <<k, f>> \in heard[c]

\* The name answers to a file are sent to: the source of its offer.
SenderName(f) == NameOf[OwnerOf[f]]

SendOffer(c, f, target) ==
    /\ c = OwnerOf[f]
    /\ ~HasSent(c, {"offer"}, f)
    /\ addressed' = [addressed EXCEPT ![f] = target]
    /\ Route(c, "offer", f, target, "offer")

\* /accept or the automatic acceptance, /reject.
Answer(c, f) ==
    /\ HasHeard(c, {"offer"}, f)
    /\ ~HasSent(c, {"accept", "reject", "abort"}, f)
    /\ \/ Route(c, "accept", f, SenderName(f), "accept")
       \/ Route(c, "reject", f, SenderName(f), "drop")
    /\ UNCHANGED addressed

\* The peer a sender keeps with a file; /abort takes it for a client's name.
PeerLabel(f) == IF addressed[f] = Everyone THEN Star ELSE addressed[f]

\* /abort or a failed chunk at a receiver, /abort at the sender.
SendAbort(c, f) ==
    /\ ~HasSent(c, {"reject", "abort", "ack"}, f)
    /\ \/ /\ HasHeard(c, {"offer"}, f)
          /\ Route(c, "abort", f, SenderName(f), "drop")
       \/ /\ HasSent(c, {"offer"}, f)
          /\ Route(c, "abort", f, PeerLabel(f), "drop")
    /\ UNCHANGED addressed

\* The send task looks for the file and then sends, so that a frame of it may still
\* follow the abort that ends the file.  (The task sends one at most; here there may
\* be more.)
SendComplete(c, f) ==
    /\ HasSent(c, {"offer"}, f)
    /\ HasHeard(c, {"accept"}, f)
    /\ ~HasSent(c, {"complete"}, f)
    /\ Route(c, "complete", f, addressed[f], "complete")
    /\ UNCHANGED addressed

\* The ack of a `file_complete`, ok or rejected, quotes its request id.
SendAck(c, f) ==
    /\ HasSent(c, {"accept"}, f)
    /\ HasHeard(c, {"complete"}, f)
    /\ ~HasSent(c, {"abort", "ack"}, f)
    /\ Route(c, "ack", f, SenderName(f), "ack")
    /\ UNCHANGED addressed

\* handle_binary_message: the accepted legs are looked up when the frame comes
\* in, each receiver when its copy is about to be sent.  A chunk too may follow an
\* abort.
SendChunk(c, f) ==
    /\ job[c].at = "idle"
    /\ HasSent(c, {"offer"}, f)
    /\ HasHeard(c, {"accept"}, f)
    /\ ~HasSent(c, {"complete"}, f)
    /\ AcceptedReceivers(f, c) # {}
    /\ job' = [job EXCEPT ![c] = [Job("chunk") EXCEPT
                    !.file = f, !.to = AcceptedReceivers(f, c)]]
    /\ UNCHANGED <<dirVars, registryVars, victim, addressed, sent, heard>>

RelayChunk(c, r) ==
    /\ job[c].at = "chunk"
    /\ r \in job[c].to
    /\ IF stage[r] = "online" THEN Deliver({r}, "chunk", job[c].file)
                              ELSE UNCHANGED heard
    /\ job' = IF job[c].to = {r} THEN [job EXCEPT ![c] = Job("idle")]
                                 ELSE [job EXCEPT ![c].to = @ \ {r}]
    /\ UNCHANGED <<dirVars, registryVars, victim, addressed, sent>>

-----------------------------------------------------------------------------
(* apply_transfer_event_side_effects, handle_ack_packet                    *)

\* validate_file_offer_limits: the offer is refused and not forwarded.
OfferTooLarge(c) ==
    /\ job[c].at = "offer"
    /\ job[c].keys = {job[c].file} \X job[c].to
    /\ job' = [job EXCEPT ![c] = Job("idle")]
    /\ UNCHANGED <<dirVars, registryVars, victim, addressed, sent, heard>>

\* create_offer for one recipient after the other; keys are those still to do.
OfferLeg(c, k) ==
    /\ job[c].at = "offer"
    /\ k \in job[c].keys
    /\ CreateOffer(k[1], <<"offer", k[1]>>, c, k[2])
    /\ job' = [job EXCEPT ![c].keys = @ \ {k}]
    /\ UNCHANGED <<dirVars, victim, addressed, sent, heard>>

\* An accept without a leg is answered with an error and not forwarded.
AcceptLeg(c) ==
    /\ job[c].at = "accept"
    /\ \/ MarkAccepted(job[c].file, c) /\ Goto(c, "forward")
       \/ /\ legs[<<job[c].file, c>>] = None
          /\ job' = [job EXCEPT ![c] = Job("idle")]
          /\ UNCHANGED registryVars
    /\ UNCHANGED <<dirVars, victim, addressed, sent, heard>>

\* remove_by_file_id: all legs of the file, then the ids they carried.
DropFile(c) ==
    /\ job[c].at = "drop"
    /\ DropLegs(LegsOf(job[c].file))
    /\ job' = [job EXCEPT ![c].at = "dropIds",
                          ![c].ids = RidsOf(LegsOf(job[c].file))]
    /\ UNCHANGED <<dirVars, victim, addressed, sent, heard>>

DropFileIds(c) ==
    /\ job[c].at = "dropIds"
    /\ DropIds(job[c].ids)
    /\ Goto(c, "forward")
    /\ UNCHANGED <<dirVars, victim, addressed, sent, heard>>

\* set_complete_request_id_for_file; a file without legs is an error.
CompleteFile(c) ==
    /\ job[c].at = "complete"
    /\ \/ /\ RenameLegs(job[c].file, <<"complete", job[c].file>>)
          /\ job' = [job EXCEPT ![c].at = "completeIds",
                                ![c].ids = RidsOf(LegsOf(job[c].file))]
       \/ /\ LegsOf(job[c].file) = {}
          /\ job' = [job EXCEPT ![c] = Job("idle")]
          /\ UNCHANGED registryVars
    /\ UNCHANGED <<dirVars, victim, addressed, sent, heard>>

CompleteFileIds(c) ==
    /\ job[c].at = "completeIds"
    /\ IndexComplete(job[c].file, <<"complete", job[c].file>>, job[c].ids)
    /\ Goto(c, "forward")
    /\ UNCHANGED <<dirVars, victim, addressed, sent, heard>>

\* Slip: the ack is looked up under the request id of the offer.
AckFileOfferId(c) ==
    LET rid == <<"offer", job[c].file>>
    IN  /\ job[c].at = "ack"
        /\ IF byRequest[rid] = None
           THEN Goto(c, "forward") /\ UNCHANGED registryVars
           ELSE /\ DropIds({rid})
                /\ job' = [job EXCEPT ![c].at = "ackLegs"]
        /\ UNCHANGED <<dirVars, victim, addressed, sent, heard>>

\* remove_by_request_id: the id first, then all legs of the file it led to.  An
\* id that leads nowhere removes nothing; the ack is forwarded either way.
AckFile(c) ==
    LET rid == <<"complete", job[c].file>>
    IN  /\ job[c].at = "ack"
        /\ IF byRequest[rid] = None
           THEN Goto(c, "forward") /\ UNCHANGED registryVars
           ELSE /\ DropIds({rid})
                /\ job' = [job EXCEPT ![c].at = "ackLegs"]
        /\ UNCHANGED <<dirVars, victim, addressed, sent, heard>>

AckFileLegs(c) ==
    /\ job[c].at = "ackLegs"
    /\ DropLegs(LegsOf(job[c].file))
    /\ Goto(c, "forward")
    /\ UNCHANGED <<dirVars, victim, addressed, sent, heard>>

\* The packet into the outbound channel of every connection it was routed to.
Forward(c) ==
    /\ job[c].at = "forward" \/ (job[c].at = "offer" /\ job[c].keys = {})
    /\ Deliver(job[c].to, job[c].kind, job[c].file)
    /\ job' = [job EXCEPT ![c] = Job("idle")]
    /\ UNCHANGED <<dirVars, registryVars, victim, addressed, sent>>

-----------------------------------------------------------------------------
(* The end of a session: cleanup_disconnected_session by its handler, the  *)
(* same steps by the sweeper                                               *)

SocketEnds(c) ==
    /\ \/ job[c].at = "new" /\ Goto(c, "finished")
       \/ job[c].at = "idle" /\ Goto(c, "leaving")
    /\ UNCHANGED <<dirVars, registryVars, victim, addressed, sent, heard>>

\* Slip: transfers are only cleaned up after a session that was still there.
BeginLeaveIfOnline(c) ==
    /\ job[c].at = "leaving"
    /\ IF stage[c] = "online" THEN Retire(c) /\ Goto(c, "releasing")
                              ELSE UNCHANGED dirVars /\ Goto(c, "finished")
    /\ UNCHANGED <<registryVars, victim, addressed, sent, heard>>

\* remove_connection; a session the sweeper has taken is not removed again, but
\* its transfers are looked for all the same.
BeginLeave(c) ==
    /\ job[c].at = "leaving"
    /\ IF stage[c] = "online" THEN Retire(c) /\ Goto(c, "releasing")
                              ELSE UNCHANGED dirVars /\ Goto(c, "scan")
    /\ UNCHANGED <<registryVars, victim, addressed, sent, heard>>

\* The sweeper skips a session that is gone.
BeginSweep(c) ==
    /\ c \in Sweepable
    /\ job[Sweeper].at = "idle"
    /\ Retire(c)
    /\ victim' = c
    /\ Goto(Sweeper, "releasing")
    /\ UNCHANGED <<registryVars, addressed, sent, heard>>

\* The session task p is cleaning up after.
Subject(p) == IF p = Sweeper THEN victim ELSE p

\* Slip: the sweeper leaves the name to the handler of the session.
EndRemovalByHandler(p) ==
    /\ job[p].at = "releasing"
    /\ IF p = Sweeper THEN UNCHANGED dirVars ELSE Release(p)
    /\ Goto(p, "scan")
    /\ UNCHANGED <<registryVars, victim, addressed, sent, heard>>

EndRemoval(p) ==
    /\ job[p].at = "releasing"
    /\ Release(Subject(p))
    /\ Goto(p, "scan")
    /\ UNCHANGED <<registryVars, victim, addressed, sent, heard>>

\* remove_by_connection: the keys are collected under the read lock, what is
\* still there is removed under the write lock, then the ids.
ScanLegs(p) ==
    /\ job[p].at = "scan"
    /\ job' = [job EXCEPT ![p].at = "removeLegs",
                          ![p].keys = LegsTouching(Subject(p))]
    /\ UNCHANGED <<dirVars, registryVars, victim, addressed, sent, heard>>

\* Slip: the legs are read, not removed.
RemoveLegsRead(p) ==
    LET present == {k \in job[p].keys : legs[k] # None}
    IN  /\ job[p].at = "removeLegs"
        /\ job' = [job EXCEPT ![p].at = "removeIds", ![p].keys = {},
                              ![p].removed = RecordsOf(present)]
        /\ UNCHANGED <<dirVars, registryVars, victim, addressed, sent, heard>>

RemoveLegs(p) ==
    LET present == {k \in job[p].keys : legs[k] # None}
    IN  /\ job[p].at = "removeLegs"
        /\ DropLegs(present)
        /\ job' = [job EXCEPT ![p].at = "removeIds", ![p].keys = {},
                              ![p].removed = RecordsOf(present)]
        /\ UNCHANGED <<dirVars, victim, addressed, sent, heard>>

RemoveIds(p) ==
    /\ job[p].at = "removeIds"
    /\ DropIds({r.rid : r \in job[p].removed})
    /\ Goto(p, "report")
    /\ UNCHANGED <<dirVars, victim, addressed, sent, heard>>

\* Slip: only receivers are told.
ReportReceivers(p, r) ==
    /\ job[p].at = "report"
    /\ r \in job[p].removed
    /\ IF stage[r.receiver] = "online" THEN Deliver({r.receiver}, "abort", r.file)
                                       ELSE UNCHANGED heard
    /\ job' = [job EXCEPT ![p].removed = @ \ {r}]
    /\ UNCHANGED <<dirVars, registryVars, victim, addressed, sent>>

\* cleanup_related_transfers: FileAbort to the other end of each removed leg, if
\* it can be found by connection id.
Report(p, r) ==
    LET peer == IF r.sender = Subject(p) THEN r.receiver ELSE r.sender
    IN  /\ job[p].at = "report"
        /\ r \in job[p].removed
        /\ IF stage[peer] = "online" THEN Deliver({peer}, "abort", r.file)
                                     ELSE UNCHANGED heard
        /\ job' = [job EXCEPT ![p].removed = @ \ {r}]
        /\ UNCHANGED <<dirVars, registryVars, victim, addressed, sent>>

EndCleanup(p) ==
    /\ job[p].at = "report"
    /\ job[p].removed = {}
    /\ job' = [job EXCEPT ![p] = Job(IF p = Sweeper THEN "idle" ELSE "finished")]
    /\ victim' = IF p = Sweeper THEN None ELSE victim
    /\ UNCHANGED <<dirVars, registryVars, addressed, sent, heard>>

-----------------------------------------------------------------------------

\* What a client may do next.
Client(c) ==
    \/ BeginInit(c)
    \/ SocketEnds(c)
    \/ \E f \in Files :
          \/ \E target \in Targets : SendOffer(c, f, target)
          \/ Answer(c, f)
          \/ SendAbort(c, f)
          \/ SendChunk(c, f)
          \/ SendComplete(c, f)
          \/ SendAck(c, f)

\* What the handler of c does on its own once it has begun.
Handler(c) ==
    \/ EndInit(c)
    \/ OfferTooLarge(c)
    \/ \E k \in LegKeys : OfferLeg(c, k)
    \/ AcceptLeg(c)
    \/ DropFile(c) \/ DropFileIds(c)
    \/ CompleteFile(c) \/ CompleteFileIds(c)
    \/ AckFile(c) \/ AckFileLegs(c)
    \/ \E r \in Conns : RelayChunk(c, r)
    \/ Forward(c)
    \/ BeginLeave(c)

\* The cleanup the handlers and the sweeper share.
Cleanup(p) ==
    \/ EndRemoval(p)
    \/ ScanLegs(p)
    \/ RemoveLegs(p)
    \/ RemoveIds(p)
    \/ \E r \in job[p].removed : Report(p, r)
    \/ EndCleanup(p)

Next ==
    \/ \E c \in Conns : Client(c) \/ Handler(c) \/ BeginSweep(c)
    \/ \E p \in Tasks : Cleanup(p)

\* The runtime keeps polling a task that does not wait for its peer.  Nothing is
\* assumed of the clients or of when sessions expire.
Fairness ==
    /\ \A c \in Conns : WF_vars(Handler(c))
    /\ \A p \in Tasks : WF_vars(Cleanup(p))

Spec == Init /\ [][Next]_vars

FairSpec == Spec /\ Fairness

-----------------------------------------------------------------------------
(* Properties                                                              *)

Finished(c) == job[c].at = "finished"

\* A session that has gone takes the legs of the files it sent with it: no leg
\* is left whose sender can no longer be told about it.
LegsDieWithSender ==
    \A k \in LegKeys : legs[k] # None => ~Finished(legs[k].sender)

\* The sweeper has forgotten the id of c and not yet given its name back.
Sweeping(c) == victim = c /\ job[Sweeper].at = "releasing"

\* Whichever of the two has removed a session, its handler or the sweeper: when
\* the handler has finished and the sweeper is not just at it, the next client
\* may have the name.
NameReturned ==
    \A c \in Conns : Finished(c) /\ ~Sweeping(c) => slot[c] = NoSlot

\* No task is between two steps of a packet or a cleanup.
Quiet == \A p \in Tasks : job[p].at \in {"new", "idle", "finished"}

\* "`file_complete` 收到 `ack=rejected` 后会清理服务端传输状态": once the ack, of
\* either status, has reached the sender and every task is at rest, the server
\* keeps no leg of the file.
AckCleansTransfer ==
    Quiet =>
        \A f \in Files :
            <<"ack", f>> \in heard[OwnerOf[f]] => LegsOf(f) = {}

\* "`chat /abort <fileId>` 取消外发文件": once the sender has aborted its file and
\* every task is at rest, the server keeps no leg of it.
SenderAbortEndsTransfer ==
    Quiet =>
        \A f \in Files :
            <<"abort", f>> \in sent[OwnerOf[f]] => LegsOf(f) = {}

\* A binary chunk reaches only a receiver that has accepted the file.
ChunksOnlyToAccepters ==
    \A c \in Conns, f \in Files :
        <<"chunk", f>> \in heard[c] => <<"accept", f>> \in sent[c]

\* The sweeper and the handler both clean up after a swept session, each with keys
\* it has collected earlier; each leg is removed, and its other end told, by one of
\* them only.
LegReportedOnce ==
    \A p, q \in Tasks : p # q => job[p].removed \cap job[q].removed = {}

\* y has been told, or has itself decided, that file f is over, or is gone.
Settled(y, f) ==
    \/ HasHeard(y, {"abort", "reject", "ack"}, f)
    \/ HasSent(y, {"abort", "reject", "ack"}, f)
    \/ stage[y] # "online"

\* One end of a leg has disconnected or is being swept, the other end may be
\* waiting for it.
Abandoned(f, x, y) ==
    /\ \/ job[x].at = "leaving"
       \/ victim = x /\ job[Sweeper].at = "releasing"
    /\ \/ legs[<<f, x>>] # None /\ legs[<<f, x>>].sender = y
       \/ legs[<<f, y>>] # None /\ legs[<<f, y>>].sender = x

\* When one end of a unicast transfer disconnects or is swept, the other end
\* learns that the transfer is over.
AbandonedPeerIsTold ==
    \A f \in Files, x \in Conns : \A y \in Conns \ {x} :
        Abandoned(f, x, y) /\ addressed[f] # Everyone ~> Settled(y, f)

=============================================================================
