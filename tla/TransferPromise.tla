--------------------------- MODULE TransferPromise ---------------------------
(***************************************************************************)
(* What one file transfer promises its users: the two sides of it as their *)
(* consoles show them, and nothing of the queues, the server and the send  *)
(* task between them.                                                      *)
(*                                                                         *)
(* The sender is told one end of its file and each receiver one of its     *)
(* own.  An end is final.  "delivered" has a receiver behind it that has   *)
(* saved the file, and when a file for one receiver is "refused", that     *)
(* receiver has not saved it, does not hold it and will never be asked for *)
(* it.  Of an "unsent" file no receiver gets anything, though one may yet  *)
(* be asked for it and agree.  The other ends of the sender, after an      *)
(* abort, a failure of the server or a lost connection, say nothing of the *)
(* receivers.                                                              *)
(*                                                                         *)
(* FileSend implements this specification.                                 *)
(***************************************************************************)
EXTENDS Naturals

CONSTANTS Receivers, Everyone, Targets, Chunks

VARIABLES
    target,     \* a receiver, or Everyone
    sender,     \* what the sender knows of its file
    view,       \* what each receiver knows of it
    got         \* chunks each receiver has taken

promiseVars == <<target, sender, view, got>>

Broadcast == target = Everyone
Addressed == IF Broadcast THEN Receivers ELSE {target}

\* What the offer announces: an empty file has one chunk too, which nobody sends.
TotalChunks == IF Chunks = 0 THEN 1 ELSE Chunks

SenderOpen == {"idle", "offered"}
SenderEnds == {"delivered", "refused", "unsent", "cancelled", "failed", "disconnected"}

ViewOpen == {"asked", "receiving"}
ViewEnds == {"saved", "incomplete", "broken", "cancelled", "disconnected"}

PromiseTypeOK ==
    /\ target \in Targets
    /\ sender \in SenderOpen \cup SenderEnds
    /\ view \in [Receivers -> {"unaware"} \cup ViewOpen \cup ViewEnds]
    /\ got \in [Receivers -> 0 .. TotalChunks]

PromiseInit ==
    /\ target \in Targets
    /\ sender = "idle"
    /\ view = [r \in Receivers |-> "unaware"]
    /\ got = [r \in Receivers |-> 0]

-----------------------------------------------------------------------------
(* The sender                                                              *)

SenderComes(to) == sender' = to /\ UNCHANGED <<target, view, got>>

Offer == sender = "idle" /\ SenderComes("offered")

Deliver ==
    /\ sender = "offered"
    /\ \E r \in Receivers : view[r] = "saved"
    /\ SenderComes("delivered")

\* The receiver of a refused file has nothing of it, ...
Refuse ==
    /\ sender = "offered"
    /\ \A r \in Receivers : target = r => view[r] \notin ViewOpen \cup {"saved"}
    /\ SenderComes("refused")

\* Nobody has got anything of an unsent file, and nobody will.
Withdraw ==
    /\ sender = "offered"
    /\ \A r \in Receivers : got[r] = 0
    /\ SenderComes("unsent")

GiveUp(why) == sender \in SenderOpen /\ SenderComes(why)

-----------------------------------------------------------------------------
(* Receiver r                                                              *)

Comes(r, to) == view' = [view EXCEPT ![r] = to] /\ UNCHANGED <<target, sender, got>>

\* ... and is not asked for it later.
Ask(r) ==
    /\ view[r] = "unaware" /\ r \in Addressed
    /\ sender # "idle"
    /\ sender = "refused" => Broadcast
    /\ got[r] = 0
    /\ \E to \in ViewOpen : Comes(r, to)

Agree(r) == view[r] = "asked" /\ Comes(r, "receiving")

Get(r) ==
    /\ view[r] = "receiving" /\ got[r] < Chunks
    /\ sender # "unsent"
    /\ got' = [got EXCEPT ![r] = @ + 1]
    /\ UNCHANGED <<target, sender, view>>

Save(r) == view[r] = "receiving" /\ got[r] = TotalChunks /\ Comes(r, "saved")

Miss(r) == view[r] = "receiving" /\ got[r] # TotalChunks /\ Comes(r, "incomplete")

\* Only a receiver that came too late for the first chunk of a broadcast.
Break(r) ==
    /\ view[r] = "receiving" /\ Broadcast /\ got[r] = 0
    /\ Comes(r, "broken")

Drop(r, why) == view[r] \in ViewOpen /\ Comes(r, why)

-----------------------------------------------------------------------------

PromiseNext ==
    \/ Offer \/ Deliver \/ Refuse \/ Withdraw
    \/ \E why \in {"cancelled", "failed", "disconnected"} : GiveUp(why)
    \/ \E r \in Receivers : \E why \in {"cancelled", "disconnected"} : Drop(r, why)
    \/ \E r \in Receivers :
          Ask(r) \/ Agree(r) \/ Get(r) \/ Save(r) \/ Miss(r) \/ Break(r)

PromiseSpec == PromiseInit /\ [][PromiseNext]_promiseVars

=============================================================================
