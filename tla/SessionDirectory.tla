-------------------------- MODULE SessionDirectory --------------------------
(***************************************************************************)
(* What the session store of the server promises to everything that uses   *)
(* it: routing, the heartbeat sweeper and the transfer cleanup.  The store *)
(* of session.rs keeps two maps under two locks (names and connections);   *)
(* seen from outside, each connection simply walks through four stages     *)
(*                                                                         *)
(*   absent  - unknown to the store                                        *)
(*   named   - holds its (group, client) name, not yet found by id         *)
(*   online  - found by name and by connection id                          *)
(*   retired - no longer found by id, its name not yet given back          *)
(*                                                                         *)
(* and a name has at most one holder.  Nothing but a connection's own      *)
(* retirement gives its name back.  SessionStore implements this           *)
(* specification and FileRelay is built on it.                             *)
(***************************************************************************)

CONSTANTS
    Conns,      \* connection ids
    Slots,      \* the (group, client) names a connection may hold
    NoSlot      \* "holds no name"

VARIABLES
    stage,      \* stage of each connection
    slot        \* the name each connection holds, NoSlot when absent

dirVars == <<stage, slot>>

Stages == {"absent", "named", "online", "retired"}

DirTypeOK ==
    /\ stage \in [Conns -> Stages]
    /\ slot \in [Conns -> Slots \cup {NoSlot}]

Holders(s) == {c \in Conns : slot[c] = s}

DirInit ==
    /\ stage = [c \in Conns |-> "absent"]
    /\ slot = [c \in Conns |-> NoSlot]

-----------------------------------------------------------------------------

\* register, first lock: take a free name (session.rs:77-88).
Bind(c, s) ==
    /\ stage[c] = "absent"
    /\ Holders(s) = {}
    /\ stage' = [stage EXCEPT ![c] = "named"]
    /\ slot' = [slot EXCEPT ![c] = s]

\* register, second lock: become visible by connection id (session.rs:90-91).
Publish(c) ==
    /\ stage[c] = "named"
    /\ stage' = [stage EXCEPT ![c] = "online"]
    /\ UNCHANGED slot

\* remove_connection, first lock: the id is forgotten (session.rs:162-164).
Retire(c) ==
    /\ stage[c] = "online"
    /\ stage' = [stage EXCEPT ![c] = "retired"]
    /\ UNCHANGED slot

\* remove_connection, second lock: the name is free again (session.rs:166-172).
Release(c) ==
    /\ stage[c] = "retired"
    /\ stage' = [stage EXCEPT ![c] = "absent"]
    /\ slot' = [slot EXCEPT ![c] = NoSlot]

DirNext ==
    \E c \in Conns :
        \/ \E s \in Slots : Bind(c, s)
        \/ Publish(c)
        \/ Retire(c)
        \/ Release(c)

\* A registration or a removal that has begun is finished.
DirFairness ==
    \A c \in Conns :
        /\ WF_dirVars(Publish(c))
        /\ WF_dirVars(Release(c))

DirSafety == DirInit /\ [][DirNext]_dirVars

DirSpec == DirSafety /\ DirFairness

=============================================================================
