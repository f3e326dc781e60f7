-------------------------- MODULE TransferRegistry --------------------------
(***************************************************************************)
(* The transfer registry of the y2m server (crates/server/src/transfer.rs) *)
(*                                                                         *)
(* A file offered to n receivers has n legs, keyed by file and receiver.   *)
(* by_request_id leads from the request id of a `file_complete` to its     *)
(* file, so that the ack that quotes the id can clean the legs up.  The    *)
(* two maps have a lock each; every operator below is what happens under   *)
(* one acquisition of one of them, and an operation of several is put      *)
(* together from them by its caller (FileRelay).                           *)
(***************************************************************************)
CONSTANTS
    Conns,      \* connection ids
    Files,      \* file ids
    None        \* an absent map entry

VARIABLES
    legs,       \* (file, receiver) -> leg
    byRequest   \* by_request_id: request id -> file

\* A sender draws one request id for a file's offer and one for its completion.
Rids == {"offer", "complete"} \X Files

LegKeys == Files \X Conns

Leg == [rid: Rids, sender: Conns, accepted: BOOLEAN]

\* What remove_by_connection hands back for each leg it removed.
TransferRecord ==
    [file: Files, rid: Rids, sender: Conns, receiver: Conns]

RegistryTypeOK ==
    /\ legs \in [LegKeys -> Leg \cup {None}]
    /\ byRequest \in [Rids -> Files \cup {None}]

RegistryInit ==
    /\ legs = [k \in LegKeys |-> None]
    /\ byRequest = [r \in Rids |-> None]

-----------------------------------------------------------------------------

LegsOf(f) == {k \in LegKeys : k[1] = f /\ legs[k] # None}

LegsTouching(c) ==
    {k \in LegKeys : legs[k] # None /\ (legs[k].sender = c \/ k[2] = c)}

\* Slip: legs that were offered but not accepted count too.
OfferedReceivers(f, s) ==
    {k[2] : k \in {j \in LegsOf(f) : legs[j].sender = s}}

AcceptedReceivers(f, s) ==
    {k[2] : k \in {j \in LegsOf(f) : legs[j].sender = s /\ legs[j].accepted}}

RidsOf(keys) == {legs[k].rid : k \in keys}

RecordsOf(keys) ==
    {[file |-> k[1], rid |-> legs[k].rid,
      sender |-> legs[k].sender, receiver |-> k[2]] : k \in keys}

\* create_offer: an offer for a leg that exists overwrites it.
CreateOffer(f, rid, s, r) ==
    /\ legs' = [legs EXCEPT ![<<f, r>>] =
                    [rid |-> rid, sender |-> s, accepted |-> FALSE]]
    /\ UNCHANGED byRequest

\* mark_accepted of a leg that exists.
MarkAccepted(f, r) ==
    /\ legs[<<f, r>>] # None
    /\ legs' = [legs EXCEPT ![<<f, r>>].accepted = TRUE]
    /\ UNCHANGED byRequest

\* Removing entries under the lock of legs.
DropLegs(keys) ==
    /\ legs' = [k \in LegKeys |-> IF k \in keys THEN None ELSE legs[k]]
    /\ UNCHANGED byRequest

\* Removing entries under the lock of by_request_id.
DropIds(ids) ==
    /\ byRequest' = [r \in Rids |-> IF r \in ids THEN None ELSE byRequest[r]]
    /\ UNCHANGED legs

\* set_complete_request_id_for_file, under the lock of legs ...
RenameLegs(f, rid) ==
    /\ LegsOf(f) # {}
    /\ legs' = [k \in LegKeys |->
                    IF k \in LegsOf(f) THEN [legs[k] EXCEPT !.rid = rid]
                                       ELSE legs[k]]
    /\ UNCHANGED byRequest

\* Slip: key and value the wrong way round.
IndexCompleteSwapped(f, rid, oldIds) ==
    /\ byRequest' = [r \in Rids |-> IF r = rid THEN rid
                                    ELSE IF r \in oldIds THEN None
                                    ELSE byRequest[r]]
    /\ UNCHANGED legs

\* ... and under the lock of by_request_id.
IndexComplete(f, rid, oldIds) ==
    /\ byRequest' = [r \in Rids |-> IF r = rid THEN f
                                    ELSE IF r \in oldIds THEN None
                                    ELSE byRequest[r]]
    /\ UNCHANGED legs

=============================================================================
