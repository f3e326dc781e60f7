--------------------------- MODULE FileRelayProofs ---------------------------
(***************************************************************************)
(* Safety of FileRelay, for any number of connections, names and files.    *)
(*                                                                         *)
(* The inductive invariant follows a leg through its life: it is created   *)
(* once, by the handler of the file's owner; it is accepted only after its *)
(* receiver has sent an accept; it is removed by one task, which then holds*)
(* its record; and no handler that is through with its cleanup has legs.   *)
(* A second one, about the session directory, shows that handlers and      *)
(* sweeper keep to what SessionStore implements.                           *)
(***************************************************************************)
EXTENDS FileRelay, TLAPS

\* A handler works on a packet.
PacketSteps == {"offer", "accept", "drop", "dropIds", "complete", "completeIds",
                "ack", "ackLegs", "forward"}

\* A handler that has not begun to serve its client, or whose cleanup has already
\* removed the legs.
Legless == {"new", "registering", "removeIds", "report", "finished"}

\* The locals of a handler fit the step it is at.
HandlerFits(c) ==
    /\ job[c].at \in PacketSteps =>
          job[c].kind \in Kinds \ {"chunk"} /\ job[c].file \in Files
    /\ job[c].at = "accept" => <<"accept", job[c].file>> \in sent[c]
    /\ job[c].at = "offer" =>
          /\ OwnerOf[job[c].file] = c
          /\ <<"offer", job[c].file>> \in sent[c]
          /\ \A k \in job[c].keys : k[1] = job[c].file
    /\ job[c].at = "chunk" =>
          /\ job[c].file \in Files
          /\ \A r \in job[c].to : <<"accept", job[c].file>> \in sent[r]

HandlersFit == \A c \in Conns : HandlerFits(c)

\* The leg k has been created, and is not going to be created again.
Created(k) ==
    /\ <<"offer", k[1]>> \in sent[OwnerOf[k[1]]]
    /\ job[OwnerOf[k[1]]].at = "offer" => k \notin job[OwnerOf[k[1]]].keys

LegFits(k) ==
    legs[k] # None =>
        /\ Created(k)
        /\ legs[k].sender = OwnerOf[k[1]]
        /\ legs[k].accepted => <<"accept", k[1]>> \in sent[k[2]]

LegsFit == \A k \in LegKeys : LegFits(k)

\* The record r of a removed leg.
KeyOf(r) == <<r.file, r.receiver>>

\* A leg whose record a task holds is gone for good, and nobody else holds it.
RemovedOnce ==
    \A p \in Tasks : \A r \in job[p].removed :
        /\ Created(KeyOf(r))
        /\ legs[KeyOf(r)] = None
        /\ \A q \in Tasks \ {p} : \A s \in job[q].removed : KeyOf(s) # KeyOf(r)

\* Where a handler with legs may be.
LegsHaveSender ==
    \A k \in LegKeys : legs[k] # None =>
        /\ job[legs[k].sender].at \notin Legless
        /\ job[legs[k].sender].at = "removeLegs" => k \in job[legs[k].sender].keys

Inv ==
    /\ TypeOK
    /\ HandlersFit
    /\ LegsFit
    /\ RemovedOnce
    /\ LegsHaveSender
    /\ ChunksOnlyToAccepters

-----------------------------------------------------------------------------
(* A step of one task, seen from the invariant                             *)

\* Only task p moves.
OnlyMoves(p) == \A q \in Tasks \ {p} : job'[q] = job[q]

SentGrows == \A c \in Conns : sent[c] \subseteq sent'[c]

\* Legs are removed, renamed or accepted by their receivers; none is created.
LegsShrink ==
    \A k \in LegKeys : legs'[k] # None =>
        /\ legs[k] # None
        /\ legs'[k].sender = legs[k].sender
        /\ legs'[k].accepted =>
              legs[k].accepted \/ <<"accept", k[1]>> \in sent'[k[2]]

\* Whatever p is going to offer is new.
OffersNew(p) == job'[p].at = "offer" => \A k \in job'[p].keys : ~Created(k)

\* If p is through with its legs, it has none.
LeavesNoLegs(p) ==
    \A k \in LegKeys : legs'[k] # None /\ legs'[k].sender = p =>
        /\ job'[p].at \notin Legless
        /\ job'[p].at = "removeLegs" => k \in job'[p].keys

\* The records p holds are old ones, or those of legs it removes in this step.
TakesRemoved(p) ==
    \A r \in job'[p].removed :
        \/ r \in job[p].removed
        \/ legs[KeyOf(r)] # None /\ legs'[KeyOf(r)] = None

LEMMA KeyFacts ==
    /\ \A k \in LegKeys : k[1] \in Files /\ k[2] \in Conns /\ k = <<k[1], k[2]>>
    /\ \A k \in LegKeys : OwnerOf[k[1]] \in Conns
    /\ \A r \in TransferRecord : KeyOf(r) \in LegKeys
    /\ Conns \subseteq Tasks /\ Sweeper \in Tasks /\ Sweeper \notin Conns
    /\ None \notin Leg
BY FileRelayAssumption DEF LegKeys, TransferRecord, KeyOf, Tasks

LEMMA StepKeepsLegs ==
    ASSUME Inv, TypeOK', NEW p \in Tasks, OnlyMoves(p), SentGrows, LegsShrink,
           p \in Conns => HandlerFits(p)' /\ OffersNew(p) /\ LeavesNoLegs(p),
           TakesRemoved(p)
    PROVE  /\ HandlersFit' /\ LegsFit' /\ RemovedOnce' /\ LegsHaveSender'
<1> USE KeyFacts
<1>1. HandlersFit'
    <2> SUFFICES ASSUME NEW c \in Conns, c # p PROVE HandlerFits(c)'
        BY DEF HandlersFit
    <2>1. job'[c] = job[c] BY DEF OnlyMoves
    <2>2. HandlerFits(c) BY DEF Inv, HandlersFit
    <2>3. \A r \in job[c].to : r \in Conns
        BY DEF Inv, TypeOK, Jobs
    <2>4. QED BY <2>1, <2>2, <2>3 DEF HandlerFits, SentGrows
<1>2. ASSUME NEW k \in LegKeys, Created(k) PROVE Created(k)'
    <2>1. <<"offer", k[1]>> \in sent'[OwnerOf[k[1]]]
        BY <1>2 DEF Created, SentGrows
    <2>2. job'[OwnerOf[k[1]]].at = "offer" => k \notin job'[OwnerOf[k[1]]].keys
        BY <1>2 DEF Created, OnlyMoves, OffersNew
    <2>3. QED BY <2>1, <2>2 DEF Created
<1>3. LegsFit'
    <2> SUFFICES ASSUME NEW k \in LegKeys, legs'[k] # None PROVE LegFits(k)'
        BY DEF LegsFit, LegFits
    <2>1. /\ legs[k] # None /\ legs'[k].sender = legs[k].sender
          /\ legs'[k].accepted =>
                legs[k].accepted \/ <<"accept", k[1]>> \in sent'[k[2]]
        BY DEF LegsShrink
    <2>2. LegFits(k) BY DEF Inv, LegsFit
    <2>3. QED BY <1>2, <2>1, <2>2 DEF LegFits, SentGrows
<1>4. RemovedOnce'
    <2>1. \A q \in Tasks : job[q].removed \subseteq TransferRecord
                        /\ job'[q].removed \subseteq TransferRecord
        BY DEF Inv, TypeOK, Jobs
    <2>2. ASSUME NEW q \in Tasks, NEW r \in job'[q].removed
          PROVE  /\ Created(KeyOf(r)) /\ legs'[KeyOf(r)] = None
                 /\ \/ r \in job[q].removed
                    \/ q = p /\ legs[KeyOf(r)] # None
        BY <2>1, <2>2 DEF Inv, RemovedOnce, OnlyMoves, TakesRemoved, LegsShrink,
                          LegsFit, LegFits
    <2>3. ASSUME NEW q \in Tasks, NEW r \in job'[q].removed,
                 NEW t \in Tasks \ {q}, NEW s \in job'[t].removed
          PROVE  KeyOf(s) # KeyOf(r)
        BY <2>2, <2>3 DEF Inv, RemovedOnce
    <2>4. ASSUME NEW q \in Tasks, NEW r \in job'[q].removed
          PROVE  Created(KeyOf(r))' /\ legs'[KeyOf(r)] = None
        BY <1>2, <2>1, <2>2, <2>4
    <2>5. QED BY <2>3, <2>4 DEF RemovedOnce, KeyOf
<1>5. LegsHaveSender'
    <2> SUFFICES ASSUME NEW k \in LegKeys, legs'[k] # None
                 PROVE  /\ job'[legs'[k].sender].at \notin Legless
                        /\ job'[legs'[k].sender].at = "removeLegs"
                              => k \in job'[legs'[k].sender].keys
        BY DEF LegsHaveSender
    <2>1. legs[k] # None /\ legs'[k].sender = legs[k].sender
        BY DEF LegsShrink
    <2>2. legs[k].sender \in Conns
        BY <2>1 DEF Inv, TypeOK, RegistryTypeOK, Leg
    <2>3. CASE legs'[k].sender = p BY <2>1, <2>2, <2>3 DEF LeavesNoLegs
    <2>4. CASE legs'[k].sender # p
        BY <2>1, <2>2, <2>4 DEF OnlyMoves, Inv, LegsHaveSender
    <2>5. QED BY <2>3, <2>4
<1>6. QED BY <1>1, <1>3, <1>4, <1>5

\* A chunk is put only into the channels of receivers that have accepted.
ChunksFit ==
    \A c \in Conns, f \in Files :
        <<"chunk", f>> \in heard'[c] =>
            <<"chunk", f>> \in heard[c] \/ <<"accept", f>> \in sent'[c]

LEMMA StepKeepsInv ==
    ASSUME Inv, TypeOK', NEW p \in Tasks, OnlyMoves(p), SentGrows, LegsShrink,
           p \in Conns => HandlerFits(p)' /\ OffersNew(p) /\ LeavesNoLegs(p),
           TakesRemoved(p), ChunksFit
    PROVE  Inv'
<1>1. HandlersFit' /\ LegsFit' /\ RemovedOnce' /\ LegsHaveSender'
    BY StepKeepsLegs
<1>2. ChunksOnlyToAccepters'
    BY DEF Inv, ChunksOnlyToAccepters, ChunksFit, SentGrows
<1>3. QED BY <1>1, <1>2 DEF Inv

\* Most steps leave the legs and what has been sent alone.
LEMMA PlainStep ==
    ASSUME Inv, TypeOK', NEW p \in Tasks, OnlyMoves(p), UNCHANGED <<legs, sent>>,
           ChunksFit,
           job'[p].removed \subseteq job[p].removed,
           p \in Conns =>
              /\ HandlerFits(p)'
              /\ job'[p].at # "offer"
              /\ job'[p].at \in Legless => job[p].at \in Legless
              /\ job'[p].at = "removeLegs" => LegsTouching(p) \subseteq job'[p].keys
    PROVE  Inv'
<1>1. SentGrows /\ LegsShrink BY DEF SentGrows, LegsShrink
<1>2. TakesRemoved(p) BY DEF TakesRemoved
<1>3. p \in Conns => OffersNew(p) /\ LeavesNoLegs(p)
    BY DEF OffersNew, LeavesNoLegs, LegsTouching, Inv, LegsHaveSender
<1>4. QED BY <1>1, <1>2, <1>3, StepKeepsInv

-----------------------------------------------------------------------------
(* Types, and what the ways to move a task do                              *)

LEMMA GotoFacts ==
    ASSUME TypeOK, NEW p \in Tasks, NEW at \in Steps, Goto(p, at)
    PROVE  /\ job' \in [Tasks -> Jobs]
           /\ OnlyMoves(p)
           /\ job'[p].at = at /\ job'[p].kind = job[p].kind
           /\ job'[p].file = job[p].file /\ job'[p].to = job[p].to
           /\ job'[p].ids = job[p].ids /\ job'[p].keys = job[p].keys
           /\ job'[p].removed = job[p].removed
<1>1. job[p] \in Jobs BY DEF TypeOK
<1>2. job' = [job EXCEPT ![p] = [job[p] EXCEPT !.at = at]] BY DEF Goto
<1>3. [job[p] EXCEPT !.at = at] \in Jobs BY <1>1 DEF Jobs
<1>4. QED BY <1>1, <1>2, <1>3 DEF TypeOK, OnlyMoves, Jobs

LEMMA RestFacts ==
    ASSUME TypeOK, NEW p \in Tasks, NEW at \in Steps,
           job' = [job EXCEPT ![p] = Job(at)]
    PROVE  /\ job' \in [Tasks -> Jobs]
           /\ OnlyMoves(p)
           /\ job'[p].at = at /\ job'[p].removed = {}
<1>1. Job(at) \in Jobs BY DEF Job, Jobs
<1>2. QED BY <1>1 DEF TypeOK, OnlyMoves, Job

LEMMA DirTypes ==
    ASSUME DirTypeOK, NEW c,
           \/ \E s \in Slots : Bind(c, s)
           \/ Publish(c) \/ Retire(c) \/ Release(c)
           \/ UNCHANGED dirVars
    PROVE  DirTypeOK'
BY DEF DirTypeOK, Bind, Publish, Retire, Release, Stages, dirVars

LEMMA RegistryTypes ==
    ASSUME RegistryTypeOK,
           \/ \E k \in LegKeys : CreateOffer(k[1], <<"offer", k[1]>>, OwnerOf[k[1]], k[2])
           \/ \E k \in LegKeys : MarkAccepted(k[1], k[2])
           \/ \E keys \in SUBSET LegKeys : DropLegs(keys)
           \/ \E ids \in SUBSET Rids : DropIds(ids)
           \/ \E f \in Files : RenameLegs(f, <<"complete", f>>)
           \/ \E f \in Files, ids \in SUBSET Rids : IndexComplete(f, <<"complete", f>>, ids)
           \/ UNCHANGED registryVars
    PROVE  RegistryTypeOK'
<1> USE DEF RegistryTypeOK
<1>1. CASE \E k \in LegKeys : CreateOffer(k[1], <<"offer", k[1]>>, OwnerOf[k[1]], k[2])
    <2>1. PICK k \in LegKeys :
              CreateOffer(k[1], <<"offer", k[1]>>, OwnerOf[k[1]], k[2])
        BY <1>1
    <2>2. [rid |-> <<"offer", k[1]>>, sender |-> OwnerOf[k[1]], accepted |-> FALSE] \in Leg
        BY KeyFacts DEF Leg, Rids
    <2>3. QED BY <2>1, <2>2 DEF CreateOffer
<1>2. CASE \E k \in LegKeys : MarkAccepted(k[1], k[2])
    <2>1. PICK k \in LegKeys : MarkAccepted(k[1], k[2]) BY <1>2
    <2>2. /\ legs[k] # None
          /\ legs' = [legs EXCEPT ![k] = [legs[k] EXCEPT !.accepted = TRUE]]
          /\ byRequest' = byRequest
        BY <2>1, KeyFacts DEF MarkAccepted
    <2>3. [legs[k] EXCEPT !.accepted = TRUE] \in Leg BY <2>2 DEF Leg
    <2>4. QED BY <2>2, <2>3
<1>3. CASE \E keys \in SUBSET LegKeys : DropLegs(keys)
    BY <1>3 DEF DropLegs
<1>4. CASE \E ids \in SUBSET Rids : DropIds(ids)
    BY <1>4 DEF DropIds
<1>5. CASE \E f \in Files : RenameLegs(f, <<"complete", f>>)
    <2>1. PICK f \in Files : RenameLegs(f, <<"complete", f>>) BY <1>5
    <2>2. \A k \in LegsOf(f) : [legs[k] EXCEPT !.rid = <<"complete", f>>] \in Leg
        BY DEF LegsOf, Leg, Rids
    <2>3. QED BY <2>1, <2>2 DEF RenameLegs
<1>6. CASE \E f \in Files, ids \in SUBSET Rids : IndexComplete(f, <<"complete", f>>, ids)
    BY <1>6 DEF IndexComplete
<1>7. CASE UNCHANGED registryVars BY <1>7 DEF registryVars
<1>8. QED BY <1>1, <1>2, <1>3, <1>4, <1>5, <1>6, <1>7

-----------------------------------------------------------------------------
(* What the clients send                                                   *)

LEMMA RouteKeepsInv ==
    ASSUME Inv, NEW c \in Conns, NEW kind \in Kinds \ {"chunk"}, NEW f \in Files,
           NEW target, NEW at \in PacketSteps, Route(c, kind, f, target, at),
           at = "accept" => kind = "accept",
           at = "offer" =>
              kind = "offer" /\ c = OwnerOf[f] /\ <<"offer", f>> \notin sent[c],
           addressed' \in [Files -> Slots \cup {Everyone, None}]
    PROVE  Inv'
<1> USE KeyFacts
<1> DEFINE to == IF target = Everyone THEN Members(target) \ {c} ELSE Members(target)
           keys == IF at = "offer" THEN {f} \X to ELSE {}
           j == [Job(at) EXCEPT !.kind = kind, !.file = f, !.to = to, !.keys = keys]
<1>1. /\ job[c].at = "idle"
      /\ sent' = [sent EXCEPT ![c] = sent[c] \cup {<<kind, f>>}]
      /\ job' = job \/ job' = [job EXCEPT ![c] = j]
      /\ UNCHANGED <<dirVars, registryVars, victim, heard>>
    BY DEF Route
<1>2. to \subseteq Conns BY DEF Members, Holders
<1>3. /\ j.at = at /\ j.kind = kind /\ j.file = f /\ j.to = to /\ j.keys = keys
      /\ j.removed = {}
      /\ j \in Jobs
    <2>1. keys \subseteq LegKeys BY <1>2 DEF LegKeys
    <2>2. at \in Steps BY DEF PacketSteps, Steps
    <2>3. j = [Job(at) EXCEPT !.kind = kind, !.file = f, !.to = to, !.keys = keys]
        OBVIOUS
    <2> HIDE DEF to, keys, j
    <2>4. QED BY <1>2, <2>1, <2>2, <2>3 DEF Job, Jobs
<1>4. /\ sent' \in [Conns -> SUBSET (Kinds \X Files)]
      /\ SentGrows
      /\ <<kind, f>> \in sent'[c]
    BY <1>1 DEF Inv, TypeOK, SentGrows
<1>5. job' \in [Tasks -> Jobs] /\ OnlyMoves(c)
    BY <1>1, <1>3 DEF Inv, TypeOK, OnlyMoves
<1>6. TypeOK'
    BY <1>1, <1>4, <1>5, DirTypes, RegistryTypes DEF Inv, TypeOK
<1>7. LegsShrink /\ ChunksFit
    BY <1>1 DEF LegsShrink, ChunksFit, registryVars
<1>8. job'[c] = job[c] \/ job'[c] = j
    BY <1>1 DEF Inv, TypeOK
<1>9. \A k \in j.keys : at = "offer" /\ k[1] = f
    BY <1>3
<1> HIDE DEF to, keys, j
<1>10. CASE job'[c] = job[c]
    <2>1. TakesRemoved(c) BY <1>10 DEF TakesRemoved
    <2>2. HandlerFits(c)' BY <1>1, <1>10 DEF HandlerFits, PacketSteps
    <2>3. OffersNew(c) /\ LeavesNoLegs(c)
        BY <1>1, <1>10 DEF OffersNew, LeavesNoLegs, Legless
    <2>4. QED BY <1>4, <1>5, <1>6, <1>7, <2>1, <2>2, <2>3, StepKeepsInv
<1>11. CASE job'[c] = j
    <2>1. /\ job'[c].at = at /\ job'[c].kind = kind /\ job'[c].file = f
          /\ job'[c].removed = {}
          /\ \A k \in job'[c].keys : at = "offer" /\ k[1] = f
        BY <1>3, <1>9, <1>11
    <2>2. TakesRemoved(c) BY <2>1 DEF TakesRemoved
    <2>3. HandlerFits(c)' BY <1>4, <2>1 DEF HandlerFits, PacketSteps
    <2>4. OffersNew(c) BY <2>1 DEF OffersNew, Created
    <2>5. LeavesNoLegs(c) BY <2>1 DEF LeavesNoLegs, Legless, PacketSteps
    <2>6. QED BY <1>4, <1>5, <1>6, <1>7, <2>2, <2>3, <2>4, <2>5, StepKeepsInv
<1>12. QED BY <1>8, <1>10, <1>11

LEMMA ClientKeepsInv ==
    ASSUME Inv, NEW c \in Conns, Client(c)
    PROVE  Inv'
<1> USE KeyFacts
<1>1. CASE BeginInit(c)
    <2>1. "registering" \in Steps /\ NameOf[c] \in Slots
        BY FileRelayAssumption DEF Steps
    <2>2. /\ job' \in [Tasks -> Jobs] /\ OnlyMoves(c)
          /\ job'[c].at = "registering" /\ job'[c].removed = job[c].removed
        BY <1>1, <2>1, GotoFacts DEF BeginInit, Inv
    <2>3. TypeOK'
        BY <1>1, <2>1, <2>2, DirTypes, RegistryTypes DEF BeginInit, Inv, TypeOK
    <2>4. job[c].at = "new" /\ ChunksFit /\ UNCHANGED <<legs, sent>>
        BY <1>1 DEF BeginInit, ChunksFit, registryVars
    <2>5. QED
        BY <2>2, <2>3, <2>4, PlainStep DEF HandlerFits, PacketSteps, Legless
<1>2. CASE SocketEnds(c)
    <2>1. PICK at \in {"finished", "leaving"} :
              /\ Goto(c, at)
              /\ at = "finished" => job[c].at = "new"
        BY <1>2 DEF SocketEnds
    <2>2. /\ job' \in [Tasks -> Jobs] /\ OnlyMoves(c)
          /\ job'[c].at = at /\ job'[c].removed = job[c].removed
        BY <2>1, GotoFacts DEF Inv, Steps
    <2>3. TypeOK'
        BY <1>2, <2>2, DirTypes, RegistryTypes DEF SocketEnds, Inv, TypeOK
    <2>4. ChunksFit /\ UNCHANGED <<legs, sent>>
        BY <1>2 DEF SocketEnds, ChunksFit, registryVars
    <2>5. QED
        BY <2>1, <2>2, <2>3, <2>4, PlainStep DEF HandlerFits, PacketSteps, Legless
<1>3. ASSUME NEW f \in Files, NEW target \in Targets, SendOffer(c, f, target)
      PROVE  Inv'
    <2>1. addressed' \in [Files -> Slots \cup {Everyone, None}]
        BY <1>3, FileRelayAssumption DEF SendOffer, Inv, TypeOK
    <2>2. c = OwnerOf[f] /\ <<"offer", f>> \notin sent[c]
          /\ Route(c, "offer", f, target, "offer")
        BY <1>3 DEF SendOffer, HasSent
    <2>3. QED BY <2>1, <2>2, RouteKeepsInv DEF Kinds, PacketSteps
<1>4. ASSUME NEW f \in Files, Answer(c, f) PROVE Inv'
    <2>1. addressed' \in [Files -> Slots \cup {Everyone, None}]
        BY <1>4 DEF Answer, Inv, TypeOK
    <2>2. \/ Route(c, "accept", f, SenderName(f), "accept")
          \/ Route(c, "reject", f, SenderName(f), "drop")
        BY <1>4 DEF Answer
    <2>3. QED BY <2>1, <2>2, RouteKeepsInv DEF Kinds, PacketSteps
<1>5. ASSUME NEW f \in Files, SendAbort(c, f) PROVE Inv'
    <2>1. addressed' \in [Files -> Slots \cup {Everyone, None}]
        BY <1>5 DEF SendAbort, Inv, TypeOK
    <2>2. \/ Route(c, "abort", f, SenderName(f), "drop")
          \/ Route(c, "abort", f, PeerLabel(f), "drop")
        BY <1>5 DEF SendAbort
    <2>3. QED BY <2>1, <2>2, RouteKeepsInv DEF Kinds, PacketSteps
<1>6. ASSUME NEW f \in Files, SendComplete(c, f) PROVE Inv'
    <2>1. addressed' \in [Files -> Slots \cup {Everyone, None}]
        BY <1>6 DEF SendComplete, Inv, TypeOK
    <2>2. Route(c, "complete", f, addressed[f], "complete")
        BY <1>6 DEF SendComplete
    <2>3. QED BY <2>1, <2>2, RouteKeepsInv DEF Kinds, PacketSteps
<1>7. ASSUME NEW f \in Files, SendAck(c, f) PROVE Inv'
    <2>1. addressed' \in [Files -> Slots \cup {Everyone, None}]
        BY <1>7 DEF SendAck, Inv, TypeOK
    <2>2. Route(c, "ack", f, SenderName(f), "ack")
        BY <1>7 DEF SendAck
    <2>3. QED BY <2>1, <2>2, RouteKeepsInv DEF Kinds, PacketSteps
<1>8. ASSUME NEW f \in Files, SendChunk(c, f) PROVE Inv'
    <2> DEFINE j == [Job("chunk") EXCEPT !.file = f, !.to = AcceptedReceivers(f, c)]
    <2>1. /\ job' = [job EXCEPT ![c] = j]
          /\ UNCHANGED <<dirVars, registryVars, victim, addressed, sent, heard>>
        BY <1>8 DEF SendChunk
    <2>2. \A r \in AcceptedReceivers(f, c) :
              r \in Conns /\ <<"accept", f>> \in sent[r]
        BY DEF AcceptedReceivers, LegsOf, Inv, LegsFit, LegFits
    <2>3. /\ j.at = "chunk" /\ j.file = f /\ j.to = AcceptedReceivers(f, c)
          /\ j.removed = {}
          /\ j \in Jobs
        <3>1. j = [Job("chunk") EXCEPT !.file = f, !.to = AcceptedReceivers(f, c)]
            OBVIOUS
        <3>2. AcceptedReceivers(f, c) \subseteq Conns BY <2>2
        <3> HIDE DEF j
        <3>3. QED BY <3>1, <3>2 DEF Job, Jobs, Steps
    <2>4. job' \in [Tasks -> Jobs] /\ OnlyMoves(c) /\ job'[c] = j
        BY <2>1, <2>3 DEF Inv, TypeOK, OnlyMoves
    <2>5. TypeOK'
        BY <2>1, <2>4, DirTypes, RegistryTypes DEF Inv, TypeOK
    <2>6. ChunksFit /\ UNCHANGED <<legs, sent>>
        BY <2>1 DEF ChunksFit, registryVars
    <2>7. HandlerFits(c)'
        BY <2>2, <2>3, <2>4, <2>6 DEF HandlerFits, PacketSteps
    <2>8. QED
        BY <2>3, <2>4, <2>5, <2>6, <2>7, PlainStep DEF Legless
<1>9. QED
    BY <1>1, <1>2, <1>3, <1>4, <1>5, <1>6, <1>7, <1>8 DEF Client

-----------------------------------------------------------------------------
(* What the handlers do                                                    *)

\* The handler puts one packet down, the rest of its step aside.
LEMMA BackToIdle ==
    ASSUME Inv, NEW c \in Conns, job' = [job EXCEPT ![c] = Job("idle")],
           UNCHANGED <<dirVars, registryVars, victim, addressed, sent>>,
           heard' \in [Conns -> SUBSET (Kinds \X Files)], ChunksFit
    PROVE  Inv'
<1>1. /\ job' \in [Tasks -> Jobs] /\ OnlyMoves(c)
      /\ job'[c].at = "idle" /\ job'[c].removed = {}
    BY RestFacts, KeyFacts DEF Inv, Steps
<1>2. TypeOK'
    BY <1>1, DirTypes, RegistryTypes DEF Inv, TypeOK
<1>3. UNCHANGED <<legs, sent>> BY DEF registryVars
<1>4. QED
    BY <1>1, <1>2, <1>3, KeyFacts, PlainStep DEF HandlerFits, PacketSteps, Legless

LEMMA OfferLegKeepsInv ==
    ASSUME Inv, NEW c \in Conns, NEW k \in LegKeys, OfferLeg(c, k)
    PROVE  Inv'
<1> USE KeyFacts
<1>1. /\ job[c].at = "offer" /\ k \in job[c].keys
      /\ CreateOffer(k[1], <<"offer", k[1]>>, c, k[2])
      /\ job' = [job EXCEPT ![c] = [job[c] EXCEPT !.keys = job[c].keys \ {k}]]
      /\ UNCHANGED <<dirVars, victim, addressed, sent, heard>>
    BY DEF OfferLeg
<1>2. /\ job[c].kind \in Kinds \ {"chunk"} /\ job[c].file \in Files
      /\ OwnerOf[job[c].file] = c /\ k[1] = job[c].file
      /\ <<"offer", k[1]>> \in sent[c]
      /\ \A l \in job[c].keys : l[1] = job[c].file
    BY <1>1 DEF Inv, HandlersFit, HandlerFits, PacketSteps
<1>3. ~Created(k) /\ legs[k] = None
    BY <1>1, <1>2 DEF Created, Inv, LegsFit, LegFits
<1>4. job[c] \in Jobs /\ [job[c] EXCEPT !.keys = job[c].keys \ {k}] \in Jobs
    <2>1. job[c] \in Jobs BY DEF Inv, TypeOK
    <2>2. QED BY <2>1 DEF Jobs
<1>5. /\ job' \in [Tasks -> Jobs] /\ OnlyMoves(c)
      /\ job'[c].at = "offer" /\ job'[c].keys = job[c].keys \ {k}
      /\ job'[c].kind = job[c].kind /\ job'[c].file = job[c].file
      /\ job'[c].removed = job[c].removed
    BY <1>1, <1>4 DEF Inv, TypeOK, OnlyMoves, Jobs
<1>6. /\ legs' = [legs EXCEPT ![k] = [rid |-> <<"offer", k[1]>>, sender |-> c,
                                     accepted |-> FALSE]]
      /\ \A l \in LegKeys \ {k} : legs'[l] = legs[l]
      /\ legs'[k].sender = c /\ legs'[k].accepted = FALSE
    BY <1>1 DEF CreateOffer, Inv, TypeOK, RegistryTypeOK
<1>7. TypeOK'
    <2>1. CreateOffer(k[1], <<"offer", k[1]>>, OwnerOf[k[1]], k[2])
        BY <1>1, <1>2
    <2>2. RegistryTypeOK'
        BY <2>1, RegistryTypes DEF Inv, TypeOK
    <2>3. QED BY <1>1, <1>5, <2>2, DirTypes DEF Inv, TypeOK
<1>8. ASSUME NEW l \in LegKeys, Created(l) PROVE l # k /\ Created(l)'
    BY <1>1, <1>3, <1>5, <1>8 DEF Created, OnlyMoves
<1>9. Created(k)'
    BY <1>1, <1>2, <1>5 DEF Created
<1>10. HandlersFit'
    <2>1. HandlerFits(c)'
        BY <1>1, <1>2, <1>5 DEF HandlerFits, PacketSteps
    <2>2. ASSUME NEW d \in Conns, d # c PROVE HandlerFits(d)'
        BY <1>1, <1>5, <2>2 DEF OnlyMoves, HandlerFits, Inv, HandlersFit
    <2>3. QED BY <2>1, <2>2 DEF HandlersFit
<1>11. LegsFit'
    <2>1. LegFits(k)' BY <1>2, <1>6, <1>9 DEF LegFits
    <2>2. ASSUME NEW l \in LegKeys \ {k} PROVE LegFits(l)'
        BY <1>1, <1>6, <1>8 DEF LegFits, Inv, LegsFit
    <2>3. QED BY <2>1, <2>2 DEF LegsFit
<1>12. RemovedOnce'
    <2>1. \A q \in Tasks : /\ job'[q].removed = job[q].removed
                           /\ job[q].removed \subseteq TransferRecord
        BY <1>5 DEF OnlyMoves, Inv, TypeOK, Jobs
    <2>2. ASSUME NEW q \in Tasks, NEW r \in job[q].removed
          PROVE  Created(KeyOf(r))' /\ legs'[KeyOf(r)] = None
        BY <1>6, <1>8, <2>1 DEF Inv, RemovedOnce
    <2>3. ASSUME NEW q \in Tasks, NEW r \in job[q].removed,
                 NEW t \in Tasks \ {q}, NEW s \in job[t].removed
          PROVE  KeyOf(s) # KeyOf(r)
        BY DEF Inv, RemovedOnce
    <2>4. QED BY <2>1, <2>2, <2>3 DEF RemovedOnce, KeyOf
<1>13. LegsHaveSender'
    <2>1. ASSUME NEW l \in LegKeys \ {k}, legs[l] # None
          PROVE  /\ job'[legs[l].sender].at \notin Legless
                 /\ job'[legs[l].sender].at = "removeLegs"
                       => l \in job'[legs[l].sender].keys
        <3>1. legs[l].sender \in Conns
            BY <2>1 DEF Inv, TypeOK, RegistryTypeOK, Leg
        <3>2. QED
            BY <1>5, <2>1, <3>1 DEF OnlyMoves, Inv, LegsHaveSender, Legless
    <2>2. QED BY <1>5, <1>6, <2>1 DEF LegsHaveSender, Legless
<1>14. ChunksOnlyToAccepters'
    BY <1>1 DEF Inv, ChunksOnlyToAccepters
<1>15. QED BY <1>7, <1>10, <1>11, <1>12, <1>13, <1>14 DEF Inv

LEMMA AcceptLegKeepsInv ==
    ASSUME Inv, NEW c \in Conns, AcceptLeg(c)
    PROVE  Inv'
<1> USE KeyFacts
<1>1. /\ job[c].at = "accept" /\ job[c].file \in Files
      /\ job[c].kind \in Kinds \ {"chunk"}
      /\ <<"accept", job[c].file>> \in sent[c]
      /\ UNCHANGED <<dirVars, victim, addressed, sent, heard>>
    BY DEF AcceptLeg, Inv, HandlersFit, HandlerFits, PacketSteps
<1>2. CASE MarkAccepted(job[c].file, c) /\ Goto(c, "forward")
    <2> DEFINE k == <<job[c].file, c>>
    <2>1. /\ job' \in [Tasks -> Jobs] /\ OnlyMoves(c)
          /\ job'[c].at = "forward" /\ job'[c].kind = job[c].kind
          /\ job'[c].file = job[c].file /\ job'[c].removed = job[c].removed
        BY <1>2, GotoFacts DEF Inv, Steps
    <2>2. k \in LegKeys /\ k[1] = job[c].file /\ k[2] = c
        BY <1>1 DEF LegKeys
    <2>3. RegistryTypeOK'
        BY <1>2, <2>2, RegistryTypes DEF Inv, TypeOK
    <2>4. TypeOK'
        BY <1>1, <2>1, <2>3, DirTypes DEF Inv, TypeOK
    <2>5. /\ legs[k] \in Leg
          /\ legs' = [legs EXCEPT ![k] = [legs[k] EXCEPT !.accepted = TRUE]]
        BY <1>2, <2>2 DEF MarkAccepted, Inv, TypeOK, RegistryTypeOK
    <2>6. LegsShrink
        BY <1>1, <2>2, <2>5 DEF LegsShrink, Leg, Inv, TypeOK, RegistryTypeOK
    <2>7. SentGrows /\ ChunksFit /\ TakesRemoved(c)
        BY <1>1, <2>1 DEF SentGrows, ChunksFit, TakesRemoved
    <2>8. HandlerFits(c)' /\ OffersNew(c) /\ LeavesNoLegs(c)
        BY <1>1, <2>1 DEF HandlerFits, OffersNew, LeavesNoLegs, PacketSteps, Legless
    <2>9. QED BY <2>1, <2>4, <2>6, <2>7, <2>8, StepKeepsInv
<1>3. CASE job' = [job EXCEPT ![c] = Job("idle")] /\ UNCHANGED registryVars
    BY <1>1, <1>3, BackToIdle DEF ChunksFit, Inv, TypeOK
<1>4. QED BY <1>2, <1>3 DEF AcceptLeg

\* A step of a handler within a packet that only removes legs, renames them or
\* changes the index: what is left to say is where it goes on.
LEMMA PacketStep ==
    ASSUME Inv, NEW c \in Conns, job' \in [Tasks -> Jobs], OnlyMoves(c),
           RegistryTypeOK', LegsShrink,
           UNCHANGED <<dirVars, victim, addressed, sent, heard>>,
           job[c].at \in PacketSteps,
           job'[c].at \in PacketSteps \ {"offer", "accept"},
           job'[c].kind = job[c].kind, job'[c].file = job[c].file,
           job'[c].removed = job[c].removed
    PROVE  Inv'
<1>1. job[c].kind \in Kinds \ {"chunk"} /\ job[c].file \in Files
    BY DEF Inv, HandlersFit, HandlerFits
<1>2. TypeOK' BY DirTypes DEF Inv, TypeOK
<1>3. SentGrows /\ ChunksFit /\ TakesRemoved(c)
    BY DEF SentGrows, ChunksFit, TakesRemoved
<1>4. HandlerFits(c)' /\ OffersNew(c) /\ LeavesNoLegs(c)
    BY <1>1 DEF HandlerFits, OffersNew, LeavesNoLegs, PacketSteps, Legless
<1>5. QED BY <1>2, <1>3, <1>4, KeyFacts, StepKeepsInv

\* The task goes on with the ids it has read.
LEMMA IdsFacts ==
    ASSUME TypeOK, NEW p \in Tasks, NEW at \in Steps, NEW ids \in SUBSET Rids,
           job' = [job EXCEPT ![p].at = at, ![p].ids = ids]
    PROVE  /\ job' \in [Tasks -> Jobs]
           /\ OnlyMoves(p)
           /\ job'[p].at = at /\ job'[p].kind = job[p].kind
           /\ job'[p].file = job[p].file
           /\ job'[p].removed = job[p].removed
<1>1. job[p] \in Jobs BY DEF TypeOK
<1>2. job' = [job EXCEPT ![p] = [job[p] EXCEPT !.at = at, !.ids = ids]]
    BY DEF TypeOK
<1>3. [job[p] EXCEPT !.at = at, !.ids = ids] \in Jobs BY <1>1 DEF Jobs
<1>4. QED BY <1>1, <1>2, <1>3 DEF TypeOK, OnlyMoves, Jobs

LEMMA RidsFacts ==
    ASSUME RegistryTypeOK, NEW f
    PROVE  LegsOf(f) \in SUBSET LegKeys /\ RidsOf(LegsOf(f)) \in SUBSET Rids
BY DEF RegistryTypeOK, LegsOf, RidsOf, Leg

LEMMA DropShrinks ==
    ASSUME NEW keys, DropLegs(keys)
    PROVE  LegsShrink
BY DEF DropLegs, LegsShrink

LEMMA HandlerKeepsInv ==
    ASSUME Inv, NEW c \in Conns, Handler(c)
    PROVE  Inv'
<1> USE KeyFacts
<1> job[c] \in Jobs /\ job[c].ids \in SUBSET Rids /\ RegistryTypeOK
    BY DEF Inv, TypeOK, Jobs
<1>1. CASE EndInit(c)
    <2>1. /\ job' \in [Tasks -> Jobs] /\ OnlyMoves(c)
          /\ job'[c].at = "idle" /\ job'[c].removed = job[c].removed
        BY <1>1, GotoFacts DEF EndInit, Inv, Steps
    <2>2. TypeOK'
        BY <1>1, <2>1, DirTypes, RegistryTypes DEF EndInit, Inv, TypeOK
    <2>3. ChunksFit /\ UNCHANGED <<legs, sent>>
        BY <1>1 DEF EndInit, ChunksFit, registryVars
    <2>4. QED
        BY <2>1, <2>2, <2>3, PlainStep DEF HandlerFits, PacketSteps, Legless
<1>2. CASE OfferTooLarge(c)
    BY <1>2, BackToIdle DEF OfferTooLarge, ChunksFit, Inv, TypeOK
<1>3. ASSUME NEW k \in LegKeys, OfferLeg(c, k) PROVE Inv'
    BY <1>3, OfferLegKeepsInv
<1>4. CASE AcceptLeg(c) BY <1>4, AcceptLegKeepsInv
<1>5. CASE DropFile(c)
    <2>1. /\ job' \in [Tasks -> Jobs] /\ OnlyMoves(c)
          /\ job'[c].at = "dropIds" /\ job'[c].kind = job[c].kind
          /\ job'[c].file = job[c].file /\ job'[c].removed = job[c].removed
        <3> DEFINE ids == RidsOf(LegsOf(job[c].file))
        <3>1. job' = [job EXCEPT ![c].at = "dropIds", ![c].ids = ids]
            BY <1>5 DEF DropFile
        <3>2. ids \in SUBSET Rids BY RidsFacts
        <3>3. TypeOK /\ "dropIds" \in Steps BY DEF Inv, Steps
        <3> HIDE DEF ids
        <3>4. QED BY <3>1, <3>2, <3>3, IdsFacts
    <2>2. RegistryTypeOK' /\ LegsShrink
        BY <1>5, RidsFacts, RegistryTypes, DropShrinks DEF DropFile
    <2>3. job[c].at \in PacketSteps
          /\ UNCHANGED <<dirVars, victim, addressed, sent, heard>>
        BY <1>5 DEF DropFile, PacketSteps
    <2>4. QED BY <2>1, <2>2, <2>3, PacketStep DEF PacketSteps
<1>6. CASE DropFileIds(c)
    <2>1. /\ job' \in [Tasks -> Jobs] /\ OnlyMoves(c)
          /\ job'[c].at = "forward" /\ job'[c].kind = job[c].kind
          /\ job'[c].file = job[c].file /\ job'[c].removed = job[c].removed
        BY <1>6, GotoFacts DEF DropFileIds, Inv, Steps
    <2>2. RegistryTypeOK' /\ LegsShrink
        BY <1>6, RegistryTypes DEF DropFileIds, DropIds, LegsShrink
    <2>3. job[c].at \in PacketSteps
          /\ UNCHANGED <<dirVars, victim, addressed, sent, heard>>
        BY <1>6 DEF DropFileIds, PacketSteps
    <2>4. QED BY <2>1, <2>2, <2>3, PacketStep DEF PacketSteps
<1>7. CASE CompleteFile(c)
    <2>1. CASE /\ RenameLegs(job[c].file, <<"complete", job[c].file>>)
               /\ job' = [job EXCEPT ![c].at = "completeIds",
                                     ![c].ids = RidsOf(LegsOf(job[c].file))]
        <3>1. /\ job' \in [Tasks -> Jobs] /\ OnlyMoves(c)
              /\ job'[c].at = "completeIds" /\ job'[c].kind = job[c].kind
              /\ job'[c].file = job[c].file /\ job'[c].removed = job[c].removed
            <4> DEFINE ids == RidsOf(LegsOf(job[c].file))
            <4>1. job' = [job EXCEPT ![c].at = "completeIds", ![c].ids = ids]
                BY <2>1
            <4>2. ids \in SUBSET Rids BY RidsFacts
            <4>3. TypeOK /\ "completeIds" \in Steps BY DEF Inv, Steps
            <4> HIDE DEF ids
            <4>4. QED BY <4>1, <4>2, <4>3, IdsFacts
        <3>2. job[c].at \in PacketSteps /\ job[c].file \in Files
              /\ UNCHANGED <<dirVars, victim, addressed, sent, heard>>
            BY <1>7 DEF CompleteFile, PacketSteps, Inv, HandlersFit, HandlerFits
        <3>3. RegistryTypeOK' BY <2>1, <3>2, RegistryTypes
        <3>4. LegsShrink
            BY <2>1 DEF RenameLegs, LegsShrink, LegsOf, RegistryTypeOK, Leg
        <3>5. QED BY <3>1, <3>2, <3>3, <3>4, PacketStep DEF PacketSteps
    <2>2. CASE job' = [job EXCEPT ![c] = Job("idle")] /\ UNCHANGED registryVars
        BY <1>7, <2>2, BackToIdle DEF CompleteFile, ChunksFit, Inv, TypeOK
    <2>3. QED BY <1>7, <2>1, <2>2 DEF CompleteFile
<1>8. CASE CompleteFileIds(c)
    <2>1. /\ job' \in [Tasks -> Jobs] /\ OnlyMoves(c)
          /\ job'[c].at = "forward" /\ job'[c].kind = job[c].kind
          /\ job'[c].file = job[c].file /\ job'[c].removed = job[c].removed
        BY <1>8, GotoFacts DEF CompleteFileIds, Inv, Steps
    <2>2. job[c].at \in PacketSteps /\ job[c].file \in Files
          /\ UNCHANGED <<dirVars, victim, addressed, sent, heard>>
        BY <1>8 DEF CompleteFileIds, PacketSteps, Inv, HandlersFit, HandlerFits
    <2>3. RegistryTypeOK' /\ LegsShrink
        BY <1>8, <2>2, RegistryTypes DEF CompleteFileIds, IndexComplete, LegsShrink
    <2>4. QED BY <2>1, <2>2, <2>3, PacketStep DEF PacketSteps
<1>9. CASE AckFile(c)
    <2> DEFINE rid == <<"complete", job[c].file>>
    <2>1. /\ job[c].at = "ack" /\ job[c].file \in Files
          /\ UNCHANGED <<dirVars, victim, addressed, sent, heard>>
          /\ \/ Goto(c, "forward") /\ UNCHANGED registryVars
             \/ DropIds({rid}) /\ Goto(c, "ackLegs")
        BY <1>9 DEF AckFile, PacketSteps, Inv, HandlersFit, HandlerFits, Goto
    <2>2. /\ job' \in [Tasks -> Jobs] /\ OnlyMoves(c)
          /\ job'[c].at \in {"forward", "ackLegs"} /\ job'[c].kind = job[c].kind
          /\ job'[c].file = job[c].file /\ job'[c].removed = job[c].removed
        BY <2>1, GotoFacts DEF Inv, Steps
    <2>3. {rid} \in SUBSET Rids BY <2>1 DEF Rids
    <2>4. RegistryTypeOK' /\ LegsShrink
        BY <2>1, <2>3, RegistryTypes DEF DropIds, LegsShrink, registryVars
    <2>5. QED BY <2>1, <2>2, <2>4, PacketStep DEF PacketSteps
<1>10. CASE AckFileLegs(c)
    <2>1. /\ job' \in [Tasks -> Jobs] /\ OnlyMoves(c)
          /\ job'[c].at = "forward" /\ job'[c].kind = job[c].kind
          /\ job'[c].file = job[c].file /\ job'[c].removed = job[c].removed
        BY <1>10, GotoFacts DEF AckFileLegs, Inv, Steps
    <2>2. RegistryTypeOK' /\ LegsShrink
        BY <1>10, RidsFacts, RegistryTypes, DropShrinks DEF AckFileLegs
    <2>3. job[c].at \in PacketSteps
          /\ UNCHANGED <<dirVars, victim, addressed, sent, heard>>
        BY <1>10 DEF AckFileLegs, PacketSteps
    <2>4. QED BY <2>1, <2>2, <2>3, PacketStep DEF PacketSteps
<1>11. ASSUME NEW r \in Conns, RelayChunk(c, r) PROVE Inv'
    <2>1. /\ job[c].at = "chunk" /\ job[c].file \in Files /\ r \in job[c].to
          /\ <<"accept", job[c].file>> \in sent[r]
          /\ Deliver({r}, "chunk", job[c].file) \/ heard' = heard
          /\ UNCHANGED <<dirVars, registryVars, victim, addressed, sent>>
        BY <1>11 DEF RelayChunk, Inv, HandlersFit, HandlerFits
    <2>2. /\ heard' \in [Conns -> SUBSET (Kinds \X Files)]
          /\ \A d \in Conns : \A m \in heard'[d] :
                m \in heard[d] \/ (d = r /\ m = <<"chunk", job[c].file>>)
        <3>1. TypeOK /\ "chunk" \in Kinds BY DEF Inv, Kinds
        <3>2. CASE Deliver({r}, "chunk", job[c].file)
            BY <2>1, <3>1, <3>2 DEF Deliver, TypeOK
        <3>3. CASE heard' = heard BY <3>1, <3>3 DEF TypeOK
        <3>4. QED BY <2>1, <3>2, <3>3
    <2>3. ChunksFit BY <2>1, <2>2 DEF ChunksFit
    <2>4. CASE job[c].to = {r}
        <3>1. job' = [job EXCEPT ![c] = Job("idle")]
            BY <1>11, <2>4 DEF RelayChunk
        <3>2. QED BY <2>1, <2>2, <2>3, <3>1, BackToIdle
    <2>5. CASE job[c].to # {r}
        <3>1. job' = [job EXCEPT ![c].to = job[c].to \ {r}]
            BY <1>11, <2>5 DEF RelayChunk
        <3>2. [job[c] EXCEPT !.to = job[c].to \ {r}] \in Jobs
            BY DEF Jobs
        <3>3. /\ job' \in [Tasks -> Jobs] /\ OnlyMoves(c)
              /\ job'[c].at = "chunk" /\ job'[c].file = job[c].file
              /\ job'[c].to = job[c].to \ {r}
              /\ job'[c].removed = job[c].removed
            BY <2>1, <3>1, <3>2 DEF Inv, TypeOK, OnlyMoves, Jobs
        <3>4. TypeOK'
            BY <2>1, <2>2, <3>3, DirTypes, RegistryTypes DEF Inv, TypeOK
        <3>5. HandlerFits(c)'
            BY <2>1, <3>3 DEF HandlerFits, PacketSteps, Inv, HandlersFit
        <3>6. UNCHANGED <<legs, sent>> BY <2>1 DEF registryVars
        <3>7. QED BY <2>3, <3>3, <3>4, <3>5, <3>6, PlainStep DEF Legless
    <2>6. QED BY <2>4, <2>5
<1>12. CASE Forward(c)
    <2>1. /\ job[c].kind \in Kinds \ {"chunk"} /\ job[c].file \in Files
          /\ Deliver(job[c].to, job[c].kind, job[c].file)
          /\ job' = [job EXCEPT ![c] = Job("idle")]
          /\ UNCHANGED <<dirVars, registryVars, victim, addressed, sent>>
        BY <1>12 DEF Forward, Inv, HandlersFit, HandlerFits, PacketSteps
    <2>2. /\ heard' \in [Conns -> SUBSET (Kinds \X Files)]
          /\ \A d \in Conns : \A m \in heard'[d] :
                m \in heard[d] \/ m = <<job[c].kind, job[c].file>>
        <3>1. TypeOK /\ job[c].kind \in Kinds BY <2>1 DEF Inv
        <3>2. QED BY <2>1, <3>1 DEF Deliver, TypeOK
    <2>3. ChunksFit BY <2>1, <2>2 DEF ChunksFit
    <2>4. QED BY <2>1, <2>2, <2>3, BackToIdle
<1>13. CASE BeginLeave(c)
    <2>1. /\ job[c].at = "leaving"
          /\ Retire(c) \/ UNCHANGED dirVars
          /\ Goto(c, "releasing") \/ Goto(c, "scan")
          /\ UNCHANGED <<registryVars, victim, addressed, sent, heard>>
        BY <1>13 DEF BeginLeave
    <2>2. /\ job' \in [Tasks -> Jobs] /\ OnlyMoves(c)
          /\ job'[c].at \in {"releasing", "scan"}
          /\ job'[c].removed = job[c].removed
        BY <2>1, GotoFacts DEF Inv, Steps
    <2>3. TypeOK'
        BY <2>1, <2>2, DirTypes, RegistryTypes DEF Inv, TypeOK
    <2>4. ChunksFit /\ UNCHANGED <<legs, sent>>
        BY <2>1 DEF ChunksFit, registryVars
    <2>5. QED
        BY <2>2, <2>3, <2>4, PlainStep DEF HandlerFits, PacketSteps, Legless
<1>14. QED
    BY <1>1, <1>2, <1>3, <1>4, <1>5, <1>6, <1>7, <1>8, <1>9, <1>10, <1>11, <1>12,
       <1>13 DEF Handler

-----------------------------------------------------------------------------
(* The sweeper and the cleanup                                             *)

LEMMA BeginSweepKeepsInv ==
    ASSUME Inv, NEW c \in Conns, BeginSweep(c)
    PROVE  Inv'
<1> USE KeyFacts
<1>1. /\ job' \in [Tasks -> Jobs] /\ OnlyMoves(Sweeper)
      /\ job'[Sweeper].removed = job[Sweeper].removed
    BY GotoFacts DEF BeginSweep, Inv, Steps
<1>2. TypeOK'
    BY <1>1, DirTypes, RegistryTypes DEF BeginSweep, Inv, TypeOK
<1>3. ChunksFit /\ UNCHANGED <<legs, sent>>
    BY DEF BeginSweep, ChunksFit, registryVars
<1>4. QED BY <1>1, <1>2, <1>3, PlainStep

LEMMA RemoveLegsKeepsInv ==
    ASSUME Inv, NEW p \in Tasks, RemoveLegs(p)
    PROVE  Inv'
<1> USE KeyFacts
<1> DEFINE present == {k \in job[p].keys : legs[k] # None}
<1>1. /\ job[p].at = "removeLegs"
      /\ DropLegs(present)
      /\ job' = [job EXCEPT ![p].at = "removeIds", ![p].keys = {},
                            ![p].removed = RecordsOf(present)]
      /\ UNCHANGED <<dirVars, victim, addressed, sent, heard>>
    BY DEF RemoveLegs
<1>2. job[p] \in Jobs /\ present \subseteq LegKeys
    BY DEF Inv, TypeOK, Jobs
<1>3. \A k \in present : legs[k] \in Leg
    BY <1>2 DEF Inv, TypeOK, RegistryTypeOK
<1>4. /\ RecordsOf(present) \subseteq TransferRecord
      /\ \A r \in RecordsOf(present) : KeyOf(r) \in present
    BY <1>2, <1>3 DEF RecordsOf, TransferRecord, KeyOf, Leg
<1>5. \A k \in LegKeys : legs'[k] = IF k \in present THEN None ELSE legs[k]
    BY <1>1 DEF DropLegs
<1> HIDE DEF present
<1>6. /\ job' \in [Tasks -> Jobs] /\ OnlyMoves(p)
      /\ job'[p].at = "removeIds" /\ job'[p].removed = RecordsOf(present)
    <2>1. job' = [job EXCEPT ![p] = [job[p] EXCEPT !.at = "removeIds", !.keys = {},
                                                   !.removed = RecordsOf(present)]]
        BY <1>1 DEF Inv, TypeOK
    <2>2. [job[p] EXCEPT !.at = "removeIds", !.keys = {},
                         !.removed = RecordsOf(present)] \in Jobs
        BY <1>2, <1>4 DEF Jobs, Steps
    <2>3. QED BY <1>2, <2>1, <2>2 DEF Inv, TypeOK, OnlyMoves, Jobs
<1>7. RegistryTypeOK' BY <1>1, <1>2, RegistryTypes DEF Inv, TypeOK
<1>8. TypeOK' BY <1>1, <1>6, <1>7, DirTypes DEF Inv, TypeOK
<1>9. LegsShrink /\ SentGrows /\ ChunksFit
    BY <1>1, DropShrinks DEF SentGrows, ChunksFit
<1>10. TakesRemoved(p)
    <2>1. \A k \in present : legs[k] # None BY DEF present
    <2>2. QED BY <1>2, <1>4, <1>5, <1>6, <2>1 DEF TakesRemoved
<1>11. ASSUME p \in Conns
       PROVE  HandlerFits(p)' /\ OffersNew(p) /\ LeavesNoLegs(p)
    <2>1. HandlerFits(p)' /\ OffersNew(p)
        BY <1>6 DEF HandlerFits, OffersNew, PacketSteps
    <2>2. ASSUME NEW k \in LegKeys, legs'[k] # None, legs'[k].sender = p
          PROVE  FALSE
        <3>1. k \notin present /\ legs[k] # None /\ legs[k].sender = p
            BY <1>5, <2>2
        <3>2. k \in job[p].keys
            BY <1>1, <3>1 DEF Inv, LegsHaveSender
        <3>3. QED BY <3>1, <3>2 DEF present
    <2>3. LeavesNoLegs(p) BY <2>2 DEF LeavesNoLegs
    <2>4. QED BY <2>1, <2>3
<1>12. QED
    BY <1>6, <1>8, <1>9, <1>10, <1>11, StepKeepsInv

LEMMA CleanupKeepsInv ==
    ASSUME Inv, NEW p \in Tasks, Cleanup(p)
    PROVE  Inv'
<1> USE KeyFacts
<1> job[p] \in Jobs /\ TypeOK BY DEF Inv, TypeOK
<1>1. CASE EndRemoval(p)
    <2>1. /\ job' \in [Tasks -> Jobs] /\ OnlyMoves(p)
          /\ job'[p].at = "scan" /\ job'[p].removed = job[p].removed
        BY <1>1, GotoFacts DEF EndRemoval, Steps
    <2>2. TypeOK'
        BY <1>1, <2>1, DirTypes, RegistryTypes DEF EndRemoval, TypeOK
    <2>3. ChunksFit /\ UNCHANGED <<legs, sent>>
        BY <1>1 DEF EndRemoval, ChunksFit, registryVars
    <2>4. QED
        BY <2>1, <2>2, <2>3, PlainStep DEF HandlerFits, PacketSteps, Legless
<1>2. CASE ScanLegs(p)
    <2> DEFINE keys == LegsTouching(Subject(p))
    <2>1. keys \in SUBSET LegKeys BY DEF LegsTouching
    <2>2. p \in Conns => keys = LegsTouching(p) BY DEF Subject
    <2>3. /\ job' = [job EXCEPT ![p].at = "removeLegs", ![p].keys = keys]
          /\ UNCHANGED <<dirVars, registryVars, victim, addressed, sent, heard>>
        BY <1>2 DEF ScanLegs
    <2> HIDE DEF keys
    <2>4. /\ job' \in [Tasks -> Jobs] /\ OnlyMoves(p)
          /\ job'[p].at = "removeLegs" /\ job'[p].keys = keys
          /\ job'[p].removed = job[p].removed
        <3>1. job' = [job EXCEPT ![p] = [job[p] EXCEPT !.at = "removeLegs",
                                                       !.keys = keys]]
            BY <2>3 DEF TypeOK
        <3>2. [job[p] EXCEPT !.at = "removeLegs", !.keys = keys] \in Jobs
            BY <2>1 DEF Jobs, Steps
        <3>3. QED BY <3>1, <3>2 DEF TypeOK, OnlyMoves, Jobs
    <2>5. TypeOK'
        BY <2>3, <2>4, DirTypes, RegistryTypes DEF TypeOK
    <2>6. ChunksFit /\ UNCHANGED <<legs, sent>>
        BY <2>3 DEF ChunksFit, registryVars
    <2>7. QED
        BY <2>2, <2>4, <2>5, <2>6, PlainStep DEF HandlerFits, PacketSteps, Legless
<1>3. CASE RemoveLegs(p) BY <1>3, RemoveLegsKeepsInv
<1>4. CASE RemoveIds(p)
    <2>1. /\ job' \in [Tasks -> Jobs] /\ OnlyMoves(p)
          /\ job'[p].at = "report" /\ job'[p].removed = job[p].removed
        BY <1>4, GotoFacts DEF RemoveIds, Steps
    <2>2. {r.rid : r \in job[p].removed} \in SUBSET Rids
        BY DEF Jobs, TransferRecord
    <2>3. RegistryTypeOK'
        BY <1>4, <2>2, RegistryTypes DEF RemoveIds, TypeOK
    <2>4. TypeOK'
        BY <1>4, <2>1, <2>3, DirTypes DEF RemoveIds, TypeOK
    <2>5. ChunksFit /\ UNCHANGED <<legs, sent>>
        BY <1>4 DEF RemoveIds, ChunksFit, DropIds
    <2>6. job[p].at = "removeIds" BY <1>4 DEF RemoveIds
    <2>7. QED
        BY <2>1, <2>4, <2>5, <2>6, PlainStep DEF HandlerFits, PacketSteps, Legless
<1>5. ASSUME NEW r \in job[p].removed, Report(p, r) PROVE Inv'
    <2>1. r.file \in Files BY DEF Jobs, TransferRecord
    <2>2. PICK peer : \/ Deliver({peer}, "abort", r.file)
                      \/ heard' = heard
        BY <1>5 DEF Report
    <2>3. /\ job[p].at = "report"
          /\ job' = [job EXCEPT ![p].removed = job[p].removed \ {r}]
          /\ UNCHANGED <<dirVars, registryVars, victim, addressed, sent>>
        BY <1>5 DEF Report
    <2>4. /\ job' \in [Tasks -> Jobs] /\ OnlyMoves(p)
          /\ job'[p].at = "report" /\ job'[p].removed = job[p].removed \ {r}
        <3>1. job' = [job EXCEPT ![p] = [job[p] EXCEPT !.removed =
                                            job[p].removed \ {r}]]
            BY <2>3 DEF TypeOK
        <3>2. [job[p] EXCEPT !.removed = job[p].removed \ {r}] \in Jobs
            BY DEF Jobs
        <3>3. job' \in [Tasks -> Jobs] /\ OnlyMoves(p)
            BY <3>1, <3>2 DEF TypeOK, OnlyMoves
        <3>4. job'[p] = [job[p] EXCEPT !.removed = job[p].removed \ {r}]
            BY <3>1 DEF TypeOK
        <3>5. job[p].at = "report" BY <2>3
        <3>6. QED BY <3>3, <3>4, <3>5 DEF Jobs
    <2>5. /\ heard' \in [Conns -> SUBSET (Kinds \X Files)]
          /\ \A c \in Conns : \A m \in heard'[c] :
                m \in heard[c] \/ m = <<"abort", r.file>>
        <3>1. CASE Deliver({peer}, "abort", r.file)
            BY <2>1, <3>1 DEF Deliver, TypeOK, Kinds
        <3>2. CASE heard' = heard BY <3>2 DEF TypeOK
        <3>3. QED BY <2>2, <3>1, <3>2
    <2>6. TypeOK'
        BY <2>3, <2>4, <2>5, DirTypes, RegistryTypes DEF TypeOK
    <2>7. ChunksFit BY <2>5 DEF ChunksFit
    <2>8. UNCHANGED <<legs, sent>> BY <2>3 DEF registryVars
    <2>9. QED
        BY <2>3, <2>4, <2>6, <2>7, <2>8, PlainStep
           DEF HandlerFits, PacketSteps, Legless
<1>6. CASE EndCleanup(p)
    <2>1. PICK at \in {"idle", "finished"} :
              job' = [job EXCEPT ![p] = Job(at)] /\ (p \in Conns => at = "finished")
        BY <1>6 DEF EndCleanup
    <2>2. /\ job' \in [Tasks -> Jobs] /\ OnlyMoves(p)
          /\ job'[p].at = at /\ job'[p].removed = {}
        BY <2>1, RestFacts DEF Steps
    <2>3. TypeOK'
        BY <1>6, <2>2, DirTypes, RegistryTypes DEF EndCleanup, TypeOK
    <2>4. ChunksFit /\ UNCHANGED <<legs, sent>> /\ job[p].at = "report"
        BY <1>6 DEF EndCleanup, ChunksFit, registryVars
    <2>5. QED
        BY <2>1, <2>2, <2>3, <2>4, PlainStep DEF HandlerFits, PacketSteps, Legless
<1>7. QED BY <1>1, <1>2, <1>3, <1>4, <1>5, <1>6 DEF Cleanup

-----------------------------------------------------------------------------
(* The invariant is inductive                                              *)

LEMMA InvInit == Init => Inv
<1> SUFFICES ASSUME Init PROVE Inv
    OBVIOUS
<1> USE KeyFacts
<1>1. \A p \in Tasks : /\ job[p].at \in {"new", "idle"} /\ job[p].removed = {}
    BY DEF Init, Job
<1>2. job \in [Tasks -> Jobs]
    <2>1. Job("idle") \in Jobs /\ Job("new") \in Jobs
        BY DEF Job, Jobs, Steps
    <2>2. QED BY <2>1 DEF Init
<1>3. DirTypeOK /\ RegistryTypeOK
    BY DEF Init, DirInit, DirTypeOK, Stages, RegistryInit, RegistryTypeOK
<1>4. TypeOK
    BY <1>2, <1>3 DEF Init, TypeOK
<1>5. HandlersFit
    BY <1>1 DEF HandlersFit, HandlerFits, PacketSteps
<1>6. LegsFit /\ LegsHaveSender
    BY DEF Init, RegistryInit, LegsFit, LegFits, LegsHaveSender
<1>7. RemovedOnce
    BY <1>1 DEF RemovedOnce
<1>8. ChunksOnlyToAccepters
    BY DEF Init, ChunksOnlyToAccepters
<1>9. QED BY <1>4, <1>5, <1>6, <1>7, <1>8 DEF Inv

LEMMA InvNext == Inv /\ [Next]_vars => Inv'
<1> SUFFICES ASSUME Inv, [Next]_vars PROVE Inv'
    OBVIOUS
<1>1. CASE Next
    BY <1>1, ClientKeepsInv, HandlerKeepsInv, BeginSweepKeepsInv, CleanupKeepsInv
       DEF Next
<1>2. CASE UNCHANGED vars
    <2>1. UNCHANGED <<dirVars, legs, byRequest, job, victim, addressed, sent, heard>>
        BY <1>2 DEF vars, registryVars, relayVars
    <2>2. TypeOK'
        BY <2>1, DirTypes, RegistryTypes DEF Inv, TypeOK, registryVars
    <2>3. HandlersFit' BY <2>1 DEF Inv, HandlersFit, HandlerFits
    <2>4. LegsFit' BY <2>1 DEF Inv, LegsFit, LegFits, Created
    <2>5. RemovedOnce'
        <3>1. \A k : Created(k)' <=> Created(k) BY <2>1 DEF Created
        <3>2. RemovedOnce BY DEF Inv
        <3>3. QED BY <2>1, <3>1, <3>2 DEF RemovedOnce, KeyOf
    <2>6. LegsHaveSender' /\ ChunksOnlyToAccepters'
        BY <2>1 DEF Inv, LegsHaveSender, ChunksOnlyToAccepters
    <2>7. QED BY <2>2, <2>3, <2>4, <2>5, <2>6 DEF Inv
<1>3. QED BY <1>1, <1>2

LEMMA InvAlways == Spec => []Inv
BY InvInit, InvNext, PTL DEF Spec

-----------------------------------------------------------------------------
(* Theorems                                                                *)

\* The maps of the registry and the locals of every handler keep their types.
THEOREM RelayTypes == Spec => []TypeOK
<1>1. Inv => TypeOK BY DEF Inv
<1>2. QED BY <1>1, InvAlways, PTL

\* handle_binary_message puts chunks only into the channels of receivers that have
\* accepted the file, whatever happens between its look at the legs and its sends.
THEOREM ChunksOnlyToAcceptersAlways == Spec => []ChunksOnlyToAccepters
<1>1. Inv => ChunksOnlyToAccepters BY DEF Inv
<1>2. QED BY <1>1, InvAlways, PTL

\* The handler of a session and the sweeper may both clean up after it, and both
\* ends of a leg may go at once: each leg is still removed and reported by one task.
THEOREM LegReportedOnceAlways == Spec => []LegReportedOnce
<1>1. Inv => LegReportedOnce
    BY DEF Inv, RemovedOnce, LegReportedOnce
<1>2. QED BY <1>1, InvAlways, PTL

\* A handler that has finished, zombie or not, leaves no leg of a file it has sent.
THEOREM LegsDieWithSenderAlways == Spec => []LegsDieWithSender
<1>1. Inv => LegsDieWithSender
    BY DEF Inv, LegsHaveSender, LegsDieWithSender, Finished, Legless
<1>2. QED BY <1>1, InvAlways, PTL

-----------------------------------------------------------------------------
(* The handlers and the sweeper keep to the directory                      *)

\* A handler that no longer serves its session.
Gone == {"scan", "removeLegs", "removeIds", "report", "finished"}

\* Every half-done registration or removal in the directory belongs to the one
\* task that is about to finish it: a lock that was taken second never finds that
\* somebody else has been there.
DirectoryFits ==
    /\ \A c \in Conns :
          /\ job[c].at = "new" => stage[c] = "absent"
          /\ job[c].at = "registering" <=> stage[c] = "named"
          /\ job[c].at = "releasing" => stage[c] = "retired" /\ ~Sweeping(c)
          /\ stage[c] = "retired" => job[c].at = "releasing" \/ Sweeping(c)
          /\ job[c].at \in Gone => stage[c] # "online"
          /\ slot[c] = NoSlot <=> stage[c] = "absent"
    /\ job[Sweeper].at = "releasing" => victim \in Conns /\ stage[victim] = "retired"

\* Task p moves, but neither begins nor ends a change of the directory.
StaysOut(p) ==
    /\ UNCHANGED dirVars
    /\ OnlyMoves(p)
    /\ job[p].at \notin {"registering", "releasing"}
    /\ job'[p].at \notin {"new", "registering", "releasing"} \/ job'[p].at = job[p].at
    /\ p \in Conns /\ job'[p].at \in Gone =>
          job[p].at \in Gone \cup {"new"} \/ stage[p] # "online"
    /\ victim' = victim \/ p = Sweeper

\* Task p begins or ends a registration or a removal.
DirectoryStep(p) ==
    \/ p \in Conns /\ (BeginInit(p) \/ EndInit(p) \/ (BeginLeave(p) /\ stage[p] = "online"))
    \/ p = Sweeper /\ \E c \in Conns : BeginSweep(c)
    \/ EndRemoval(p)

LEMMA ClientStays ==
    ASSUME TypeOK, NEW c \in Conns, Client(c), ~BeginInit(c)
    PROVE  StaysOut(c)
<1> USE KeyFacts
<1> USE DEF StaysOut, OnlyMoves, Gone
<1>0. \A q \in Tasks : job[q] \in Jobs BY DEF TypeOK
<1>1. ASSUME NEW kind, NEW f, NEW target,
             NEW at \in {"offer", "accept", "drop", "complete", "ack"},
             Route(c, kind, f, target, at)
      PROVE  StaysOut(c)
    <2>1. /\ job[c].at = "idle" /\ UNCHANGED <<dirVars, victim>>
          /\ \/ job' = job
             \/ \E to, keys : job' = [job EXCEPT ![c] = [Job(at) EXCEPT
                    !.kind = kind, !.file = f, !.to = to, !.keys = keys]]
        BY <1>1 DEF Route
    <2>2. OnlyMoves(c) BY <2>1 DEF TypeOK
    <2>3. job'[c].at \in {"idle", at} BY <2>1 DEF TypeOK, Job
    <2>4. QED BY <2>1, <2>2, <2>3
<1>2. CASE SocketEnds(c)
    <2>1. /\ UNCHANGED <<dirVars, victim>>
          /\ \/ job[c].at = "new" /\ Goto(c, "finished")
             \/ job[c].at = "idle" /\ Goto(c, "leaving")
        BY <1>2 DEF SocketEnds
    <2>2. QED BY <1>0, <2>1 DEF Goto, TypeOK, Jobs
<1>3. ASSUME NEW f \in Files, SendChunk(c, f) PROVE StaysOut(c)
    <2>1. job[c].at = "idle" /\ UNCHANGED <<dirVars, victim>> BY <1>3 DEF SendChunk
    <2>2. job' = [job EXCEPT ![c] = [Job("chunk") EXCEPT
                    !.file = f, !.to = AcceptedReceivers(f, c)]]
        BY <1>3 DEF SendChunk
    <2>3. job'[c].at = "chunk" /\ OnlyMoves(c) BY <2>2 DEF TypeOK, Job
    <2>4. QED BY <2>1, <2>3
<1>4. ASSUME NEW f \in Files,
             \/ \E target \in Targets : SendOffer(c, f, target)
             \/ Answer(c, f) \/ SendAbort(c, f) \/ SendComplete(c, f) \/ SendAck(c, f)
      PROVE  StaysOut(c)
    <2>1. CASE \E target \in Targets : SendOffer(c, f, target)
        BY <1>1, <2>1 DEF SendOffer
    <2>2. CASE Answer(c, f) BY <1>1, <2>2 DEF Answer
    <2>3. CASE SendAbort(c, f) BY <1>1, <2>3 DEF SendAbort
    <2>4. CASE SendComplete(c, f) BY <1>1, <2>4 DEF SendComplete
    <2>5. CASE SendAck(c, f) BY <1>1, <2>5 DEF SendAck
    <2>6. QED BY <1>4, <2>1, <2>2, <2>3, <2>4, <2>5
<1>5. QED BY <1>2, <1>3, <1>4 DEF Client

LEMMA HandlerStays ==
    ASSUME TypeOK, NEW c \in Conns, Handler(c), ~EndInit(c),
           ~(BeginLeave(c) /\ stage[c] = "online")
    PROVE  StaysOut(c)
<1> USE KeyFacts
<1> USE DEF StaysOut, OnlyMoves, Gone
<1>0. job \in [Tasks -> Jobs] /\ c \in Tasks BY DEF TypeOK
<1>1. CASE OfferTooLarge(c) BY <1>0, <1>1 DEF OfferTooLarge, Job
<1>2. ASSUME NEW k \in LegKeys, OfferLeg(c, k) PROVE StaysOut(c)
    BY <1>0, <1>2 DEF OfferLeg, Jobs
<1>3. CASE AcceptLeg(c) BY <1>0, <1>3 DEF AcceptLeg, Goto, Job, Jobs
<1>4. CASE DropFile(c) BY <1>0, <1>4 DEF DropFile, Jobs
<1>5. CASE DropFileIds(c) BY <1>0, <1>5 DEF DropFileIds, Goto, Jobs
<1>6. CASE CompleteFile(c) BY <1>0, <1>6 DEF CompleteFile, Job, Jobs
<1>7. CASE CompleteFileIds(c) BY <1>0, <1>7 DEF CompleteFileIds, Goto, Jobs
<1>8. CASE AckFile(c)
    BY <1>0, <1>8 DEF AckFile, Goto, Jobs
<1>9. CASE AckFileLegs(c) BY <1>0, <1>9 DEF AckFileLegs, Goto, Jobs
<1>10. ASSUME NEW r \in Conns, RelayChunk(c, r) PROVE StaysOut(c)
    BY <1>0, <1>10 DEF RelayChunk, Job, Jobs
<1>11. CASE Forward(c) BY <1>0, <1>11 DEF Forward, Job
<1>12. CASE BeginLeave(c)
    BY <1>0, <1>12 DEF BeginLeave, Goto, Jobs
<1>13. QED
    BY <1>1, <1>2, <1>3, <1>4, <1>5, <1>6, <1>7, <1>8, <1>9, <1>10, <1>11, <1>12
       DEF Handler

LEMMA CleanupStays ==
    ASSUME TypeOK, NEW p \in Tasks, Cleanup(p), ~EndRemoval(p)
    PROVE  StaysOut(p)
<1> USE KeyFacts
<1> USE DEF StaysOut, OnlyMoves, Gone
<1>0. job \in [Tasks -> Jobs] BY DEF TypeOK
<1>1. CASE ScanLegs(p) BY <1>0, <1>1 DEF ScanLegs, Jobs
<1>2. CASE RemoveLegs(p) BY <1>0, <1>2 DEF RemoveLegs, Jobs
<1>3. CASE RemoveIds(p) BY <1>0, <1>3 DEF RemoveIds, Goto, Jobs
<1>4. ASSUME NEW r \in job[p].removed, Report(p, r) PROVE StaysOut(p)
    BY <1>0, <1>4 DEF Report, Jobs
<1>5. CASE EndCleanup(p) BY <1>0, <1>5 DEF EndCleanup, Job
<1>6. QED BY <1>1, <1>2, <1>3, <1>4, <1>5 DEF Cleanup

\* Every step stays out of the directory or is one of its operations.
LEMMA NextCases ==
    ASSUME TypeOK, Next
    PROVE  \E p \in Tasks : StaysOut(p) \/ DirectoryStep(p)
<1> USE KeyFacts
<1>1. ASSUME NEW c \in Conns, Client(c) \/ Handler(c) \/ BeginSweep(c)
      PROVE  \E p \in Tasks : StaysOut(p) \/ DirectoryStep(p)
    BY <1>1, ClientStays, HandlerStays DEF DirectoryStep
<1>2. ASSUME NEW p \in Tasks, Cleanup(p)
      PROVE  StaysOut(p) \/ DirectoryStep(p)
    BY <1>2, CleanupStays DEF DirectoryStep
<1>3. QED BY <1>1, <1>2 DEF Next

LEMMA StaysOutFits ==
    ASSUME DirectoryFits, NEW p \in Tasks, StaysOut(p)
    PROVE  DirectoryFits'
<1> USE KeyFacts
<1>1. stage' = stage /\ slot' = slot BY DEF StaysOut, dirVars
<1>2. ASSUME NEW c \in Conns PROVE Sweeping(c)' <=> Sweeping(c)
    BY DEF Sweeping, StaysOut, OnlyMoves
<1>3. job'[Sweeper].at = "releasing" => job[Sweeper].at = "releasing" /\ victim' = victim
    BY DEF StaysOut, OnlyMoves
<1>4. QED BY <1>1, <1>2, <1>3 DEF DirectoryFits, StaysOut, OnlyMoves, Gone

LEMMA DirectoryStepFits ==
    ASSUME TypeOK, DirectoryFits, NEW p \in Tasks, DirectoryStep(p)
    PROVE  DirectoryFits' /\ DirNext
<1> USE KeyFacts
<1>0. /\ job \in [Tasks -> Jobs] /\ stage \in [Conns -> Stages]
      /\ slot \in [Conns -> Slots \cup {NoSlot}]
      /\ NoSlot \notin Slots /\ NameOf \in [Conns -> Slots]
    BY FileRelayAssumption DEF TypeOK, DirTypeOK
<1> USE DEF DirectoryFits, Gone, Sweeping
<1>1. ASSUME NEW c \in Conns, BeginInit(c) PROVE DirectoryFits' /\ DirNext
    <2>1. /\ Bind(c, NameOf[c]) /\ NameOf[c] \in Slots
          /\ victim' = victim /\ job[c].at = "new"
          /\ job' = [job EXCEPT ![c].at = "registering"]
        BY <1>0, <1>1 DEF BeginInit, Goto
    <2>2. DirNext BY <2>1 DEF DirNext
    <2>3. DirectoryFits' BY <1>0, <2>1 DEF Bind, Jobs
    <2>4. QED BY <2>2, <2>3
<1>2. ASSUME NEW c \in Conns, EndInit(c) PROVE DirectoryFits' /\ DirNext
    <2>1. /\ Publish(c) /\ victim' = victim /\ job[c].at = "registering"
          /\ job' = [job EXCEPT ![c].at = "idle"]
        BY <1>2 DEF EndInit, Goto
    <2>2. DirNext BY <2>1 DEF DirNext
    <2>3. DirectoryFits' BY <1>0, <2>1 DEF Publish, Jobs
    <2>4. QED BY <2>2, <2>3
<1>3. ASSUME NEW c \in Conns, BeginLeave(c), stage[c] = "online"
      PROVE  DirectoryFits' /\ DirNext
    <2>1. /\ Retire(c) /\ victim' = victim /\ job[c].at = "leaving"
          /\ job' = [job EXCEPT ![c].at = "releasing"]
        BY <1>3 DEF BeginLeave, Goto
    <2>2. DirNext BY <2>1 DEF DirNext
    <2>3. DirectoryFits' BY <1>0, <2>1 DEF Retire, Jobs
    <2>4. QED BY <2>2, <2>3
<1>4. ASSUME NEW c \in Conns, BeginSweep(c) PROVE DirectoryFits' /\ DirNext
    <2>1. /\ Retire(c) /\ victim' = c /\ job[Sweeper].at = "idle"
          /\ job' = [job EXCEPT ![Sweeper].at = "releasing"]
        BY <1>4 DEF BeginSweep, Goto
    <2>2. DirNext BY <2>1 DEF DirNext
    <2>3. DirectoryFits' BY <1>0, <2>1 DEF Retire, Jobs
    <2>4. QED BY <2>2, <2>3
<1>5. ASSUME EndRemoval(p) PROVE DirectoryFits' /\ DirNext
    <2>1. /\ Release(Subject(p)) /\ victim' = victim /\ job[p].at = "releasing"
          /\ job' = [job EXCEPT ![p].at = "scan"]
        BY <1>5 DEF EndRemoval, Goto
    <2>2. Subject(p) \in Conns BY <2>1 DEF Subject, Tasks
    <2>3. DirNext BY <2>1, <2>2 DEF DirNext
    <2>4. DirectoryFits' BY <1>0, <2>1, <2>2 DEF Release, Jobs, Subject, Tasks
    <2>5. QED BY <2>3, <2>4
<1>6. QED BY <1>1, <1>2, <1>3, <1>4, <1>5 DEF DirectoryStep

LEMMA RelayDirNext ==
    TypeOK /\ DirectoryFits /\ [Next]_vars => DirectoryFits' /\ [DirNext]_dirVars
<1>1. ASSUME TypeOK, DirectoryFits, Next PROVE DirectoryFits' /\ [DirNext]_dirVars
    BY <1>1, NextCases, StaysOutFits, DirectoryStepFits DEF StaysOut
<1>2. ASSUME DirectoryFits, UNCHANGED vars PROVE DirectoryFits' /\ [DirNext]_dirVars
    BY <1>2 DEF vars, relayVars, dirVars, DirectoryFits, Sweeping
<1>3. QED BY <1>1, <1>2

LEMMA DirectoryFitsInit == Init => DirectoryFits
<1>1. ASSUME Init PROVE \A p \in Tasks : job[p].at = IF p = Sweeper THEN "idle" ELSE "new"
    BY <1>1 DEF Init, Job
<1>2. QED
    BY <1>1, KeyFacts DEF Init, DirInit, DirectoryFits, Sweeping, Gone

\* Registrations and removals of one session by its handler and the sweeper never
\* get in each other's way: whatever one of them has begun in the session store it
\* finds as it left it when it comes back for the second lock.
THEOREM DirectoryFitsAlways == Spec => []DirectoryFits
<1>1. TypeOK /\ DirectoryFits /\ [Next]_vars => DirectoryFits' BY RelayDirNext
<1>2. QED BY <1>1, DirectoryFitsInit, RelayTypes, PTL DEF Spec

\* The name of a finished handler is free, unless the sweeper is just giving it
\* back.
THEOREM NameReturnedAlways == Spec => []NameReturned
<1>1. TypeOK /\ DirectoryFits => NameReturned
    <2> SUFFICES ASSUME TypeOK, DirectoryFits, NEW c \in Conns, Finished(c), ~Sweeping(c)
                 PROVE  slot[c] = NoSlot
        BY DEF NameReturned
    <2>1. stage[c] \in Stages BY DEF TypeOK, DirTypeOK
    <2>2. QED BY <2>1 DEF DirectoryFits, Finished, Gone, Stages
<1>2. QED BY <1>1, DirectoryFitsAlways, RelayTypes, PTL

\* Everything the server does to the session directory is a step of the directory:
\* the relay keeps to the interface that SessionStore implements.
THEOREM RelayKeepsToDirectory == Spec => DirSafety
<1>1. Init => DirInit BY DEF Init
<1>2. TypeOK /\ DirectoryFits /\ [Next]_vars => [DirNext]_dirVars BY RelayDirNext
<1>3. QED
    BY <1>1, <1>2, DirectoryFitsAlways, RelayTypes, PTL DEF Spec, DirSafety
=============================================================================
