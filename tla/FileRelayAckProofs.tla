-------------------------- MODULE FileRelayAckProofs --------------------------
(***************************************************************************)
(* The ack of a unicast file cleans up after it, for any number of         *)
(* connections, names and files.                                           *)
(*                                                                         *)
(* A file for one client has one leg.  The id of its `file_complete` leads *)
(* to it until somebody removes the id, and whoever does has removed the   *)
(* leg, or is the handler of the ack and removes it next.  In a broadcast  *)
(* all legs share one id, and this fails (FileRelayAck.cfg).               *)
(***************************************************************************)
EXTENDS FileRelayProofs

\* No offer goes to everyone.
Unicast == Everyone \notin Targets

-----------------------------------------------------------------------------
(* The invariant                                                           *)

\* A name has one holder.
OneHolder == \A c, d \in Conns : slot[c] = slot[d] /\ slot[c] # NoSlot => c = d

\* The handler of the owner of f is at work on its offer.
Offering(f) == job[OwnerOf[f]].at = "offer" /\ job[OwnerOf[f]].file = f

\* The handler is through with the offer: no leg of f is created any more.
Offered(f) == <<"offer", f>> \in sent[OwnerOf[f]] /\ ~Offering(f)

Cleaned(f) == Offered(f) /\ LegsOf(f) = {}

\* The legs of f are gone, or the handler of an ack is about to remove them.
Settling(f) ==
    Cleaned(f) \/ (Offered(f) /\ \E c \in Conns : job[c].at = "ackLegs" /\ job[c].file = f)

\* k is a leg that is there, is about to be created or has just been removed.
Known(k) ==
    \/ legs[k] # None
    \/ Offering(k[1]) /\ k \in job[OwnerOf[k[1]]].keys
    \/ \E p \in Tasks : \E r \in job[p].removed : KeyOf(r) = k

OneLeg == \A k, l \in LegKeys : k[1] = l[1] /\ Known(k) /\ Known(l) => k = l

\* The ids of a file are not mixed up with those of another.
RidsFit ==
    /\ \A k \in LegKeys : legs[k] # None => legs[k].rid[2] = k[1]
    /\ \A p \in Tasks : \A r \in job[p].removed : r.rid[2] = r.file

HeardOf(kind, f) == \E c \in Conns : <<kind, f>> \in heard[c]
Forwarding(kind, f) ==
    \E c \in Conns : job[c].at = "forward" /\ job[c].kind = kind /\ job[c].file = f

\* The locals of a handler fit the packet it works on.
PacketFits(c) ==
    LET at == job[c].at
        kind == job[c].kind
        f == job[c].file
    IN  /\ at = "offer" => kind = "offer"
        /\ at = "accept" => kind = "accept"
        /\ at = "forward" => kind # "offer"
        /\ at \in {"drop", "dropIds"} => kind \in {"reject", "abort"} /\ Offered(f)
        /\ at \in {"complete", "completeIds"} => kind = "complete" /\ Offered(f)
        /\ at \in {"ack", "ackLegs"} => kind = "ack" /\ HeardOf("complete", f)
        /\ at = "dropIds" => Cleaned(f)
        /\ at \in {"dropIds", "completeIds"} => \A id \in job[c].ids : id[2] = f

\* Only its owner offers a file, and nobody hears of it before all is prepared.
OffersFit ==
    /\ \A c \in Conns, f \in Files : <<"offer", f>> \in sent[c] => c = OwnerOf[f]
    /\ \A f \in Files : HeardOf("offer", f) => Offered(f)

Indexed(f) == Offered(f) /\ byRequest[<<"complete", f>>] # None

\* file_complete is forwarded when its id leads to the file, ...
CompletesFit ==
    \A f \in Files :
        HeardOf("complete", f) \/ Forwarding("complete", f) => Indexed(f) \/ Settling(f)

\* ... and the ack when the legs are gone or about to go.
AcksFit ==
    \A f \in Files : HeardOf("ack", f) \/ Forwarding("ack", f) => Settling(f)

AckInv ==
    /\ OneHolder /\ OneLeg /\ RidsFit /\ OffersFit
    /\ \A c \in Conns : PacketFits(c)
    /\ CompletesFit /\ AcksFit


-----------------------------------------------------------------------------
(* A step of one task, seen from the invariant                             *)

HeardGrows == \A c \in Conns : heard[c] \subseteq heard'[c]

\* A leg was there, and may be renamed, or the handler of the offer creates it.
LegsComeFrom ==
    \A k \in LegKeys : legs'[k] # None =>
        /\ legs[k] # None \/ (Offering(k[1]) /\ k \in job[OwnerOf[k[1]]].keys)
        /\ \/ legs[k] # None /\ legs'[k].rid = legs[k].rid
           \/ legs'[k].rid[2] = k[1]

\* p goes on with an offer, or begins with a new one that has one leg at most.
OffersOnce(p) ==
    job'[p].at = "offer" =>
        \/ /\ job[p].at = "offer" /\ job'[p].file = job[p].file
           /\ job'[p].keys \subseteq job[p].keys
        \/ /\ <<"offer", job'[p].file>> \notin sent[p]
           /\ \A k, l \in job'[p].keys : k = l

\* The records p holds are old, or of legs it removes in this step.
RecordsComeFrom(p) ==
    \A r \in job'[p].removed :
        \/ r \in job[p].removed
        \/ legs[KeyOf(r)] # None /\ r.rid = legs[KeyOf(r)].rid

\* The handler of an ack removes the legs before it goes on.
AcksSettle(p) ==
    job[p].at = "ackLegs" =>
        \A k \in LegKeys : k[1] = job[p].file => legs'[k] = None

StepOf(p) ==
    /\ OnlyMoves(p) /\ SentGrows /\ HeardGrows
    /\ LegsComeFrom /\ OffersOnce(p) /\ RecordsComeFrom(p) /\ AcksSettle(p)

LEMMA OfferedStays ==
    ASSUME Inv, Inv', NEW p \in Tasks, StepOf(p), NEW f \in Files, Offered(f)
    PROVE  Offered(f)'
<1> DEFINE o == OwnerOf[f]
<1>1. o \in Conns /\ o \in Tasks BY FileRelayAssumption, KeyFacts
<1>2. <<"offer", f>> \in sent[o] /\ <<"offer", f>> \in sent'[o]
    BY <1>1 DEF Offered, StepOf, SentGrows
<1>3. ASSUME job'[o].at = "offer", job'[o].file = f PROVE FALSE
    <2>1. job[o].at = "offer" /\ job[o].file = f
        BY <1>1, <1>2, <1>3 DEF StepOf, OnlyMoves, OffersOnce
    <2>2. QED BY <2>1 DEF Offered, Offering
<1>4. QED BY <1>2, <1>3 DEF Offered, Offering

LEMMA CleanedStays ==
    ASSUME Inv, Inv', NEW p \in Tasks, StepOf(p), NEW f \in Files, Cleaned(f)
    PROVE  Cleaned(f)'
<1>1. Offered(f)' BY OfferedStays DEF Cleaned
<1>2. ASSUME NEW k \in LegKeys, k[1] = f, legs'[k] # None PROVE FALSE
    BY <1>2 DEF Cleaned, Offered, LegsOf, StepOf, LegsComeFrom
<1>3. QED BY <1>1, <1>2 DEF Cleaned, LegsOf

LEMMA SettlingStays ==
    ASSUME Inv, Inv', NEW p \in Tasks, StepOf(p), NEW f \in Files, Settling(f)
    PROVE  Settling(f)'
<1>1. CASE Cleaned(f) BY <1>1, CleanedStays DEF Settling
<1>2. ASSUME Offered(f), NEW c \in Conns, job[c].at = "ackLegs", job[c].file = f
      PROVE  Settling(f)'
    <2>1. Offered(f)' BY <1>2, OfferedStays
    <2>2. CASE c = p
        <3>1. LegsOf(f)' = {} BY <1>2, <2>2 DEF StepOf, AcksSettle, LegsOf
        <3>2. QED BY <2>1, <3>1 DEF Settling, Cleaned
    <2>3. CASE c # p
        <3>1. job'[c] = job[c] BY <2>3, KeyFacts DEF StepOf, OnlyMoves
        <3>2. QED BY <1>2, <2>1, <3>1 DEF Settling
    <2>4. QED BY <2>2, <2>3
<1>3. QED BY <1>1, <1>2 DEF Settling

LEMMA HeardStays ==
    ASSUME NEW p, StepOf(p), NEW kind, NEW f, HeardOf(kind, f)
    PROVE  HeardOf(kind, f)'
<1>1. PICK c \in Conns : <<kind, f>> \in heard[c] BY DEF HeardOf
<1>2. <<kind, f>> \in heard'[c] BY <1>1 DEF StepOf, HeardGrows
<1>3. QED BY <1>2 DEF HeardOf

\* What is known of a file whose offer has not been sent.
LEMMA UnsentUnknown ==
    ASSUME Inv, NEW k \in LegKeys, <<"offer", k[1]>> \notin sent[OwnerOf[k[1]]]
    PROVE  ~Known(k)
<1> USE KeyFacts
<1>1. legs[k] = None BY DEF Inv, LegsFit, LegFits, Created
<1>2. ~Offering(k[1]) BY DEF Offering, Inv, HandlersFit, HandlerFits
<1>3. \A p \in Tasks : \A r \in job[p].removed : KeyOf(r) # k
    BY DEF Inv, RemovedOnce, Created
<1>4. QED BY <1>1, <1>2, <1>3 DEF Known

\* A leg is new to the step only if the step begins its offer.
LEMMA KnownComes ==
    ASSUME Inv, Inv', NEW p \in Tasks, StepOf(p), NEW k \in LegKeys, Known(k)'
    PROVE  \/ Known(k)
           \/ /\ OwnerOf[k[1]] = p /\ k \in job'[p].keys
              /\ \A l, m \in job'[p].keys : l = m
              /\ <<"offer", k[1]>> \notin sent[p]
              /\ job'[p].at = "offer" /\ job'[p].file = k[1]
<1> USE KeyFacts
<1>1. CASE legs'[k] # None
    BY <1>1 DEF StepOf, LegsComeFrom, Known
<1>2. CASE Offering(k[1])' /\ k \in job'[OwnerOf[k[1]]].keys
    <2> DEFINE o == OwnerOf[k[1]]
    <2>1. /\ o \in Tasks /\ job'[o].at = "offer" /\ job'[o].file = k[1]
          /\ k \in job'[o].keys
        BY <1>2 DEF Offering
    <2>2. CASE o # p
        <3>1. job'[o] = job[o] BY <2>1, <2>2 DEF StepOf, OnlyMoves
        <3>2. QED BY <2>1, <3>1 DEF Known, Offering
    <2>3. CASE o = p
        BY <2>1, <2>3 DEF StepOf, OffersOnce, Known, Offering
    <2>4. QED BY <2>2, <2>3
<1>3. ASSUME NEW q \in Tasks, NEW r \in job'[q].removed, KeyOf(r) = k
      PROVE  Known(k)
    BY <1>3 DEF StepOf, OnlyMoves, RecordsComeFrom, Known
<1>4. QED BY <1>1, <1>2, <1>3 DEF Known, KeyOf

LEMMA OneLegStays ==
    ASSUME Inv, Inv', OneLeg, NEW p \in Tasks, StepOf(p)
    PROVE  OneLeg'
<1> SUFFICES ASSUME NEW k \in LegKeys, NEW l \in LegKeys, k[1] = l[1],
                    Known(k)', Known(l)'
             PROVE  k = l
    BY DEF OneLeg
<1>1. CASE Known(k) /\ Known(l) BY <1>1 DEF OneLeg
<1>2. CASE ~Known(k)
    <2>1. /\ OwnerOf[k[1]] = p /\ k \in job'[p].keys
          /\ \A i, j \in job'[p].keys : i = j
          /\ <<"offer", k[1]>> \notin sent[p]
        BY <1>2, KnownComes
    <2>2. ~Known(l) BY <2>1, UnsentUnknown
    <2>3. l \in job'[p].keys BY <2>2, KnownComes
    <2>4. QED BY <2>1, <2>3
<1>3. CASE ~Known(l)
    <2>1. /\ OwnerOf[l[1]] = p /\ l \in job'[p].keys
          /\ \A i, j \in job'[p].keys : i = j
          /\ <<"offer", l[1]>> \notin sent[p]
        BY <1>3, KnownComes
    <2>2. ~Known(k) BY <2>1, UnsentUnknown
    <2>3. k \in job'[p].keys BY <2>2, KnownComes
    <2>4. QED BY <2>1, <2>3
<1>4. QED BY <1>1, <1>2, <1>3

LEMMA RidsFitStays ==
    ASSUME Inv, Inv', RidsFit, NEW p \in Tasks, StepOf(p)
    PROVE  RidsFit'
<1> USE KeyFacts
<1>1. \A k \in LegKeys : legs'[k] # None => legs'[k].rid[2] = k[1]
    BY DEF RidsFit, StepOf, LegsComeFrom
<1>2. ASSUME NEW q \in Tasks, NEW r \in job'[q].removed PROVE r.rid[2] = r.file
    <2>1. r \in TransferRecord BY DEF Inv, TypeOK, Jobs
    <2>2. CASE r \in job[q].removed BY <2>2 DEF RidsFit
    <2>3. CASE legs[KeyOf(r)] # None /\ r.rid = legs[KeyOf(r)].rid
        <3>1. KeyOf(r) \in LegKeys /\ KeyOf(r)[1] = r.file
            BY <2>1 DEF KeyOf
        <3>2. QED BY <2>3, <3>1 DEF RidsFit
    <2>4. QED BY <2>2, <2>3 DEF StepOf, OnlyMoves, RecordsComeFrom
<1>3. QED BY <1>1, <1>2 DEF RidsFit

\* What the packets of the other handlers need stays.
LEMMA OthersStayFit ==
    ASSUME Inv, Inv', NEW p \in Tasks, StepOf(p),
           NEW c \in Conns, c # p, PacketFits(c)
    PROVE  PacketFits(c)'
<1>1. PICK f : f = job[c].file OBVIOUS
<1>2. job'[c] = job[c] BY KeyFacts DEF StepOf, OnlyMoves
<1>3. job[c].at \in PacketSteps => f \in Files
    BY <1>1 DEF Inv, HandlersFit, HandlerFits
<1>4. f \in Files => (Offered(f) => Offered(f)') /\ (Cleaned(f) => Cleaned(f)')
    BY OfferedStays, CleanedStays
<1>5. HeardOf("complete", f) => HeardOf("complete", f)'
    BY HeardStays
<1>6. QED BY <1>1, <1>2, <1>3, <1>4, <1>5 DEF PacketFits, PacketSteps

\* A packet of this kind and file has been, or is about to be, forwarded.
Passed(kind, f) == HeardOf(kind, f) \/ Forwarding(kind, f)

LEMMA AckStep ==
    ASSUME Inv, Inv', AckInv, NEW p \in Tasks, StepOf(p), OneHolder',
           \A c \in Conns, f \in Files :
              <<"offer", f>> \in sent'[c] => <<"offer", f>> \in sent[c] \/ c = OwnerOf[f],
           p \in Conns => PacketFits(p)',
           \A f \in Files :
              /\ Indexed(f) => Indexed(f)' \/ Settling(f)'
              /\ HeardOf("offer", f)' => HeardOf("offer", f) \/ Offered(f)'
              /\ Passed("complete", f)' =>
                    Passed("complete", f) \/ Indexed(f)' \/ Settling(f)'
              /\ Passed("ack", f)' => Passed("ack", f) \/ Settling(f)'
    PROVE  AckInv'
<1>1. OneLeg' /\ RidsFit' BY OneLegStays, RidsFitStays DEF AckInv
<1>2. \A c \in Conns : PacketFits(c)'
    BY OthersStayFit DEF AckInv
<1>3. OffersFit'
    <2>1. \A f \in Files : HeardOf("offer", f)' => Offered(f)'
        BY OfferedStays DEF AckInv, OffersFit
    <2>2. QED BY <2>1 DEF AckInv, OffersFit
<1>4. \A f \in Files : Settling(f) => Settling(f)'
    BY SettlingStays
<1>5. CompletesFit'
    BY <1>4 DEF AckInv, CompletesFit, Passed
<1>6. AcksFit'
    BY <1>4 DEF AckInv, AcksFit, Passed
<1>7. QED BY <1>1, <1>2, <1>3, <1>5, <1>6 DEF AckInv

\* Most steps work on no packet of a transfer.
LEMMA RestStep ==
    ASSUME Inv, Inv', AckInv, NEW p \in Tasks, OnlyMoves(p), OneHolder',
           UNCHANGED <<legs, byRequest, sent>>, HeardGrows,
           \A c \in Conns, f \in Files, kind \in {"offer", "complete", "ack"} :
              <<kind, f>> \in heard'[c] => <<kind, f>> \in heard[c],
           job[p].at # "ackLegs", job'[p].at \notin PacketSteps,
           job'[p].removed \subseteq job[p].removed
    PROVE  AckInv'
<1>1. StepOf(p)
    BY DEF StepOf, SentGrows, LegsComeFrom, OffersOnce, PacketSteps, RecordsComeFrom,
           AcksSettle
<1>2. p \in Conns => PacketFits(p)' BY DEF PacketFits, PacketSteps
<1>3. ASSUME NEW f \in Files PROVE Indexed(f) => Indexed(f)'
    BY <1>1, <1>3, OfferedStays DEF Indexed
<1>4. ASSUME NEW f \in Files, NEW kind \in {"offer", "complete", "ack"}
      PROVE  /\ HeardOf(kind, f)' => HeardOf(kind, f)
             /\ Forwarding(kind, f)' => Forwarding(kind, f)
    <2>1. HeardOf(kind, f)' => HeardOf(kind, f) BY <1>4 DEF HeardOf
    <2>2. Forwarding(kind, f)' => Forwarding(kind, f)
        BY KeyFacts DEF Forwarding, OnlyMoves, PacketSteps
    <2>3. QED BY <2>1, <2>2
<1>5. \A f \in Files :
          /\ HeardOf("offer", f)' => HeardOf("offer", f)
          /\ Passed("complete", f)' => Passed("complete", f)
          /\ Passed("ack", f)' => Passed("ack", f)
    BY <1>4 DEF Passed
<1>6. QED BY <1>1, <1>2, <1>3, <1>5, AckStep

\* A handler works on its packet; the rest of it is not yet forwarded.
LEMMA WorkStep ==
    ASSUME Inv, Inv', AckInv, NEW c \in Conns, OnlyMoves(c),
           NEW f \in Files, f = job[c].file,
           UNCHANGED <<dirVars, sent, heard>>, LegsComeFrom, AcksSettle(c),
           job'[c].kind = job[c].kind, job'[c].file = job[c].file,
           job'[c].removed = job[c].removed,
           job'[c].at = "offer" => job[c].at = "offer" /\ job'[c].keys \subseteq job[c].keys,
           StepOf(c) => PacketFits(c)',
           StepOf(c) => \A g \in Files : Indexed(g) => Indexed(g)' \/ Settling(g)',
           StepOf(c) /\ job'[c].at = "forward" =>
              /\ job[c].kind = "complete" => Indexed(f)' \/ Settling(f)'
              /\ job[c].kind = "ack" => Settling(f)'
    PROVE  AckInv'
<1> USE KeyFacts
<1>1. StepOf(c)
    BY DEF StepOf, SentGrows, HeardGrows, OffersOnce, RecordsComeFrom
<1>2. OneHolder' BY DEF AckInv, OneHolder, dirVars
<1>3. \A g \in Files, kind \in Kinds : HeardOf(kind, g)' => HeardOf(kind, g)
    BY DEF HeardOf
<1>4. ASSUME NEW g \in Files, NEW kind \in Kinds, Forwarding(kind, g)'
      PROVE  \/ Forwarding(kind, g)
             \/ job'[c].at = "forward" /\ job[c].kind = kind /\ f = g
    BY <1>4 DEF Forwarding, OnlyMoves
<1>5. \A g \in Files :
          /\ HeardOf("offer", g)' => HeardOf("offer", g)
          /\ Passed("complete", g)' =>
                Passed("complete", g) \/ Indexed(g)' \/ Settling(g)'
          /\ Passed("ack", g)' => Passed("ack", g) \/ Settling(g)'
    BY <1>1, <1>3, <1>4 DEF Passed, Kinds
<1>6. QED BY <1>1, <1>2, <1>5, AckStep

-----------------------------------------------------------------------------
(* The directory                                                           *)

LEMMA OneHolderStays ==
    ASSUME DirTypeOK, OneHolder, NEW c,
           \/ \E s \in Slots : Bind(c, s)
           \/ Publish(c) \/ Retire(c) \/ Release(c)
           \/ UNCHANGED dirVars
    PROVE  OneHolder'
<1>1. CASE \E s \in Slots : Bind(c, s)
    BY <1>1 DEF Bind, Holders, OneHolder, DirTypeOK
<1>2. CASE Release(c) BY <1>2 DEF Release, OneHolder, DirTypeOK
<1>3. CASE Publish(c) \/ Retire(c) \/ UNCHANGED dirVars
    BY <1>3 DEF Publish, Retire, dirVars, OneHolder
<1>4. QED BY <1>1, <1>2, <1>3

-----------------------------------------------------------------------------
(* What the clients send                                                   *)

\* A file its owner has offered is past its offer whenever the handler is idle.
LEMMA IdleOffered ==
    ASSUME OffersFit, NEW c \in Conns, NEW f \in Files, job[c].at = "idle",
           HasHeard(c, {"offer"}, f) \/ HasSent(c, {"offer"}, f)
    PROVE  Offered(f)
<1>1. CASE HasHeard(c, {"offer"}, f)
    BY <1>1 DEF HasHeard, HeardOf, OffersFit
<1>2. CASE HasSent(c, {"offer"}, f)
    BY <1>2 DEF HasSent, OffersFit, Offered, Offering
<1>3. QED BY <1>1, <1>2

\* What a handler that takes a packet off its socket finds.
RouteFits(c, kind, f, target, at) ==
    \/ /\ kind = "offer" /\ at = "offer" /\ c = OwnerOf[f] /\ target \in Slots
       /\ <<"offer", f>> \notin sent[c]
    \/ kind = "accept" /\ at = "accept"
    \/ kind \in {"reject", "abort"} /\ at = "drop" /\ Offered(f)
    \/ kind = "complete" /\ at = "complete" /\ Offered(f)
    \/ kind = "ack" /\ at = "ack" /\ HeardOf("complete", f)

LEMMA RouteKeepsAck ==
    ASSUME Unicast, Inv, Inv', AckInv, NEW c \in Conns, NEW kind, NEW f \in Files,
           NEW target, NEW at, Route(c, kind, f, target, at),
           RouteFits(c, kind, f, target, at)
    PROVE  AckInv'
<1> USE KeyFacts
<1> DEFINE to == IF target = Everyone THEN Members(target) \ {c} ELSE Members(target)
           keys == IF at = "offer" THEN {f} \X to ELSE {}
           j == [Job(at) EXCEPT !.kind = kind, !.file = f, !.to = to, !.keys = keys]
<1>1. /\ job[c].at = "idle"
      /\ sent' = [sent EXCEPT ![c] = sent[c] \cup {<<kind, f>>}]
      /\ job' = job \/ job' = [job EXCEPT ![c] = j]
      /\ UNCHANGED <<dirVars, registryVars, victim, heard>>
    BY DEF Route
<1>2. /\ j.at = at /\ j.kind = kind /\ j.file = f /\ j.keys = keys
      /\ j.removed = {}
    BY DEF Job
<1>3. at = "offer" => \A k, l \in keys : k = l
    <2> SUFFICES ASSUME at = "offer" PROVE \A k, l \in keys : k = l
        OBVIOUS
    <2>1. target \in Slots /\ target # Everyone /\ target # NoSlot
        BY FileRelayAssumption DEF RouteFits
    <2>2. \A d, e \in to : d = e
        BY <2>1 DEF Members, Holders, AckInv, OneHolder
    <2>3. keys = {f} \X to OBVIOUS
    <2> HIDE DEF to, keys, j
    <2>4. QED BY <2>2, <2>3
<1> HIDE DEF to, keys, j
<1>4. OnlyMoves(c) /\ (job'[c] = job[c] \/ job'[c] = j)
    BY <1>1 DEF Inv, TypeOK, OnlyMoves
<1>5. /\ \A d \in Conns \ {c} : sent'[d] = sent[d]
      /\ sent'[c] = sent[c] \cup {<<kind, f>>}
    BY <1>1 DEF Inv, TypeOK
<1>6. OffersOnce(c)
    <2>1. CASE job'[c] = job[c] BY <1>1, <2>1 DEF OffersOnce
    <2>2. CASE job'[c] = j
        BY <1>2, <1>3, <2>2 DEF OffersOnce, RouteFits
    <2>3. QED BY <1>4, <2>1, <2>2
<1>7. StepOf(c)
    <2>1. SentGrows BY <1>5 DEF SentGrows
    <2>2. HeardGrows /\ LegsComeFrom
        BY <1>1 DEF HeardGrows, LegsComeFrom, registryVars
    <2>3. RecordsComeFrom(c) BY <1>2, <1>4 DEF RecordsComeFrom
    <2>4. AcksSettle(c) BY <1>1 DEF AcksSettle
    <2>5. QED BY <1>4, <1>6, <2>1, <2>2, <2>3, <2>4 DEF StepOf
<1>8. PacketFits(c)'
    <2>1. CASE job'[c] = job[c] BY <1>1, <2>1 DEF PacketFits
    <2>2. CASE job'[c] = j
        <3>1. Offered(f) => Offered(f)' BY <1>7, OfferedStays
        <3>2. HeardOf("complete", f) => HeardOf("complete", f)'
            BY <1>7, HeardStays
        <3>3. job'[c].at = at /\ job'[c].kind = kind /\ job'[c].file = f
            BY <1>2, <2>2
        <3>4. QED BY <3>1, <3>2, <3>3 DEF PacketFits, RouteFits
    <2>3. QED BY <1>4, <2>1, <2>2
<1>9. ASSUME NEW g \in Files PROVE Indexed(g) => Indexed(g)'
    BY <1>1, <1>7, <1>9, OfferedStays DEF Indexed, registryVars
<1>10. ASSUME NEW g \in Files, NEW k
       PROVE  /\ HeardOf(k, g)' => HeardOf(k, g)
              /\ Forwarding(k, g)' => Forwarding(k, g)
    <2>1. HeardOf(k, g)' => HeardOf(k, g) BY <1>1 DEF HeardOf
    <2>2. job'[c].at = "forward" => FALSE
        BY <1>1, <1>2, <1>4 DEF RouteFits
    <2>3. Forwarding(k, g)' => Forwarding(k, g)
        BY <1>4, <2>2 DEF Forwarding, OnlyMoves
    <2>4. QED BY <2>1, <2>3
<1>11. OneHolder' BY <1>1 DEF AckInv, OneHolder, dirVars
<1>12. \A d \in Conns, g \in Files :
          <<"offer", g>> \in sent'[d] => <<"offer", g>> \in sent[d] \/ d = OwnerOf[g]
    BY <1>5 DEF RouteFits
<1>13. \A g \in Files :
          /\ HeardOf("offer", g)' => HeardOf("offer", g)
          /\ Passed("complete", g)' => Passed("complete", g)
          /\ Passed("ack", g)' => Passed("ack", g)
    BY <1>10 DEF Passed
<1>14. QED BY <1>7, <1>8, <1>9, <1>11, <1>12, <1>13, AckStep

LEMMA ClientKeepsAck ==
    ASSUME Unicast, Inv, Inv', AckInv, NEW c \in Conns, Client(c)
    PROVE  AckInv'
<1> USE KeyFacts
<1> TypeOK /\ OneHolder /\ OffersFit BY DEF Inv, AckInv
<1>1. CASE BeginInit(c)
    <2>1. /\ OnlyMoves(c) /\ job'[c].at = "registering"
          /\ job'[c].removed = job[c].removed
        BY <1>1, GotoFacts DEF BeginInit, Steps
    <2>2. OneHolder'
        BY <1>1, OneHolderStays, FileRelayAssumption DEF BeginInit, TypeOK
    <2>3. /\ UNCHANGED <<legs, byRequest, sent, heard>> /\ job[c].at = "new"
        BY <1>1 DEF BeginInit, registryVars
    <2>4. QED BY <2>1, <2>2, <2>3, RestStep DEF HeardGrows, PacketSteps
<1>2. CASE SocketEnds(c)
    <2>1. PICK at \in {"finished", "leaving"} : Goto(c, at)
        BY <1>2 DEF SocketEnds
    <2>2. /\ OnlyMoves(c) /\ job'[c].at = at
          /\ job'[c].removed = job[c].removed
        BY <2>1, GotoFacts DEF Steps
    <2>3. OneHolder' BY <1>2 DEF SocketEnds, OneHolder, dirVars
    <2>4. /\ UNCHANGED <<legs, byRequest, sent, heard>> /\ job[c].at \in {"new", "idle"}
        BY <1>2 DEF SocketEnds, registryVars
    <2>5. QED BY <2>2, <2>3, <2>4, RestStep DEF HeardGrows, PacketSteps
<1>3. ASSUME NEW f \in Files, NEW target \in Targets, SendOffer(c, f, target)
      PROVE  AckInv'
    <2>1. RouteFits(c, "offer", f, target, "offer")
        BY <1>3, FileRelayAssumption DEF Unicast, SendOffer, HasSent, RouteFits
    <2>2. Route(c, "offer", f, target, "offer") BY <1>3 DEF SendOffer
    <2>3. QED BY <2>1, <2>2, RouteKeepsAck
<1>4. ASSUME NEW f \in Files, Answer(c, f) PROVE AckInv'
    <2>1. HasHeard(c, {"offer"}, f) BY <1>4 DEF Answer
    <2>2. CASE Route(c, "accept", f, SenderName(f), "accept")
        <3>1. RouteFits(c, "accept", f, SenderName(f), "accept") BY DEF RouteFits
        <3>2. QED BY <2>2, <3>1, RouteKeepsAck
    <2>3. CASE Route(c, "reject", f, SenderName(f), "drop")
        <3>1. Offered(f) BY <2>1, <2>3, IdleOffered DEF Route
        <3>2. RouteFits(c, "reject", f, SenderName(f), "drop")
            BY <3>1 DEF RouteFits
        <3>3. QED BY <2>3, <3>2, RouteKeepsAck
    <2>4. QED BY <1>4, <2>2, <2>3 DEF Answer
<1>5. ASSUME NEW f \in Files, SendAbort(c, f) PROVE AckInv'
    <2>1. HasHeard(c, {"offer"}, f) \/ HasSent(c, {"offer"}, f)
        BY <1>5 DEF SendAbort
    <2>2. PICK target \in {SenderName(f), PeerLabel(f)} :
              Route(c, "abort", f, target, "drop")
        BY <1>5 DEF SendAbort
    <2>3. Offered(f) BY <2>1, <2>2, IdleOffered DEF Route
    <2>4. RouteFits(c, "abort", f, target, "drop") BY <2>3 DEF RouteFits
    <2>5. QED BY <2>2, <2>4, RouteKeepsAck
<1>6. ASSUME NEW f \in Files, SendComplete(c, f) PROVE AckInv'
    <2>1. /\ HasSent(c, {"offer"}, f)
          /\ Route(c, "complete", f, addressed[f], "complete")
        BY <1>6 DEF SendComplete
    <2>2. Offered(f) BY <2>1, IdleOffered DEF Route
    <2>3. RouteFits(c, "complete", f, addressed[f], "complete")
        BY <2>2 DEF RouteFits
    <2>4. QED BY <2>1, <2>3, RouteKeepsAck
<1>7. ASSUME NEW f \in Files, SendAck(c, f) PROVE AckInv'
    <2>1. /\ HasHeard(c, {"complete"}, f)
          /\ Route(c, "ack", f, SenderName(f), "ack")
        BY <1>7 DEF SendAck
    <2>2. RouteFits(c, "ack", f, SenderName(f), "ack")
        BY <2>1 DEF RouteFits, HasHeard, HeardOf
    <2>3. QED BY <2>1, <2>2, RouteKeepsAck
<1>8. ASSUME NEW f \in Files, SendChunk(c, f) PROVE AckInv'
    <2> DEFINE j == [Job("chunk") EXCEPT !.file = f, !.to = AcceptedReceivers(f, c)]
    <2>1. /\ job' = [job EXCEPT ![c] = j] /\ job[c].at = "idle"
          /\ UNCHANGED <<dirVars, registryVars, sent, heard>>
        BY <1>8 DEF SendChunk
    <2>2. j.at = "chunk" /\ j.removed = {} BY DEF Job
    <2> HIDE DEF j
    <2>3. OnlyMoves(c) /\ job'[c] = j
        BY <2>1 DEF TypeOK, OnlyMoves
    <2>4. OneHolder' /\ HeardGrows /\ UNCHANGED <<legs, byRequest, sent>>
        BY <2>1 DEF OneHolder, dirVars, registryVars, HeardGrows
    <2>5. QED BY <2>1, <2>2, <2>3, <2>4, RestStep DEF PacketSteps
<1>9. QED
    BY <1>1, <1>2, <1>3, <1>4, <1>5, <1>6, <1>7, <1>8 DEF Client

-----------------------------------------------------------------------------
(* What the handlers do                                                    *)

\* The handler is through with its packet, the registry untouched.
LEMMA IdleStep ==
    ASSUME Inv, Inv', AckInv, NEW c \in Conns, job[c].at # "ackLegs",
           job' = [job EXCEPT ![c] = Job("idle")],
           UNCHANGED <<dirVars, registryVars, sent, heard>>
    PROVE  AckInv'
<1>1. OnlyMoves(c) /\ job'[c].at = "idle" /\ job'[c].removed = {}
    BY RestFacts, KeyFacts DEF Inv, Steps
<1>2. OneHolder' /\ HeardGrows /\ UNCHANGED <<legs, byRequest, sent, heard>>
    BY DEF AckInv, OneHolder, dirVars, registryVars, HeardGrows
<1>3. QED BY <1>1, <1>2, KeyFacts, RestStep DEF PacketSteps

LEMMA OfferLegKeepsAck ==
    ASSUME Inv, Inv', AckInv, NEW c \in Conns, NEW k \in LegKeys, OfferLeg(c, k)
    PROVE  AckInv'
<1> USE KeyFacts
<1>1. /\ job[c].at = "offer" /\ k \in job[c].keys
      /\ CreateOffer(k[1], <<"offer", k[1]>>, c, k[2])
      /\ job' = [job EXCEPT ![c] = [job[c] EXCEPT !.keys = job[c].keys \ {k}]]
      /\ UNCHANGED <<dirVars, victim, addressed, sent, heard>>
    BY DEF OfferLeg
<1>2. job[c] \in Jobs /\ TypeOK BY DEF Inv, TypeOK
<1>3. /\ OnlyMoves(c)
      /\ job'[c].at = "offer" /\ job'[c].keys = job[c].keys \ {k}
      /\ job'[c].kind = job[c].kind /\ job'[c].file = job[c].file
      /\ job'[c].removed = job[c].removed
    BY <1>1, <1>2 DEF TypeOK, OnlyMoves, Jobs
<1>4. PICK f \in Files : f = job[c].file /\ OwnerOf[f] = c /\ k[1] = f
    <2>1. /\ job[c].file \in Files /\ OwnerOf[job[c].file] = c
          /\ k[1] = job[c].file
        BY <1>1 DEF Inv, HandlersFit, HandlerFits, PacketSteps
    <2>2. QED BY <2>1
<1>5. /\ \A l \in LegKeys \ {k} : legs'[l] = legs[l]
      /\ legs'[k].rid = <<"offer", k[1]>>
      /\ byRequest' = byRequest
    BY <1>1, <1>2 DEF CreateOffer, TypeOK, RegistryTypeOK
<1>6. LegsComeFrom
    BY <1>1, <1>4, <1>5 DEF LegsComeFrom, Offering
<1>7. PacketFits(c)'
    BY <1>1, <1>3 DEF PacketFits, AckInv
<1>8. ASSUME StepOf(c), NEW g \in Files PROVE Indexed(g) => Indexed(g)'
    BY <1>5, <1>8, OfferedStays DEF Indexed
<1>9. QED
    BY <1>1, <1>3, <1>4, <1>6, <1>7, <1>8, WorkStep DEF AcksSettle

LEMMA AcceptLegKeepsAck ==
    ASSUME Inv, Inv', AckInv, NEW c \in Conns, AcceptLeg(c)
    PROVE  AckInv'
<1> USE KeyFacts
<1>1. PICK f \in Files : f = job[c].file
    BY DEF AcceptLeg, Inv, HandlersFit, HandlerFits, PacketSteps
<1>2. /\ job[c].at = "accept"
      /\ UNCHANGED <<dirVars, sent, heard>>
    BY DEF AcceptLeg
<1>3. CASE MarkAccepted(job[c].file, c) /\ Goto(c, "forward")
    <2>1. /\ OnlyMoves(c) /\ job'[c].at = "forward" /\ job'[c].kind = job[c].kind
          /\ job'[c].file = job[c].file /\ job'[c].removed = job[c].removed
        BY <1>3, GotoFacts DEF Inv, Steps
    <2>2. /\ <<f, c>> \in LegKeys /\ legs[<<f, c>>] \in Leg
          /\ legs' = [legs EXCEPT ![<<f, c>>] = [legs[<<f, c>>] EXCEPT !.accepted = TRUE]]
          /\ byRequest' = byRequest
        BY <1>1, <1>3 DEF MarkAccepted, Inv, TypeOK, RegistryTypeOK, LegKeys
    <2>3. LegsComeFrom
        BY <2>2 DEF LegsComeFrom, Leg, Inv, TypeOK, RegistryTypeOK
    <2>4. job[c].kind = "accept" BY <1>2 DEF AckInv, PacketFits
    <2>5. PacketFits(c)' BY <2>1, <2>4 DEF PacketFits
    <2>6. ASSUME StepOf(c), NEW g \in Files PROVE Indexed(g) => Indexed(g)'
        BY <2>2, <2>6, OfferedStays DEF Indexed
    <2>7. QED
        BY <1>1, <1>2, <2>1, <2>3, <2>4, <2>5, <2>6, WorkStep DEF AcksSettle
<1>4. CASE job' = [job EXCEPT ![c] = Job("idle")] /\ UNCHANGED registryVars
    BY <1>2, <1>4, IdleStep
<1>5. QED BY <1>3, <1>4 DEF AcceptLeg

\* Dropping legs creates none.
LEMMA DropComeFrom ==
    ASSUME NEW keys, DropLegs(keys)
    PROVE  LegsComeFrom /\ \A k \in LegKeys : k \in keys => legs'[k] = None
BY DEF DropLegs, LegsComeFrom

\* The ids a handler has read of the legs of a file are of this file.
LEMMA IdsFitFile ==
    ASSUME RidsFit, NEW f, NEW id \in RidsOf(LegsOf(f))
    PROVE  id[2] = f
BY DEF RidsFit, RidsOf, LegsOf

\* IdsFacts, and where the ids are.
LEMMA IdsHeld ==
    ASSUME TypeOK, NEW p \in Tasks, NEW at \in Steps, NEW ids \in SUBSET Rids,
           job' = [job EXCEPT ![p].at = at, ![p].ids = ids]
    PROVE  job'[p].ids = ids
<1>1. job[p] \in Jobs BY DEF TypeOK
<1>2. job' = [job EXCEPT ![p] = [job[p] EXCEPT !.at = at, !.ids = ids]]
    BY DEF TypeOK
<1>3. QED BY <1>1, <1>2 DEF TypeOK, Jobs

LEMMA DropFileKeepsAck ==
    ASSUME Inv, Inv', AckInv, NEW c \in Conns, DropFile(c)
    PROVE  AckInv'
<1> USE KeyFacts
<1>1. PICK f \in Files : f = job[c].file
    BY DEF DropFile, Inv, HandlersFit, HandlerFits, PacketSteps
<1>2. PICK ids : ids = RidsOf(LegsOf(f)) OBVIOUS
<1>3. /\ job[c].at = "drop" /\ DropLegs(LegsOf(f))
      /\ job' = [job EXCEPT ![c].at = "dropIds", ![c].ids = ids]
      /\ UNCHANGED <<dirVars, sent, heard>>
    BY <1>1, <1>2 DEF DropFile
<1>4. ids \in SUBSET Rids /\ \A id \in ids : id[2] = f
    BY <1>2, RidsFacts, IdsFitFile DEF AckInv, Inv, TypeOK
<1>5. /\ OnlyMoves(c) /\ job'[c].at = "dropIds" /\ job'[c].kind = job[c].kind
      /\ job'[c].file = job[c].file /\ job'[c].removed = job[c].removed
      /\ job'[c].ids = ids
    <2>1. /\ TypeOK /\ "dropIds" \in Steps
          /\ job' = [job EXCEPT ![c].at = "dropIds", ![c].ids = ids]
        BY <1>3 DEF Inv, Steps
    <2>2. QED BY <1>4, <2>1, IdsFacts, IdsHeld
<1>6. LegsComeFrom /\ byRequest' = byRequest
    BY <1>3, DropComeFrom DEF DropLegs
<1>7. LegsOf(f)' = {}
    BY <1>3, DropComeFrom DEF LegsOf, DropLegs
<1>8. job[c].kind \in {"reject", "abort"} /\ Offered(f)
    BY <1>1, <1>3 DEF AckInv, PacketFits
<1>9. ASSUME StepOf(c) PROVE PacketFits(c)'
    <2>1. Offered(f)' BY <1>8, <1>9, OfferedStays
    <2>2. Cleaned(f)' BY <1>7, <2>1 DEF Cleaned
    <2>3. QED BY <1>1, <1>4, <1>5, <1>8, <2>1, <2>2 DEF PacketFits
<1>10. ASSUME StepOf(c), NEW g \in Files PROVE Indexed(g) => Indexed(g)'
    BY <1>6, <1>10, OfferedStays DEF Indexed
<1>11. QED
    BY <1>1, <1>3, <1>5, <1>6, <1>9, <1>10, WorkStep DEF AcksSettle

LEMMA DropFileIdsKeepsAck ==
    ASSUME Inv, Inv', AckInv, NEW c \in Conns, DropFileIds(c)
    PROVE  AckInv'
<1> USE KeyFacts
<1>1. PICK f \in Files : f = job[c].file
    BY DEF DropFileIds, Inv, HandlersFit, HandlerFits, PacketSteps
<1>2. /\ job[c].at = "dropIds" /\ DropIds(job[c].ids)
      /\ UNCHANGED <<dirVars, sent, heard>>
    BY DEF DropFileIds
<1>3. /\ OnlyMoves(c) /\ job'[c].at = "forward" /\ job'[c].kind = job[c].kind
      /\ job'[c].file = job[c].file /\ job'[c].removed = job[c].removed
    BY GotoFacts DEF DropFileIds, Inv, Steps
<1>4. /\ job[c].kind \in {"reject", "abort"} /\ Cleaned(f)
      /\ \A id \in job[c].ids : id[2] = f
    BY <1>1, <1>2 DEF AckInv, PacketFits
<1>5. LegsComeFrom BY <1>2 DEF DropIds, LegsComeFrom
<1>6. PacketFits(c)' BY <1>3, <1>4 DEF PacketFits
<1>7. ASSUME StepOf(c), NEW g \in Files, Indexed(g)
      PROVE  Indexed(g)' \/ Settling(g)'
    <2>1. CASE g = f
        BY <1>4, <1>7, <2>1, CleanedStays DEF Settling
    <2>2. CASE g # f
        <3>1. <<"complete", g>> \in Rids /\ <<"complete", g>> \notin job[c].ids
            BY <1>4, <2>2 DEF Rids
        <3>2. byRequest'[<<"complete", g>>] = byRequest[<<"complete", g>>]
            BY <1>2, <3>1 DEF DropIds
        <3>3. QED BY <1>7, <3>2, OfferedStays DEF Indexed
    <2>3. QED BY <2>1, <2>2
<1>8. QED
    BY <1>1, <1>2, <1>3, <1>4, <1>5, <1>6, <1>7, WorkStep DEF AcksSettle

LEMMA CompleteFileKeepsAck ==
    ASSUME Inv, Inv', AckInv, NEW c \in Conns, CompleteFile(c)
    PROVE  AckInv'
<1> USE KeyFacts
<1>1. PICK f \in Files : f = job[c].file
    BY DEF CompleteFile, Inv, HandlersFit, HandlerFits, PacketSteps
<1>2. job[c].at = "complete" /\ UNCHANGED <<dirVars, sent, heard>>
    BY DEF CompleteFile
<1>3. CASE /\ RenameLegs(f, <<"complete", f>>)
           /\ job' = [job EXCEPT ![c].at = "completeIds",
                                 ![c].ids = RidsOf(LegsOf(f))]
    <2>1. PICK ids : ids = RidsOf(LegsOf(f)) OBVIOUS
    <2>2. ids \in SUBSET Rids /\ \A id \in ids : id[2] = f
        BY <2>1, RidsFacts, IdsFitFile DEF AckInv, Inv, TypeOK
    <2>3. /\ OnlyMoves(c) /\ job'[c].at = "completeIds" /\ job'[c].kind = job[c].kind
          /\ job'[c].file = job[c].file /\ job'[c].removed = job[c].removed
          /\ job'[c].ids = ids
        <3>1. /\ TypeOK /\ "completeIds" \in Steps
              /\ job' = [job EXCEPT ![c].at = "completeIds", ![c].ids = ids]
            BY <1>3, <2>1 DEF Inv, Steps
        <3>2. QED BY <2>2, <3>1, IdsFacts, IdsHeld
    <2>4. LegsComeFrom
        BY <1>3 DEF RenameLegs, LegsComeFrom, LegsOf, Inv, TypeOK, RegistryTypeOK, Leg
    <2>5. job[c].kind = "complete" /\ Offered(f)
        BY <1>1, <1>2 DEF AckInv, PacketFits
    <2>6. ASSUME StepOf(c) PROVE PacketFits(c)'
        <3>1. Offered(f)' BY <2>5, <2>6, OfferedStays
        <3>2. QED BY <1>1, <2>2, <2>3, <2>5, <3>1 DEF PacketFits
    <2>7. byRequest' = byRequest BY <1>3 DEF RenameLegs
    <2>8. ASSUME StepOf(c), NEW g \in Files PROVE Indexed(g) => Indexed(g)'
        BY <2>7, <2>8, OfferedStays DEF Indexed
    <2>9. QED
        BY <1>1, <1>2, <2>3, <2>4, <2>6, <2>8, WorkStep DEF AcksSettle
<1>4. CASE job' = [job EXCEPT ![c] = Job("idle")] /\ UNCHANGED registryVars
    BY <1>2, <1>4, IdleStep
<1>5. QED BY <1>1, <1>3, <1>4 DEF CompleteFile

LEMMA CompleteFileIdsKeepsAck ==
    ASSUME Inv, Inv', AckInv, NEW c \in Conns, CompleteFileIds(c)
    PROVE  AckInv'
<1> USE KeyFacts
<1>1. PICK f \in Files : f = job[c].file
    BY DEF CompleteFileIds, Inv, HandlersFit, HandlerFits, PacketSteps
<1>2. /\ job[c].at = "completeIds"
      /\ IndexComplete(f, <<"complete", f>>, job[c].ids)
      /\ UNCHANGED <<dirVars, sent, heard>>
    BY <1>1 DEF CompleteFileIds
<1>3. /\ OnlyMoves(c) /\ job'[c].at = "forward" /\ job'[c].kind = job[c].kind
      /\ job'[c].file = job[c].file /\ job'[c].removed = job[c].removed
    BY GotoFacts DEF CompleteFileIds, Inv, Steps
<1>4. /\ job[c].kind = "complete" /\ Offered(f)
      /\ \A id \in job[c].ids : id[2] = f
    BY <1>1, <1>2 DEF AckInv, PacketFits
<1>5. LegsComeFrom BY <1>2 DEF IndexComplete, LegsComeFrom
<1>6. PacketFits(c)' BY <1>3, <1>4 DEF PacketFits
<1>7. ASSUME NEW g \in Files
      PROVE  byRequest'[<<"complete", g>>] =
                IF g = f THEN f ELSE byRequest[<<"complete", g>>]
    <2>1. <<"complete", g>> \in Rids BY DEF Rids
    <2>2. g # f => <<"complete", g>> \notin job[c].ids BY <1>4
    <2>3. QED BY <1>2, <2>1, <2>2 DEF IndexComplete
<1>8. ASSUME StepOf(c), NEW g \in Files, Offered(g),
             g = f \/ byRequest[<<"complete", g>>] # None
      PROVE  Indexed(g)'
    <2>1. f # None BY FileRelayAssumption
    <2>2. byRequest'[<<"complete", g>>] # None BY <1>7, <1>8, <2>1
    <2>3. Offered(g)' BY <1>8, OfferedStays
    <2>4. QED BY <2>2, <2>3 DEF Indexed
<1>9. ASSUME StepOf(c), NEW g \in Files PROVE Indexed(g) => Indexed(g)'
    BY <1>8, <1>9 DEF Indexed
<1>10. StepOf(c) => Indexed(f)' BY <1>4, <1>8
<1>11. QED
    BY <1>1, <1>2, <1>3, <1>4, <1>5, <1>6, <1>9, <1>10, WorkStep DEF AcksSettle

LEMMA AckFileKeepsAck ==
    ASSUME Inv, Inv', AckInv, NEW c \in Conns, AckFile(c)
    PROVE  AckInv'
<1> USE KeyFacts
<1>1. PICK f \in Files : f = job[c].file
    BY DEF AckFile, Inv, HandlersFit, HandlerFits, PacketSteps
<1>2. /\ job[c].at = "ack" /\ UNCHANGED <<dirVars, sent, heard>>
    BY DEF AckFile
<1>3. job[c].kind = "ack" /\ HeardOf("complete", f)
    BY <1>1, <1>2 DEF AckInv, PacketFits
<1>4. Indexed(f) \/ Settling(f)
    BY <1>3 DEF AckInv, CompletesFit
<1>5. Offered(f) BY <1>4 DEF Indexed, Settling, Cleaned
<1>6. LegsComeFrom
    BY DEF AckFile, DropIds, LegsComeFrom, registryVars
<1>7. CASE byRequest[<<"complete", f>>] = None
    <2>1. Goto(c, "forward") /\ UNCHANGED registryVars
        BY <1>1, <1>7 DEF AckFile
    <2>2. /\ OnlyMoves(c) /\ job'[c].at = "forward" /\ job'[c].kind = job[c].kind
          /\ job'[c].file = job[c].file /\ job'[c].removed = job[c].removed
        BY <2>1, GotoFacts DEF Inv, Steps
    <2>3. PacketFits(c)' BY <1>3, <2>2 DEF PacketFits
    <2>4. Settling(f) BY <1>4, <1>7 DEF Indexed
    <2>5. StepOf(c) => Settling(f)' BY <2>4, SettlingStays
    <2>6. ASSUME StepOf(c), NEW g \in Files PROVE Indexed(g) => Indexed(g)'
        BY <2>1, <2>6, OfferedStays DEF Indexed, registryVars
    <2>7. QED
        BY <1>1, <1>2, <1>3, <1>6, <2>2, <2>3, <2>5, <2>6, WorkStep DEF AcksSettle
<1>8. CASE byRequest[<<"complete", f>>] # None
    <2>1. DropIds({<<"complete", f>>}) /\ Goto(c, "ackLegs")
        BY <1>1, <1>8 DEF AckFile, Goto
    <2>2. /\ OnlyMoves(c) /\ job'[c].at = "ackLegs" /\ job'[c].kind = job[c].kind
          /\ job'[c].file = job[c].file /\ job'[c].removed = job[c].removed
        BY <2>1, GotoFacts DEF Inv, Steps
    <2>3. ASSUME StepOf(c) PROVE PacketFits(c)'
        <3>1. HeardOf("complete", f)' BY <1>3, <2>3, HeardStays
        <3>2. QED BY <1>1, <1>3, <2>2, <3>1 DEF PacketFits
    <2>4. ASSUME StepOf(c) PROVE Settling(f)'
        <3>1. Offered(f)' BY <1>5, <2>4, OfferedStays
        <3>2. job'[c].at = "ackLegs" /\ job'[c].file = f BY <1>1, <2>2
        <3>3. QED BY <3>1, <3>2 DEF Settling
    <2>5. ASSUME StepOf(c), NEW g \in Files, g # f PROVE Indexed(g) => Indexed(g)'
        <3>1. <<"complete", g>> \in Rids BY DEF Rids
        <3>2. byRequest'[<<"complete", g>>] = byRequest[<<"complete", g>>]
            BY <2>1, <2>5, <3>1 DEF DropIds
        <3>3. QED BY <2>5, <3>2, OfferedStays DEF Indexed
    <2>6. QED
        BY <1>1, <1>2, <1>6, <2>2, <2>3, <2>4, <2>5, WorkStep DEF AcksSettle
<1>9. QED BY <1>7, <1>8

LEMMA AckFileLegsKeepsAck ==
    ASSUME Inv, Inv', AckInv, NEW c \in Conns, AckFileLegs(c)
    PROVE  AckInv'
<1> USE KeyFacts
<1>1. PICK f \in Files : f = job[c].file
    BY DEF AckFileLegs, Inv, HandlersFit, HandlerFits, PacketSteps
<1>2. /\ job[c].at = "ackLegs" /\ DropLegs(LegsOf(f))
      /\ UNCHANGED <<dirVars, sent, heard>>
    BY <1>1 DEF AckFileLegs
<1>3. /\ OnlyMoves(c) /\ job'[c].at = "forward" /\ job'[c].kind = job[c].kind
      /\ job'[c].file = job[c].file /\ job'[c].removed = job[c].removed
    BY GotoFacts DEF AckFileLegs, Inv, Steps
<1>4. job[c].kind = "ack" /\ HeardOf("complete", f)
    BY <1>1, <1>2 DEF AckInv, PacketFits
<1>5. Offered(f)
    BY <1>4 DEF AckInv, CompletesFit, Indexed, Settling, Cleaned
<1>6. LegsComeFrom /\ byRequest' = byRequest
    BY <1>2, DropComeFrom DEF DropLegs
<1>7. \A k \in LegKeys : k[1] = f => legs'[k] = None
    BY <1>2 DEF DropLegs, LegsOf
<1>8. PacketFits(c)' BY <1>3, <1>4 DEF PacketFits
<1>9. ASSUME StepOf(c) PROVE Settling(f)'
    <2>1. Offered(f)' BY <1>5, <1>9, OfferedStays
    <2>2. QED BY <1>7, <2>1 DEF Settling, Cleaned, LegsOf
<1>10. ASSUME StepOf(c), NEW g \in Files PROVE Indexed(g) => Indexed(g)'
    BY <1>6, <1>10, OfferedStays DEF Indexed
<1>11. AcksSettle(c) BY <1>1, <1>7 DEF AcksSettle
<1>12. QED
    BY <1>1, <1>2, <1>3, <1>4, <1>6, <1>8, <1>9, <1>10, <1>11, WorkStep

\* The packet is put into the channels: what was prepared is now heard of.
LEMMA ForwardKeepsAck ==
    ASSUME Inv, Inv', AckInv, NEW c \in Conns, Forward(c)
    PROVE  AckInv'
<1> USE KeyFacts
<1>1. PICK f \in Files : f = job[c].file
    BY DEF Forward, Inv, HandlersFit, HandlerFits, PacketSteps
<1>2. PICK kind \in Kinds \ {"chunk"} : kind = job[c].kind
    BY DEF Forward, Inv, HandlersFit, HandlerFits, PacketSteps
<1>3. /\ job[c].at \in {"offer", "forward"}
      /\ Deliver(job[c].to, kind, f)
      /\ job' = [job EXCEPT ![c] = Job("idle")]
      /\ UNCHANGED <<dirVars, registryVars, sent>>
    BY <1>1, <1>2 DEF Forward
<1>4. OnlyMoves(c) /\ job'[c].at = "idle" /\ job'[c].removed = {}
    BY <1>3, RestFacts DEF Inv, Steps
<1>5. StepOf(c)
    <2>1. SentGrows /\ LegsComeFrom
        BY <1>3 DEF SentGrows, LegsComeFrom, registryVars
    <2>2. HeardGrows BY <1>3 DEF Deliver, HeardGrows
    <2>3. OffersOnce(c) /\ RecordsComeFrom(c) /\ AcksSettle(c)
        BY <1>3, <1>4 DEF OffersOnce, RecordsComeFrom, AcksSettle
    <2>4. QED BY <1>4, <2>1, <2>2, <2>3 DEF StepOf
<1>6. OneHolder' BY <1>3 DEF AckInv, OneHolder, dirVars
<1>7. PacketFits(c)' BY <1>4 DEF PacketFits
<1>8. ASSUME NEW g \in Files PROVE Indexed(g) => Indexed(g)'
    BY <1>3, <1>5, <1>8, OfferedStays DEF Indexed, registryVars
<1>9. ASSUME NEW g \in Files, NEW k, HeardOf(k, g)'
      PROVE  HeardOf(k, g) \/ (k = kind /\ g = f)
    BY <1>3, <1>9 DEF HeardOf, Deliver
<1>10. ASSUME NEW g \in Files, NEW k, Forwarding(k, g)' PROVE Forwarding(k, g)
    BY <1>4, <1>10 DEF Forwarding, OnlyMoves
<1>11. ASSUME kind = "offer" PROVE Offered(f)'
    <2>1. job[c].at = "offer"
        BY <1>2, <1>3, <1>11 DEF AckInv, PacketFits
    <2>2. OwnerOf[f] = c /\ <<"offer", f>> \in sent[c]
        BY <1>1, <2>1 DEF Inv, HandlersFit, HandlerFits
    <2>3. QED BY <1>3, <1>4, <2>2 DEF Offered, Offering
<1>12. ASSUME kind # "offer" PROVE Forwarding(kind, f)
    <2>1. job[c].at = "forward"
        BY <1>2, <1>3, <1>12 DEF AckInv, PacketFits
    <2>2. QED BY <1>1, <1>2, <2>1 DEF Forwarding
<1>13. \A g \in Files :
          /\ HeardOf("offer", g)' => HeardOf("offer", g) \/ Offered(g)'
          /\ Passed("complete", g)' => Passed("complete", g)
          /\ Passed("ack", g)' => Passed("ack", g)
    BY <1>9, <1>10, <1>11, <1>12 DEF Passed
<1>14. QED
    BY <1>3, <1>5, <1>6, <1>7, <1>8, <1>13, AckStep

LEMMA HandlerKeepsAck ==
    ASSUME Inv, Inv', AckInv, NEW c \in Conns, Handler(c)
    PROVE  AckInv'
<1> USE KeyFacts
<1> TypeOK /\ OneHolder BY DEF Inv, AckInv
<1>1. CASE EndInit(c)
    <2>1. /\ OnlyMoves(c) /\ job'[c].at = "idle" /\ job'[c].removed = job[c].removed
        BY <1>1, GotoFacts DEF EndInit, Steps
    <2>2. OneHolder' BY <1>1, OneHolderStays DEF EndInit, TypeOK
    <2>3. UNCHANGED <<legs, byRequest, sent, heard>> /\ job[c].at = "registering"
        BY <1>1 DEF EndInit, registryVars
    <2>4. QED BY <2>1, <2>2, <2>3, RestStep DEF HeardGrows, PacketSteps
<1>2. CASE OfferTooLarge(c)
    BY <1>2, IdleStep DEF OfferTooLarge
<1>3. ASSUME NEW k \in LegKeys, OfferLeg(c, k) PROVE AckInv'
    BY <1>3, OfferLegKeepsAck
<1>4. CASE \E r \in Conns : RelayChunk(c, r)
    <2>1. PICK r \in Conns : RelayChunk(c, r) BY <1>4
    <2>2. /\ job[c].at = "chunk"
          /\ Deliver({r}, "chunk", job[c].file) \/ heard' = heard
          /\ UNCHANGED <<dirVars, registryVars, sent>>
        BY <2>1 DEF RelayChunk
    <2>3. /\ HeardGrows
          /\ \A d \in Conns, f \in Files, kind \in {"offer", "complete", "ack"} :
                <<kind, f>> \in heard'[d] => <<kind, f>> \in heard[d]
        <3>1. CASE Deliver({r}, "chunk", job[c].file)
            BY <3>1 DEF Deliver, HeardGrows
        <3>2. CASE heard' = heard BY <3>2 DEF HeardGrows
        <3>3. QED BY <2>2, <3>1, <3>2
    <2>4. OneHolder' /\ UNCHANGED <<legs, byRequest, sent>>
        BY <2>2 DEF OneHolder, dirVars, registryVars
    <2>5. /\ OnlyMoves(c) /\ job'[c].at \in {"idle", "chunk"}
          /\ job'[c].removed \subseteq job[c].removed
        <3>1. CASE job' = [job EXCEPT ![c] = Job("idle")]
            BY <3>1, RestFacts DEF Steps
        <3>2. CASE job' = [job EXCEPT ![c].to = job[c].to \ {r}]
            <4>1. job[c] \in Jobs BY DEF TypeOK
            <4>2. job' = [job EXCEPT ![c] = [job[c] EXCEPT !.to = job[c].to \ {r}]]
                BY <3>2 DEF TypeOK
            <4>3. QED BY <2>2, <4>1, <4>2 DEF TypeOK, OnlyMoves, Jobs
        <3>3. QED BY <2>1, <3>1, <3>2 DEF RelayChunk
    <2>6. QED BY <2>2, <2>3, <2>4, <2>5, RestStep DEF PacketSteps
<1>5. CASE BeginLeave(c)
    <2>1. /\ job[c].at = "leaving"
          /\ Retire(c) \/ UNCHANGED dirVars
          /\ Goto(c, "releasing") \/ Goto(c, "scan")
          /\ UNCHANGED <<legs, byRequest, sent, heard>>
        BY <1>5 DEF BeginLeave, registryVars
    <2>2. /\ OnlyMoves(c) /\ job'[c].at \in {"releasing", "scan"}
          /\ job'[c].removed = job[c].removed
        BY <2>1, GotoFacts DEF Steps
    <2>3. OneHolder' BY <2>1, OneHolderStays DEF TypeOK
    <2>4. QED BY <2>1, <2>2, <2>3, RestStep DEF HeardGrows, PacketSteps
<1>6. QED
    BY <1>1, <1>2, <1>3, <1>4, <1>5, AcceptLegKeepsAck, DropFileKeepsAck,
       DropFileIdsKeepsAck, CompleteFileKeepsAck, CompleteFileIdsKeepsAck,
       AckFileKeepsAck, AckFileLegsKeepsAck, ForwardKeepsAck DEF Handler

-----------------------------------------------------------------------------
(* The sweeper and the cleanup                                             *)

LEMMA BeginSweepKeepsAck ==
    ASSUME Inv, Inv', AckInv, NEW c \in Conns, BeginSweep(c)
    PROVE  AckInv'
<1> USE KeyFacts
<1>1. /\ OnlyMoves(Sweeper) /\ job'[Sweeper].at = "releasing"
      /\ job'[Sweeper].removed = job[Sweeper].removed
    BY GotoFacts DEF BeginSweep, Inv, Steps
<1>2. OneHolder' BY OneHolderStays DEF BeginSweep, AckInv, Inv, TypeOK
<1>3. UNCHANGED <<legs, byRequest, sent, heard>> /\ job[Sweeper].at = "idle"
    BY DEF BeginSweep, registryVars
<1>4. QED BY <1>1, <1>2, <1>3, RestStep DEF HeardGrows, PacketSteps

\* Whoever removes legs on behalf of a session keeps their records.
LEMMA RemoveLegsKeepsAck ==
    ASSUME Inv, Inv', AckInv, NEW p \in Tasks, RemoveLegs(p)
    PROVE  AckInv'
<1> USE KeyFacts
<1>1. PICK present \in SUBSET LegKeys :
          present = {k \in job[p].keys : legs[k] # None}
    BY DEF Inv, TypeOK, Jobs
<1>2. /\ job[p].at = "removeLegs" /\ DropLegs(present)
      /\ job' = [job EXCEPT ![p].at = "removeIds", ![p].keys = {},
                            ![p].removed = RecordsOf(present)]
      /\ UNCHANGED <<dirVars, sent, heard>>
    BY <1>1 DEF RemoveLegs
<1>3. /\ OnlyMoves(p) /\ job'[p].at = "removeIds"
      /\ job'[p].removed = RecordsOf(present)
    <2>1. job[p] \in Jobs BY DEF Inv, TypeOK
    <2>2. job' = [job EXCEPT ![p] = [job[p] EXCEPT !.at = "removeIds", !.keys = {},
                                                   !.removed = RecordsOf(present)]]
        BY <1>2 DEF Inv, TypeOK
    <2>3. QED BY <2>1, <2>2 DEF Inv, TypeOK, OnlyMoves, Jobs
<1>4. RecordsComeFrom(p)
    <2> SUFFICES ASSUME NEW r \in RecordsOf(present)
                 PROVE  legs[KeyOf(r)] # None /\ r.rid = legs[KeyOf(r)].rid
        BY <1>3 DEF RecordsComeFrom
    <2>1. PICK k \in present :
              r = [file |-> k[1], rid |-> legs[k].rid,
                   sender |-> legs[k].sender, receiver |-> k[2]]
        BY DEF RecordsOf
    <2>2. KeyOf(r) = k /\ r.rid = legs[k].rid BY <1>1, <2>1 DEF KeyOf
    <2>3. legs[k] # None BY <1>1
    <2>4. QED BY <2>2, <2>3
<1>5. LegsComeFrom /\ byRequest' = byRequest
    BY <1>2, DropComeFrom DEF DropLegs
<1>6. StepOf(p)
    BY <1>2, <1>3, <1>4, <1>5 DEF StepOf, SentGrows, HeardGrows, OffersOnce, AcksSettle
<1>7. OneHolder' BY <1>2 DEF AckInv, OneHolder, dirVars
<1>8. p \in Conns => PacketFits(p)' BY <1>3 DEF PacketFits
<1>9. ASSUME NEW g \in Files PROVE Indexed(g) => Indexed(g)'
    BY <1>5, <1>6, <1>9, OfferedStays DEF Indexed
<1>10. ASSUME NEW g \in Files, NEW kind
       PROVE  /\ HeardOf(kind, g)' => HeardOf(kind, g)
              /\ Passed(kind, g)' => Passed(kind, g)
    BY <1>2, <1>3 DEF HeardOf, Forwarding, Passed, OnlyMoves
<1>11. QED BY <1>2, <1>6, <1>7, <1>8, <1>9, <1>10, AckStep

\* An id that goes with the record of a leg led to a file that has no other.
LEMMA RemoveIdsKeepsAck ==
    ASSUME Inv, Inv', AckInv, NEW p \in Tasks, RemoveIds(p)
    PROVE  AckInv'
<1> USE KeyFacts
<1>1. /\ job[p].at = "removeIds"
      /\ DropIds({r.rid : r \in job[p].removed})
      /\ UNCHANGED <<dirVars, sent, heard>>
    BY DEF RemoveIds
<1>2. /\ OnlyMoves(p) /\ job'[p].at = "report" /\ job'[p].removed = job[p].removed
    BY GotoFacts DEF RemoveIds, Inv, Steps
<1>3. StepOf(p)
    BY <1>1, <1>2 DEF StepOf, SentGrows, HeardGrows, OffersOnce, RecordsComeFrom,
                      AcksSettle, LegsComeFrom, DropIds
<1>4. OneHolder' BY <1>1 DEF AckInv, OneHolder, dirVars
<1>5. p \in Conns => PacketFits(p)' BY <1>2 DEF PacketFits
<1>6. ASSUME NEW g \in Files, Indexed(g) PROVE Indexed(g)' \/ Settling(g)'
    <2>1. <<"complete", g>> \in Rids BY DEF Rids
    <2>2. CASE \E r \in job[p].removed : r.rid = <<"complete", g>>
        <3>1. PICK r \in job[p].removed : r.rid = <<"complete", g>> BY <2>2
        <3>2. r \in TransferRecord BY DEF Inv, TypeOK, Jobs
        <3>3. r.file = g BY <3>1 DEF AckInv, RidsFit
        <3>4. KeyOf(r) \in LegKeys /\ KeyOf(r)[1] = g /\ legs[KeyOf(r)] = None
            BY <3>2, <3>3 DEF KeyOf, Inv, RemovedOnce
        <3>5. Known(KeyOf(r)) BY DEF Known
        <3>6. ASSUME NEW k \in LegKeys, k[1] = g, legs[k] # None PROVE FALSE
            <4>1. Known(k) BY <3>6 DEF Known
            <4>2. k = KeyOf(r) BY <3>4, <3>5, <3>6, <4>1 DEF AckInv, OneLeg
            <4>3. QED BY <3>4, <3>6, <4>2
        <3>7. Cleaned(g) BY <1>6, <3>6 DEF Cleaned, LegsOf, Indexed
        <3>8. QED BY <1>3, <3>7, CleanedStays DEF Settling
    <2>3. CASE ~\E r \in job[p].removed : r.rid = <<"complete", g>>
        <3>1. byRequest'[<<"complete", g>>] = byRequest[<<"complete", g>>]
            BY <1>1, <2>1, <2>3 DEF DropIds
        <3>2. QED BY <1>3, <1>6, <3>1, OfferedStays DEF Indexed
    <2>4. QED BY <2>2, <2>3
<1>7. ASSUME NEW g \in Files, NEW kind
      PROVE  /\ HeardOf(kind, g)' => HeardOf(kind, g)
             /\ Passed(kind, g)' => Passed(kind, g)
    BY <1>1, <1>2 DEF HeardOf, Forwarding, Passed, OnlyMoves
<1>8. QED BY <1>1, <1>3, <1>4, <1>5, <1>6, <1>7, AckStep

LEMMA CleanupKeepsAck ==
    ASSUME Inv, Inv', AckInv, NEW p \in Tasks, Cleanup(p)
    PROVE  AckInv'
<1> USE KeyFacts
<1> job[p] \in Jobs /\ TypeOK /\ OneHolder BY DEF Inv, TypeOK, AckInv
<1>1. CASE EndRemoval(p)
    <2>1. /\ OnlyMoves(p) /\ job'[p].at = "scan" /\ job'[p].removed = job[p].removed
        BY <1>1, GotoFacts DEF EndRemoval, Steps
    <2>2. OneHolder' BY <1>1, OneHolderStays DEF EndRemoval, TypeOK
    <2>3. UNCHANGED <<legs, byRequest, sent, heard>> /\ job[p].at = "releasing"
        BY <1>1 DEF EndRemoval, registryVars
    <2>4. QED BY <2>1, <2>2, <2>3, RestStep DEF HeardGrows, PacketSteps
<1>2. CASE ScanLegs(p)
    <2>1. PICK keys : keys = LegsTouching(Subject(p)) OBVIOUS
    <2>2. /\ job[p].at = "scan"
          /\ job' = [job EXCEPT ![p] = [job[p] EXCEPT !.at = "removeLegs",
                                                      !.keys = keys]]
          /\ UNCHANGED <<dirVars, legs, byRequest, sent, heard>>
        BY <1>2, <2>1 DEF ScanLegs, TypeOK, registryVars
    <2>3. /\ OnlyMoves(p) /\ job'[p].at = "removeLegs"
          /\ job'[p].removed = job[p].removed
        BY <2>2 DEF TypeOK, OnlyMoves, Jobs
    <2>4. OneHolder' BY <2>2 DEF OneHolder, dirVars
    <2>5. QED BY <2>2, <2>3, <2>4, RestStep DEF HeardGrows, PacketSteps
<1>3. CASE RemoveLegs(p) BY <1>3, RemoveLegsKeepsAck
<1>4. CASE RemoveIds(p) BY <1>4, RemoveIdsKeepsAck
<1>5. ASSUME NEW r \in job[p].removed, Report(p, r) PROVE AckInv'
    <2>1. PICK peer : Deliver({peer}, "abort", r.file) \/ heard' = heard
        BY <1>5 DEF Report
    <2>2. /\ job[p].at = "report"
          /\ job' = [job EXCEPT ![p] = [job[p] EXCEPT !.removed = job[p].removed \ {r}]]
          /\ UNCHANGED <<dirVars, legs, byRequest, sent>>
        BY <1>5 DEF Report, TypeOK, registryVars
    <2>3. /\ OnlyMoves(p) /\ job'[p].at = "report"
          /\ job'[p].removed \subseteq job[p].removed
        BY <2>2 DEF TypeOK, OnlyMoves, Jobs
    <2>4. /\ HeardGrows
          /\ \A c \in Conns, f \in Files, kind \in {"offer", "complete", "ack"} :
                <<kind, f>> \in heard'[c] => <<kind, f>> \in heard[c]
        <3>1. CASE Deliver({peer}, "abort", r.file)
            BY <3>1 DEF Deliver, HeardGrows
        <3>2. CASE heard' = heard BY <3>2 DEF HeardGrows
        <3>3. QED BY <2>1, <3>1, <3>2
    <2>5. OneHolder' BY <2>2 DEF OneHolder, dirVars
    <2>6. QED BY <2>2, <2>3, <2>4, <2>5, RestStep DEF PacketSteps
<1>6. CASE EndCleanup(p)
    <2>1. PICK at \in {"idle", "finished"} : job' = [job EXCEPT ![p] = Job(at)]
        BY <1>6 DEF EndCleanup
    <2>2. OnlyMoves(p) /\ job'[p].at = at /\ job'[p].removed = {}
        BY <2>1, RestFacts DEF Steps
    <2>3. /\ job[p].at = "report"
          /\ OneHolder' /\ UNCHANGED <<legs, byRequest, sent, heard>>
        BY <1>6 DEF EndCleanup, OneHolder, dirVars, registryVars
    <2>4. QED BY <2>2, <2>3, RestStep DEF HeardGrows, PacketSteps
<1>7. QED BY <1>1, <1>2, <1>3, <1>4, <1>5, <1>6 DEF Cleanup

-----------------------------------------------------------------------------
(* The invariant is inductive, and the theorem                             *)

LEMMA AckInit == Init => AckInv
<1> SUFFICES ASSUME Init PROVE AckInv
    OBVIOUS
<1> USE KeyFacts
<1>1. \A p \in Tasks : job[p].at \in {"new", "idle"} /\ job[p].removed = {}
    BY DEF Init, Job
<1>2. \A k \in LegKeys : legs[k] = None
    BY DEF Init, RegistryInit
<1>3. \A c \in Conns : slot[c] = NoSlot /\ sent[c] = {} /\ heard[c] = {}
    BY DEF Init, DirInit
<1>4. OneHolder /\ RidsFit BY <1>1, <1>2, <1>3 DEF OneHolder, RidsFit
<1>5. OneLeg BY <1>1, <1>2 DEF OneLeg, Known, Offering
<1>6. \A kind, f : ~HeardOf(kind, f) /\ ~Forwarding(kind, f)
    BY <1>1, <1>3 DEF HeardOf, Forwarding
<1>7. OffersFit /\ CompletesFit /\ AcksFit
    BY <1>3, <1>6 DEF OffersFit, CompletesFit, AcksFit
<1>8. \A c \in Conns : PacketFits(c) BY <1>1 DEF PacketFits
<1>9. QED BY <1>4, <1>5, <1>7, <1>8 DEF AckInv

LEMMA AckNext ==
    ASSUME Unicast, Inv, Inv', AckInv, [Next]_vars
    PROVE  AckInv'
<1>1. CASE Next
    BY <1>1, ClientKeepsAck, HandlerKeepsAck, BeginSweepKeepsAck, CleanupKeepsAck
       DEF Next
<1>2. CASE UNCHANGED vars
    <2>1. UNCHANGED <<dirVars, legs, byRequest, job, sent, heard>>
        BY <1>2 DEF vars, registryVars, relayVars
    <2>2. \A f : (Offering(f)' <=> Offering(f)) /\ (Offered(f)' <=> Offered(f))
        BY <2>1 DEF Offering, Offered
    <2>3. \A f : LegsOf(f)' = LegsOf(f) BY <2>1 DEF LegsOf
    <2>4. \A f : (Cleaned(f)' <=> Cleaned(f)) /\ (Settling(f)' <=> Settling(f))
        BY <2>1, <2>2, <2>3 DEF Cleaned, Settling
    <2>5. \A k : Known(k)' <=> Known(k) BY <2>1, <2>2 DEF Known, KeyOf
    <2>6. \A kind, f : /\ HeardOf(kind, f)' <=> HeardOf(kind, f)
                       /\ Forwarding(kind, f)' <=> Forwarding(kind, f)
        BY <2>1 DEF HeardOf, Forwarding
    <2>7. OneHolder' BY <2>1 DEF AckInv, OneHolder, dirVars
    <2>8. OneLeg' BY <2>5 DEF AckInv, OneLeg
    <2>9. RidsFit' BY <2>1 DEF AckInv, RidsFit
    <2>10. OffersFit' BY <2>1, <2>2, <2>6 DEF AckInv, OffersFit
    <2>11. \A c \in Conns : PacketFits(c)'
        BY <2>1, <2>2, <2>4, <2>6 DEF AckInv, PacketFits
    <2>12. CompletesFit' /\ AcksFit'
        BY <2>1, <2>2, <2>4, <2>6 DEF AckInv, CompletesFit, AcksFit, Indexed
    <2>13. QED BY <2>7, <2>8, <2>9, <2>10, <2>11, <2>12 DEF AckInv
<1>3. QED BY <1>1, <1>2

\* Once the ack of a file sent to one client has reached its sender and every task
\* is at rest, the server keeps no leg of the file: whatever sessions end, are
\* swept or aborted on the way, the id of file_complete leads to the legs until
\* whoever removes it has removed them.
THEOREM AckCleansUnicast ==
    ASSUME Unicast
    PROVE  Spec => []AckCleansTransfer
<1>1. AckInv => AckCleansTransfer
    <2> SUFFICES ASSUME AckInv, Quiet, NEW f \in Files,
                        <<"ack", f>> \in heard[OwnerOf[f]]
                 PROVE  LegsOf(f) = {}
        BY DEF AckCleansTransfer
    <2>1. HeardOf("ack", f) BY FileRelayAssumption DEF HeardOf
    <2>2. Settling(f) BY <2>1 DEF AckInv, AcksFit
    <2>3. \A c \in Conns : job[c].at # "ackLegs" BY KeyFacts DEF Quiet
    <2>4. QED BY <2>2, <2>3 DEF Settling, Cleaned
<1>2. Inv /\ Inv' /\ AckInv /\ [Next]_vars => AckInv'
    BY AckNext
<1>3. QED BY <1>1, <1>2, AckInit, InvAlways, PTL DEF Spec

=============================================================================
