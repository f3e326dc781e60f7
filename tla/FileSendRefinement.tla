-------------------------- MODULE FileSendRefinement --------------------------
(***************************************************************************)
(* FileSend implements TransferPromise: for any number of receivers and    *)
(* chunks, and whoever sends the file, the users of a transfer see nothing *)
(* but the steps they were promised.                                       *)
(*                                                                         *)
(* Three arguments are new.  What a store holds follows the one offer: its   *)
(* entry begins with it, and its end is its last step.  And a refusal is   *)
(* true: from the moment one is on its way to the sender, the receiver is  *)
(* Settled, its file gone and no offer left that could bring it back.  And *)
(* an unsent file is not sent: as long as the command holds back, before   *)
(* an accept or after an error in its place, no chunk is on any wire.      *)
(***************************************************************************)
EXTENDS FileOrderProofs

-----------------------------------------------------------------------------
(* The kinds on the wires                                                  *)

UpHas(c, kind) == \E i \in 1 .. Len(uplink[c]) : uplink[c][i].kind = kind
InHas(c, kind) == \E i \in 1 .. Len(packets[c]) : packets[c][i] = kind

\* Queues that get nothing new, and one that gets something.
UpFalls == \A c \in Clients : \A kind : UpHas(c, kind)' => UpHas(c, kind)
InFalls == \A c \in Clients : \A kind : InHas(c, kind)' => InHas(c, kind)

UpGains(c, new) ==
    \A d \in Clients : \A kind :
        UpHas(d, kind)' => UpHas(d, kind) \/ (d = c /\ kind = new)

InGains(conns, new) ==
    \A d \in Clients : \A kind :
        InHas(d, kind)' => InHas(d, kind) \/ (d \in conns /\ kind = new)

LEMMA SameKinds ==
    /\ UNCHANGED uplink => UpFalls
    /\ UNCHANGED packets => InFalls
BY DEF UpFalls, InFalls, UpHas, InHas

LEMMA SendGains ==
    ASSUME WireTypes, NEW c \in Clients, NEW f \in Frame, Send(c, f)
    PROVE  /\ UpGains(c, f.kind)
           /\ uplink'[c] = Append(uplink[c], f)
           /\ \A d \in Clients \ {c} : uplink'[d] = uplink[d]
<1>1. /\ uplink'[c] = Append(uplink[c], f)
      /\ \A d \in Clients \ {c} : uplink'[d] = uplink[d]
      /\ uplink[c] \in Seq(Frame)
    BY SendTypes DEF WireTypes
<1>2. ASSUME NEW kind, UpHas(c, kind)' PROVE UpHas(c, kind) \/ kind = f.kind
    <2>1. PICK i \in 1 .. Len(uplink'[c]) : uplink'[c][i].kind = kind
        BY <1>2 DEF UpHas
    <2>2. /\ Len(uplink[c]) \in Nat
          /\ Len(uplink'[c]) = Len(uplink[c]) + 1
          /\ \A j \in 1 .. Len(uplink[c]) : uplink'[c][j] = uplink[c][j]
          /\ uplink'[c][Len(uplink[c]) + 1] = f
        BY <1>1, AppendFacts
    <2>3. i \in 1 .. Len(uplink[c]) \/ i = Len(uplink[c]) + 1 BY <2>1, <2>2
    <2>4. QED BY <2>1, <2>2, <2>3 DEF UpHas
<1>3. \A d \in Clients \ {c} : \A kind : UpHas(d, kind)' => UpHas(d, kind)
    BY <1>1 DEF UpHas
<1>4. QED BY <1>1, <1>2, <1>3 DEF UpGains

LEMMA ReceiveFalls ==
    ASSUME WireTypes, NEW c \in Clients, NEW kind, Receive(c, kind)
    PROVE  /\ UpFalls /\ UpHas(c, kind)
           /\ uplink[c] # <<>> /\ uplink[c][1].kind = kind
           /\ uplink'[c] = Tail(uplink[c])
           /\ \A d \in Clients \ {c} : uplink'[d] = uplink[d]
<1>1. /\ uplink[c] # <<>> /\ uplink[c][1].kind = kind
      /\ uplink'[c] = Tail(uplink[c])
      /\ \A d \in Clients \ {c} : uplink'[d] = uplink[d]
      /\ uplink[c] \in Seq(Frame)
    BY ReceiveTypes DEF WireTypes
<1>2. /\ Len(uplink[c]) \in Nat /\ Len(uplink[c]) >= 1
      /\ Len(uplink'[c]) = Len(uplink[c]) - 1
      /\ \A i \in 1 .. Len(uplink[c]) - 1 : uplink'[c][i] = uplink[c][i + 1]
    BY <1>1, TailFacts
<1>3. ASSUME NEW k, UpHas(c, k)' PROVE UpHas(c, k)
    <2>1. PICK i \in 1 .. Len(uplink'[c]) : uplink'[c][i].kind = k BY <1>3 DEF UpHas
    <2>2. i + 1 \in 1 .. Len(uplink[c]) /\ uplink[c][i + 1].kind = k BY <1>2, <2>1
    <2>3. QED BY <2>2 DEF UpHas
<1>4. \A d \in Clients \ {c} : \A k : UpHas(d, k)' => UpHas(d, k) BY <1>1 DEF UpHas
<1>5. 1 \in 1 .. Len(uplink[c]) BY <1>2
<1>6. QED BY <1>1, <1>3, <1>4, <1>5 DEF UpFalls, UpHas

LEMMA HangupGains ==
    ASSUME WireTypes, ClientTypes, NEW c \in Clients, Hangup(c)
    PROVE  UpGains(c, "close") /\ \A d \in Clients \ {c} : uplink'[d] = uplink[d]
<1>1. PICK n \in 0 .. Len(uplink[c]) :
          uplink'[c] = Append(SubSeq(uplink[c], 1, n), Packet("close"))
    BY HangupTypes
<1>2. \A d \in Clients \ {c} : uplink'[d] = uplink[d] BY HangupTypes
<1> DEFINE p == SubSeq(uplink[c], 1, n)
<1>3. uplink[c] \in Seq(Frame) BY DEF WireTypes
<1>4. /\ p \in Seq(Frame) /\ Len(p) = n /\ Len(uplink[c]) \in Nat
      /\ \A i \in 1 .. n : p[i] = uplink[c][i]
    BY <1>3, CutFacts
<1> HIDE DEF p
<1>5. /\ Len(uplink'[c]) = n + 1
      /\ \A i \in 1 .. n : uplink'[c][i] = p[i]
      /\ uplink'[c][n + 1] = Packet("close")
    BY <1>1, <1>4, SetFacts, AppendFacts DEF p
<1>6. ASSUME NEW kind, UpHas(c, kind)' PROVE UpHas(c, kind) \/ kind = "close"
    <2>1. PICK i \in 1 .. Len(uplink'[c]) : uplink'[c][i].kind = kind
        BY <1>6 DEF UpHas
    <2>2. i \in 1 .. n \/ i = n + 1 BY <1>5, <2>1
    <2>3. CASE i \in 1 .. n
        <3>1. i \in 1 .. Len(uplink[c]) /\ uplink[c][i].kind = kind
            BY <1>4, <1>5, <2>1, <2>3
        <3>2. QED BY <3>1 DEF UpHas
    <2>4. CASE i = n + 1 BY <1>5, <2>1, <2>4 DEF Packet
    <2>5. QED BY <2>2, <2>3, <2>4
<1>7. \A d \in Clients \ {c} : \A kind : UpHas(d, kind)' => UpHas(d, kind)
    BY <1>2 DEF UpHas
<1>8. QED BY <1>2, <1>6, <1>7 DEF UpGains

LEMMA TakeFalls ==
    ASSUME WireTypes, NEW c \in Clients, NEW kind, Take(c, kind)
    PROVE  InFalls /\ InHas(c, kind)
<1>1. /\ packets[c] # <<>> /\ packets[c][1] = kind
      /\ packets'[c] = Tail(packets[c])
      /\ \A d \in Clients \ {c} : packets'[d] = packets[d]
      /\ packets[c] \in Seq(Kinds)
    BY TakeTypes DEF WireTypes
<1>2. /\ Len(packets[c]) \in Nat /\ Len(packets[c]) >= 1
      /\ Len(packets'[c]) = Len(packets[c]) - 1
      /\ \A i \in 1 .. Len(packets[c]) - 1 : packets'[c][i] = packets[c][i + 1]
    BY <1>1, TailFacts
<1>3. ASSUME NEW k, InHas(c, k)' PROVE InHas(c, k)
    <2>1. PICK i \in 1 .. Len(packets'[c]) : packets'[c][i] = k BY <1>3 DEF InHas
    <2>2. i + 1 \in 1 .. Len(packets[c]) /\ packets[c][i + 1] = k BY <1>2, <2>1
    <2>3. QED BY <2>2 DEF InHas
<1>4. \A d \in Clients \ {c} : \A k : InHas(d, k)' => InHas(d, k) BY <1>1 DEF InHas
<1>5. 1 \in 1 .. Len(packets[c]) BY <1>2
<1>6. QED BY <1>1, <1>3, <1>4, <1>5 DEF InFalls, InHas

LEMMA DeliverGains ==
    ASSUME WireTypes, NEW conns, NEW new \in Kinds, Deliver(conns, new)
    PROVE  InGains(conns \cap online \cap up, new)
<1> SUFFICES ASSUME NEW d \in Clients, NEW kind, InHas(d, kind)'
             PROVE  \/ InHas(d, kind)
                    \/ d \in conns \cap online \cap up /\ kind = new
    BY DEF InGains
<1>1. packets'[d] = IF d \in conns \cap online \cap up
                    THEN Append(packets[d], new) ELSE packets[d]
    BY DEF Deliver, Listening
<1>2. PICK i \in 1 .. Len(packets'[d]) : packets'[d][i] = kind BY DEF InHas
<1>3. CASE d \in conns \cap online \cap up
    <2>1. /\ Len(packets[d]) \in Nat
          /\ Len(packets'[d]) = Len(packets[d]) + 1
          /\ \A j \in 1 .. Len(packets[d]) : packets'[d][j] = packets[d][j]
          /\ packets'[d][Len(packets[d]) + 1] = new
        BY <1>1, <1>3, AppendFacts DEF WireTypes
    <2>2. i \in 1 .. Len(packets[d]) \/ i = Len(packets[d]) + 1 BY <1>2, <2>1
    <2>3. QED BY <1>2, <1>3, <2>1, <2>2 DEF InHas
<1>4. CASE d \notin conns \cap online \cap up BY <1>1, <1>2, <1>4 DEF InHas
<1>5. QED BY <1>3, <1>4

LEMMA ClearFalls ==
    ASSUME WireTypes, NEW c \in Clients, packets' = [packets EXCEPT ![c] = <<>>]
    PROVE  InFalls
<1>1. packets'[c] = <<>> /\ \A d \in Clients \ {c} : packets'[d] = packets[d]
    BY DEF WireTypes
<1>2. Len(packets'[c]) = 0 BY <1>1
<1>3. \A kind : ~InHas(c, kind)' BY <1>2 DEF InHas
<1>4. QED BY <1>1, <1>3 DEF InFalls, InHas

-----------------------------------------------------------------------------
(* The invariant                                                           *)

\* What the users see follows the one offer.
SenderDone ==
    /\ outcome[Sender] \in {"none"} \cup Promise!SenderEnds
    /\ outcome[Sender] # "none" => local[Sender] = "absent" /\ flow \in {"none", "ended"}
    /\ flow = "ended" => outcome[Sender] # "none"
    /\ outcome[Sender] = "unsent" => flow = "ended"

Holds(r) ==
    /\ local[r] \in {"absent", "PendingOffer", "Receiving"}
    /\ outcome[r] \in {"none"} \cup Promise!ViewEnds
    /\ local[r] # "absent" => outcome[r] = "none"
    /\ local[r] # "absent" \/ outcome[r] # "none" \/ ~NoOfferIn(r) => r \in Addressed
    /\ local[r] = "PendingOffer" => next[r] = 0
    /\ outcome[r] = "saved" => next[r] = TotalChunks
    /\ Ahead \/ ~NoOfferIn(r) => outcome[r] = "none" /\ next[r] = 0

\* r has lost its file, or has never had it, and will never have it.
Settled(r) == ~Ahead /\ NoOfferIn(r) /\ Untouched(r)

\* What makes the sender report a refusal, and what a receiver sends that can.
LossUp(r) == UpHas(r, "reject") \/ UpHas(r, "ackRejected") \/ UpHas(r, "abort")

RefusalIn ==
    InHas(Sender, "reject") \/ InHas(Sender, "ackRejected") \/ InHas(Sender, "tooLarge")

Refused == RefusalIn \/ outcome[Sender] = "refused"

Refusals ==
    /\ \A r \in Receivers : LossUp(r) => r \in Addressed /\ Settled(r)
    /\ Refused => \A r \in Receivers : target = r => Settled(r)

\* The command sends nothing before an accept, and nothing of an unsent file.
HoldingBack ==
    flow \in {"start", "accept", "grace", "send"} \/ outcome[Sender] = "unsent"

ChunkUp == UpHas(Sender, "chunk")

NothingSent ==
    HoldingBack => ~ChunkUp /\ \A r \in Receivers : frames[r] = <<>> /\ next[r] = 0

ViewInv == SenderDone /\ \A r \in Receivers : Holds(r)

TruthInv == Refusals /\ NothingSent

AllInv == Inv /\ OrderInv /\ ViewInv /\ TruthInv

KindsRead ==
    /\ NoOfferUp <=> ~UpHas(Sender, "offer")
    /\ \A r \in Receivers :
          /\ NoOfferIn(r) <=> ~InHas(r, "offer")
          /\ AckUp(r) <=> UpHas(r, "ackOk")

LEMMA KindsFacts == KindsRead
BY DEF KindsRead, NoOfferUp, NoOfferIn, AckUp, UpHas, InHas

LEMMA KindsNext == KindsRead /\ KindsRead'
BY KindsFacts, PTL

-----------------------------------------------------------------------------
(* What all steps have in common                                           *)

\* An offer reaches a receiver from the server, which has it from the sender.
OffersPass ==
    /\ Ahead' => Ahead
    /\ \A r \in Receivers :
          ~NoOfferIn(r)' => ~NoOfferIn(r) \/ (Ahead /\ r \in Addressed)

\* Nothing becomes of a file that is not in the store, except by an offer.
FilesStay ==
    \A r \in Receivers :
        local[r] = "absent" /\ NoOfferIn(r) =>
            local'[r] = "absent" /\ outcome'[r] = outcome[r]

LEMMA SettledStays ==
    ASSUME OffersPass, FilesStay
    PROVE  \A r \in Receivers : Settled(r) => Settled(r)'
BY DEF OffersPass, FilesStay, Settled, Untouched, Saved

\* The receivers whose file is not touched.
LEMMA HoldsSame ==
    ASSUME NEW r \in Receivers, Holds(r), OffersPass, UNCHANGED target,
           local'[r] = local[r], outcome'[r] = outcome[r], next'[r] = next[r]
    PROVE  Holds(r)'
<1>1. Addressed' = Addressed BY DEF Addressed, Broadcast
<1>2. Ahead' \/ ~NoOfferIn(r)' => outcome'[r] = "none" /\ next'[r] = 0
    BY DEF Holds, OffersPass
<1>3. ~NoOfferIn(r)' => r \in Addressed
    BY DEF Holds, OffersPass
<1>4. QED BY <1>1, <1>2, <1>3 DEF Holds, TotalChunks

\* A receiver that lets go of its file.
LEMMA HoldsEnd ==
    ASSUME NEW r \in Receivers, Inv, Holds(r), OffersPass, UNCHANGED target,
           local[r] # "absent", local'[r] = "absent", outcome'[r] \in Promise!ViewEnds,
           outcome'[r] = "saved" => next'[r] = TotalChunks
    PROVE  Holds(r)'
<1>1. Addressed' = Addressed BY DEF Addressed, Broadcast
<1>2. ~Ahead /\ NoOfferIn(r) BY DEF Inv, OfferOnce, Untouched, Ahead
<1>3. r \in Addressed BY DEF Holds
<1>4. ~Ahead' /\ NoOfferIn(r)' BY <1>2 DEF OffersPass
<1>5. QED BY <1>1, <1>3, <1>4 DEF Holds, TotalChunks

\* A receiver that lets go of an unsaved file has settled.
LEMMA EndSettles ==
    ASSUME NEW r \in Receivers, Inv, OffersPass,
           local[r] # "absent", local'[r] = "absent", outcome'[r] # "saved"
    PROVE  Settled(r)'
<1>1. ~Ahead /\ NoOfferIn(r) BY DEF Inv, OfferOnce, Untouched, Ahead
<1>2. ~Ahead' /\ NoOfferIn(r)' BY <1>1 DEF OffersPass
<1>3. QED BY <1>2 DEF Settled, Untouched, Saved

LossesTrue ==
    \A r \in Receivers : LossUp(r)' => LossUp(r) \/ (r \in Addressed /\ Settled(r)')

RefusalsTrue ==
    Refused' => Refused \/ \A r \in Receivers : target = r => Settled(r) \/ Settled(r)'

LEMMA RefusalsKept ==
    ASSUME Refusals, OffersPass, FilesStay, LossesTrue, RefusalsTrue, UNCHANGED target
    PROVE  Refusals'
<1>1. \A r \in Receivers : Settled(r) => Settled(r)' BY SettledStays
<1>2. Addressed' = Addressed BY DEF Addressed, Broadcast
<1>3. \A r \in Receivers : LossUp(r)' => r \in Addressed' /\ Settled(r)'
    BY <1>1, <1>2 DEF Refusals, LossesTrue
<1>4. Refused' => \A r \in Receivers : target' = r => Settled(r)'
    BY <1>1 DEF Refusals, RefusalsTrue
<1>5. QED BY <1>3, <1>4 DEF Refusals

\* No receiver that has got nothing gets a chunk.
Quiet ==
    \A r \in Receivers :
        /\ frames[r] = <<>> => frames'[r] = <<>>
        /\ frames[r] = <<>> /\ next[r] = 0 => next'[r] = 0

LEMMA SameIsQuiet == UNCHANGED <<frames, next>> => Quiet
BY DEF Quiet

LEMMA NothingSentKept ==
    ASSUME NothingSent, Quiet, HoldingBack' => HoldingBack, ChunkUp' => ChunkUp
    PROVE  NothingSent'
BY DEF NothingSent, Quiet

-----------------------------------------------------------------------------
(* Steps that the users do not see                                         *)

LEMMA Unseen ==
    ASSUME UNCHANGED <<target, next>>, SenderView' = SenderView,
           \A r \in Receivers : ReceiverView(r)' = ReceiverView(r)
    PROVE  UNCHANGED Promise!promiseVars
BY DEF Promise!promiseVars

LEMMA UnseenClients ==
    ASSUME UNCHANGED <<target, clientVars, flow>>
    PROVE  UNCHANGED Promise!promiseVars
<1>1. UNCHANGED <<local, next, outcome>> BY DEF clientVars
<1>2. SenderView' = SenderView BY <1>1 DEF SenderView
<1>3. \A r \in Receivers : ReceiverView(r)' = ReceiverView(r) BY <1>1 DEF ReceiverView
<1>4. QED BY <1>1, <1>2, <1>3, Unseen

LEMMA SameSenderDone ==
    ASSUME SenderDone, outcome'[Sender] = outcome[Sender],
           outcome[Sender] # "none" => local'[Sender] = local[Sender],
           flow' = flow \/ (outcome[Sender] = "none" /\ flow' # "ended")
    PROVE  SenderDone'
BY DEF SenderDone

-----------------------------------------------------------------------------
(* The server                                                              *)

UnseenKeeps == ViewInv' /\ TruthInv' /\ UNCHANGED Promise!promiseVars

LEMMA RelayStepKeeps ==
    ASSUME AllInv, UNCHANGED <<target, clientVars, flow>>, OffersPass, UpFalls,
           RefusalsTrue, Quiet \/ ~HoldingBack
    PROVE  UnseenKeeps
<1>1. UNCHANGED <<local, next, outcome>> BY DEF clientVars
<1>2. FilesStay BY <1>1 DEF FilesStay
<1>3. ViewInv'
    <2>1. SenderDone' BY <1>1, SameSenderDone DEF AllInv, ViewInv
    <2>2. \A r \in Receivers : Holds(r)' BY <1>1, HoldsSame DEF AllInv, ViewInv
    <2>3. QED BY <2>1, <2>2 DEF ViewInv
<1>4. Refusals'
    <2>1. LossesTrue BY SetFacts DEF LossesTrue, LossUp, UpFalls
    <2>2. QED BY <1>2, <2>1, RefusalsKept DEF AllInv, TruthInv
<1>5. NothingSent'
    <2>1. HoldingBack' <=> HoldingBack BY <1>1 DEF HoldingBack
    <2>2. ChunkUp' => ChunkUp BY SetFacts DEF UpFalls, ChunkUp
    <2>3. CASE ~HoldingBack BY <2>1, <2>3 DEF NothingSent
    <2>4. CASE Quiet BY <2>1, <2>2, <2>4, NothingSentKept DEF AllInv, TruthInv
    <2>5. QED BY <2>3, <2>4
<1>6. QED BY <1>3, <1>4, <1>5, UnseenClients DEF UnseenKeeps, TruthInv

\* One frame of client c, and what the server makes of it.
LEMMA RelayKeeps ==
    ASSUME AllInv, NEW c \in Clients, NEW kind, Receive(c, kind),
           UNCHANGED <<target, clientVars, flow>>,
           UNCHANGED frames \/ (c = Sender /\ kind = "chunk"),
           NEW conns, NEW new, InGains(conns, new),
           new = "offer" => Ahead /\ \A r \in Receivers : r \in conns => r \in Addressed,
           Sender \in conns /\ new \in {"reject", "ackRejected", "tooLarge"}
               => \A r \in Receivers : target = r => Settled(r) \/ Settled(r)'
    PROVE  UnseenKeeps
<1>1. UNCHANGED <<local, next, outcome>> BY DEF clientVars
<1>2. UpFalls /\ UpHas(c, kind) BY ReceiveFalls, InvParts DEF AllInv
<1>3. KindsRead /\ KindsRead' BY KindsNext
<1>4. OffersPass
    <2>1. Fresh' = Fresh BY <1>1 DEF Fresh
    <2>2. Ahead' => Ahead BY <1>2, <1>3, <2>1, SetFacts DEF Ahead, KindsRead, UpFalls
    <2>3. ASSUME NEW r \in Receivers, ~NoOfferIn(r)'
          PROVE  ~NoOfferIn(r) \/ (Ahead /\ r \in Addressed)
        <3>1. InHas(r, "offer")' /\ r \in Clients BY <1>3, <2>3, SetFacts DEF KindsRead
        <3>2. InHas(r, "offer") \/ (r \in conns /\ new = "offer") BY <3>1 DEF InGains
        <3>3. QED BY <1>3, <3>2 DEF KindsRead
    <2>4. QED BY <2>2, <2>3 DEF OffersPass
<1>5. RefusalsTrue
    <2>1. SUFFICES ASSUME Refused', ~Refused
                   PROVE  \A r \in Receivers : target = r => Settled(r) \/ Settled(r)'
        BY DEF RefusalsTrue
    <2>2. RefusalIn' /\ ~RefusalIn BY <1>1, <2>1 DEF Refused
    <2>3. \A k : InHas(Sender, k)' => InHas(Sender, k) \/ (Sender \in conns /\ k = new)
        BY SetFacts DEF InGains
    <2>4. Sender \in conns /\ new \in {"reject", "ackRejected", "tooLarge"}
        BY <2>2, <2>3 DEF RefusalIn
    <2>5. QED BY <2>4
<1>6. Quiet \/ ~HoldingBack
    BY <1>1, <1>2, SameIsQuiet DEF AllInv, TruthInv, NothingSent, ChunkUp
<1>7. QED BY <1>2, <1>4, <1>5, <1>6, RelayStepKeeps

LEMMA NoneGained == ASSUME UNCHANGED packets PROVE InGains({}, "none")
BY DEF InGains, InHas

LEMMA RelayAcceptKeeps ==
    ASSUME AllInv, NEW r \in Receivers, RelayAccept(r), UNCHANGED flow
    PROVE  UnseenKeeps
<1>1. /\ Receive(r, "accept") /\ UNCHANGED <<target, clientVars, flow, frames>>
      /\ WireTypes /\ r \in Clients
    BY SetFacts, InvParts DEF RelayAccept, AllInv
<1>2. \E conns, new : new \in {"accept", "none"} /\ InGains(conns, new)
    <2>1. CASE Deliver({Sender}, "accept") BY <1>1, <2>1, DeliverGains DEF Kinds
    <2>2. CASE UNCHANGED packets BY <2>2, NoneGained
    <2>3. QED BY <2>1, <2>2 DEF RelayAccept
<1>3. QED BY <1>1, <1>2, RelayKeeps

LEMMA RelayEndKeeps ==
    ASSUME AllInv, NEW c \in Clients, NEW kind \in {"reject", "abort"}, RelayEnd(c, kind),
           c = Sender => kind = "abort", UNCHANGED flow
    PROVE  UnseenKeeps
<1> DEFINE peer == IF c = Sender THEN Addressed ELSE {Sender}
<1>1. /\ Receive(c, kind) /\ UNCHANGED <<target, clientVars, flow, frames>>
      /\ WireTypes /\ kind \in Kinds
    BY InvParts DEF RelayEnd, AllInv, Kinds
<1>2. UpHas(c, kind) BY <1>1, ReceiveFalls
<1>3. kind = "reject" => \A r \in Receivers : target = r => Settled(r)
    <2>1. kind = "reject" => c \in Receivers /\ c \in Addressed /\ Settled(c)
        BY <1>2 DEF Clients, LossUp, AllInv, TruthInv, Refusals
    <2>2. QED BY <2>1, FileTransferAssumption DEF Addressed, Broadcast
<1>4. CASE peer \cap online # {}
    <2>1. Deliver(peer, kind) BY <1>4 DEF RelayEnd
    <2> DEFINE conns == peer \cap online \cap up
    <2>2. InGains(conns, kind) BY <1>1, <2>1, DeliverGains
    <2> HIDE DEF conns
    <2>3. QED BY <1>1, <1>3, <2>2, RelayKeeps
<1>5. CASE peer \cap online = {}
    <2>1. Deliver({Sender}, "error") \/ UNCHANGED packets
        BY <1>5 DEF RelayEnd, Complain
    <2>2. \E conns, new : new \in {"error", "none"} /\ InGains(conns, new)
        BY <1>1, <2>1, DeliverGains, NoneGained DEF Kinds
    <2>3. QED BY <1>1, <2>2, RelayKeeps
<1>6. QED BY <1>4, <1>5

LEMMA RelayAckKeeps ==
    ASSUME AllInv, NEW r \in Receivers, NEW kind \in {"ackOk", "ackRejected"},
           RelayAck(r, kind), UNCHANGED flow
    PROVE  UnseenKeeps
<1>1. /\ Receive(r, kind) /\ UNCHANGED <<target, clientVars, flow, frames>>
      /\ WireTypes /\ r \in Clients /\ kind \in Kinds
    BY SetFacts, InvParts DEF RelayAck, AllInv, Kinds
<1>2. UpHas(r, kind) BY <1>1, ReceiveFalls
<1>3. kind = "ackRejected" => \A s \in Receivers : target = s => Settled(s)
    <2>1. kind = "ackRejected" => r \in Addressed /\ Settled(r)
        BY <1>2 DEF LossUp, AllInv, TruthInv, Refusals
    <2>2. QED BY <2>1, FileTransferAssumption DEF Addressed, Broadcast
<1>4. CASE Deliver({Sender}, kind)
    <2> DEFINE conns == {Sender} \cap online \cap up
    <2>1. InGains(conns, kind) BY <1>1, <1>4, DeliverGains
    <2> HIDE DEF conns
    <2>2. QED BY <1>1, <1>3, <2>1, RelayKeeps
<1>5. CASE UNCHANGED packets
    <2>1. InGains({}, "none") BY <1>5, NoneGained
    <2>2. QED BY <1>1, <2>1, RelayKeeps
<1>6. QED BY <1>4, <1>5 DEF RelayAck

LEMMA RelayCompleteKeeps ==
    ASSUME AllInv, RelayComplete, UNCHANGED flow
    PROVE  UnseenKeeps
<1>1. /\ Receive(Sender, "complete") /\ UNCHANGED <<target, clientVars, flow, frames>>
      /\ WireTypes /\ Sender \in Clients
    BY SetFacts, InvParts DEF RelayComplete, AllInv
<1>2. Deliver(Addressed, "complete") \/ Deliver({Sender}, "error")
    BY DEF RelayComplete, Complain
<1>3. \E conns, new : new \in {"complete", "error"} /\ InGains(conns, new)
    BY <1>1, <1>2, DeliverGains DEF Kinds
<1>4. QED BY <1>1, <1>3, RelayKeeps

LEMMA RelayChunkKeeps ==
    ASSUME AllInv, RelayChunk, UNCHANGED flow
    PROVE  UnseenKeeps
<1>1. /\ Receive(Sender, "chunk") /\ UNCHANGED <<target, clientVars, flow>>
      /\ Deliver({Sender}, "error") \/ UNCHANGED packets
      /\ WireTypes /\ Sender \in Clients
    BY SetFacts, InvParts DEF RelayChunk, Complain, AllInv
<1>2. \E conns, new : new \in {"error", "none"} /\ InGains(conns, new)
    BY <1>1, DeliverGains, NoneGained DEF Kinds
<1>3. QED BY <1>1, <1>2, RelayKeeps

LEMMA EndSessionKeeps ==
    ASSUME AllInv, NEW c \in Clients, EndSession(c), UNCHANGED flow
    PROVE  UnseenKeeps
<1>1. /\ Receive(c, "close") /\ UNCHANGED <<target, clientVars, flow, frames>>
      /\ WireTypes /\ \E peers : Deliver(peers, "abort")
    BY InvParts DEF EndSession, AllInv
<1>2. \E conns : InGains(conns, "abort") BY <1>1, DeliverGains DEF Kinds
<1>3. QED BY <1>1, <1>2, RelayKeeps

LEMMA OfferTaken ==
    ASSUME AllInv, Receive(Sender, "offer")
    PROVE  Ahead /\ ~Fresh /\ NoOfferUp'
<1>1. WireTypes /\ Sender \in Clients BY SetFacts, InvParts DEF AllInv
<1>2. KindsRead /\ KindsRead' BY KindsNext
<1>3. Ahead /\ ~Fresh
    BY <1>1, <1>2, ReceiveFalls DEF KindsRead, Ahead, AllInv, Inv, OfferOnce
<1>4. NoOfferUp'
    <2> DEFINE q == uplink[Sender]
    <2>1. /\ q \in Seq(Frame) /\ q # <<>> /\ q[1].kind = "offer"
          /\ uplink'[Sender] = Tail(q)
        BY <1>1, ReceiveFalls DEF WireTypes
    <2>2. \A i, j \in 1 .. Len(q) : q[i].kind = "offer" /\ q[j].kind = "offer" => i = j
        BY DEF AllInv, Inv, OfferOnce, OnceUp
    <2> HIDE DEF q
    <2>3. /\ Len(q) \in Nat /\ Len(q) >= 1
          /\ Len(Tail(q)) = Len(q) - 1
          /\ \A i \in 1 .. Len(q) - 1 : Tail(q)[i] = q[i + 1]
        BY <2>1, TailFacts
    <2>4. ASSUME NEW i \in 1 .. Len(Tail(q)) PROVE Tail(q)[i].kind # "offer"
        <3>1. i + 1 \in 1 .. Len(q) /\ 1 \in 1 .. Len(q) /\ i + 1 # 1 /\ Tail(q)[i] = q[i + 1]
            BY <2>3
        <3>2. QED BY <2>1, <2>2, <3>1
    <2>5. QED BY <2>1, <2>4 DEF NoOfferUp
<1>5. QED BY <1>3, <1>4

LEMMA RelayOfferKeeps ==
    ASSUME AllInv, RelayOffer, UNCHANGED flow
    PROVE  UnseenKeeps
<1> DEFINE found == Addressed \cap online
<1>1. /\ Receive(Sender, "offer") /\ UNCHANGED <<target, clientVars, flow, frames>>
      /\ WireTypes /\ Sender \in Clients
    BY SetFacts, InvParts DEF RelayOffer, AllInv
<1>2. KindsRead /\ KindsRead' BY KindsNext
<1>3. Ahead /\ ~Fresh /\ NoOfferUp' BY <1>1, OfferTaken
<1>4. CASE Deliver(found, "offer")
    <2> DEFINE conns == found \cap online \cap up
    <2>1. InGains(conns, "offer") BY <1>1, <1>4, DeliverGains DEF Kinds
    <2>2. \A r \in Receivers : r \in conns => r \in Addressed OBVIOUS
    <2> HIDE DEF conns, found
    <2>3. QED BY <1>1, <1>3, <2>1, <2>2, RelayKeeps
<1>5. ASSUME NEW new \in {"tooLarge", "error"}, Deliver({Sender}, new) PROVE UnseenKeeps
    <2> DEFINE conns == {Sender} \cap online \cap up
    <2>1. InGains(conns, new) BY <1>1, <1>5, DeliverGains DEF Kinds
    <2>2. ASSUME NEW r \in Receivers PROVE Settled(r)'
        <3>1. NoOfferIn(r) /\ Untouched(r)
            BY <1>3 DEF Ahead, AllInv, Inv, OfferOnce
        <3>2. ~InHas(r, "offer")'
            BY <1>2, <2>1, <3>1, SetFacts DEF KindsRead, InGains
        <3>3. Untouched(r)' BY <1>1, <3>1 DEF clientVars, Untouched, Saved
        <3>4. ~Fresh' BY <1>1, <1>3 DEF clientVars, Fresh
        <3>5. QED BY <1>2, <1>3, <3>2, <3>3, <3>4 DEF KindsRead, Settled, Ahead
    <2> HIDE DEF conns, found
    <2>3. QED BY <1>1, <2>1, <2>2, RelayKeeps
<1>6. QED BY <1>4, <1>5 DEF RelayOffer, Complain

LEMMA ServerKeeps ==
    ASSUME AllInv, NEW c \in Clients, Server(c), UNCHANGED flow
    PROVE  UnseenKeeps
<1>1. CASE c = Sender /\ RelayOffer BY <1>1, RelayOfferKeeps
<1>2. CASE c = Sender /\ RelayComplete BY <1>2, RelayCompleteKeeps
<1>3. CASE c = Sender /\ RelayChunk BY <1>3, RelayChunkKeeps
<1>4. CASE c \in Receivers /\ RelayAccept(c) BY <1>4, RelayAcceptKeeps
<1>5. CASE RelayEnd(c, "abort") \/ (c \in Receivers /\ RelayEnd(c, "reject"))
    <2>1. c \in Receivers => c # Sender BY SetFacts
    <2>2. QED BY <1>5, <2>1, RelayEndKeeps
<1>6. CASE c \in Receivers /\ (RelayAck(c, "ackOk") \/ RelayAck(c, "ackRejected"))
    BY <1>6, RelayAckKeeps
<1>7. CASE EndSession(c) BY <1>7, EndSessionKeeps
<1>8. QED BY <1>1, <1>2, <1>3, <1>4, <1>5, <1>6, <1>7 DEF Server

\* The sweeper tells the sender of an error, and the receivers of an abort.
LEMMA SweptKeeps ==
    ASSUME AllInv, UNCHANGED <<target, clientVars, frames, flow>>, UpFalls,
           \A c \in Clients : \A kind :
               InHas(c, kind)' =>
                   \/ InHas(c, kind)
                   \/ c \in Receivers \cap Addressed /\ kind = "offer" /\ Ahead
                   \/ kind \in {"abort", "error"}
    PROVE  UnseenKeeps
<1>1. UNCHANGED <<next, outcome>> BY DEF clientVars
<1>2. KindsRead /\ KindsRead' BY KindsNext
<1>3. Fresh' = Fresh BY DEF Fresh, clientVars
<1>4. Ahead' => Ahead BY <1>2, <1>3, SetFacts DEF Ahead, KindsRead, UpFalls
<1>5. OffersPass BY <1>2, <1>4, SetFacts DEF OffersPass, KindsRead
<1>6. RefusalIn' => RefusalIn BY SetFacts DEF RefusalIn
<1>7. RefusalsTrue BY <1>1, <1>6 DEF RefusalsTrue, Refused
<1>8. Quiet BY <1>1, SameIsQuiet
<1>9. QED BY <1>5, <1>7, <1>8, RelayStepKeeps

LEMMA SweepKeeps ==
    ASSUME AllInv, Sweep
    PROVE  UnseenKeeps
<1>1. UNCHANGED <<target, clientVars, frames, flow, uplink>> BY DEF Sweep
<1>2. WireTypes BY InvParts DEF AllInv
<1>3. packets' \in [Clients -> Seq(Kinds)] /\ \A c \in Clients : GrowsBySweep(c, 0)
    BY <1>2, SweepQueues
<1>4. ASSUME NEW c \in Clients, NEW kind, InHas(c, kind)'
      PROVE  InHas(c, kind) \/ kind \in {"abort", "error"}
    <2>1. PICK i \in 1 .. Len(packets'[c]) : packets'[c][i] = kind BY <1>4 DEF InHas
    <2>2. i # 0 BY <1>3
    <2>3. QED BY <1>3, <2>1, <2>2 DEF GrowsBySweep, InHas
<1>5. QED BY <1>1, <1>4, SameKinds, SweptKeeps

LEMMA SweepDuringOfferKeeps ==
    ASSUME AllInv, SweepDuringOffer
    PROVE  UnseenKeeps
<1>1. UNCHANGED <<target, clientVars, frames, flow>> /\ Receive(Sender, "offer")
    BY DEF SweepDuringOffer
<1>2. UpFalls BY <1>1, SetFacts, InvParts, ReceiveFalls DEF AllInv
<1>3. Ahead BY <1>1, OfferTaken
<1>4. \A c \in Clients : \E m : GrowsBySweep(c, m) BY SweepOfferQueues DEF AllInv
<1>5. ASSUME NEW c \in Clients, NEW kind, InHas(c, kind)'
      PROVE  \/ InHas(c, kind)
             \/ c \in Receivers \cap Addressed /\ kind = "offer"
             \/ kind \in {"abort", "error"}
    <2>1. PICK i \in 1 .. Len(packets'[c]) : packets'[c][i] = kind BY <1>5 DEF InHas
    <2>2. PICK m : GrowsBySweep(c, m) BY <1>4
    <2>3. QED BY <2>1, <2>2 DEF GrowsBySweep, InHas
<1>6. QED BY <1>1, <1>2, <1>3, <1>5, SweptKeeps

-----------------------------------------------------------------------------
(* The receivers                                                           *)

PromiseStep == [Promise!PromiseNext]_(Promise!promiseVars)

StepKeeps == ViewInv' /\ TruthInv' /\ PromiseStep

\* What r does with its file leaves the others, and the sender, alone.
OnlyAt(r) ==
    /\ UNCHANGED <<target, flow>>
    /\ uplink'[Sender] = uplink[Sender]
    /\ \A c \in Clients \ {r} : local'[c] = local[c] /\ outcome'[c] = outcome[c]
    /\ \A s \in Receivers \ {r} : next'[s] = next[s]
    /\ InFalls /\ Quiet

LEMMA OnlyAtPasses ==
    ASSUME NEW r \in Receivers, OnlyAt(r), NEW new, UpGains(r, new)
    PROVE  OffersPass
<1>1. KindsRead /\ KindsRead' BY KindsNext
<1>2. Sender # r BY SetFacts
<1>3. Fresh' = Fresh BY <1>2, SetFacts DEF OnlyAt, Fresh
<1>4. UpHas(Sender, "offer")' => UpHas(Sender, "offer")
    BY <1>2, SetFacts DEF UpGains
<1>5. Ahead' => Ahead BY <1>1, <1>3, <1>4 DEF KindsRead, Ahead
<1>6. \A s \in Receivers : ~NoOfferIn(s)' => ~NoOfferIn(s)
    BY <1>1, SetFacts DEF OnlyAt, InFalls, KindsRead
<1>7. QED BY <1>5, <1>6 DEF OffersPass

LEMMA StoreKeeps ==
    ASSUME AllInv, NEW r \in Receivers, OnlyAt(r), Holds(r)', NEW new, UpGains(r, new),
           new \in {"reject", "ackRejected", "abort"} =>
               local[r] # "absent" /\ local'[r] = "absent" /\ outcome'[r] # "saved",
           local[r] = "absent" /\ NoOfferIn(r) =>
               local'[r] = "absent" /\ outcome'[r] = outcome[r]
    PROVE  ViewInv' /\ TruthInv'
<1>1. OffersPass BY OnlyAtPasses
<1>2. r \in Clients /\ Sender \in Clients /\ Sender # r BY SetFacts
<1>3. FilesStay BY SetFacts DEF FilesStay, OnlyAt
<1>4. SenderDone' BY <1>2, SameSenderDone DEF AllInv, ViewInv, OnlyAt
<1>5. \A s \in Receivers \ {r} : Holds(s)'
    BY <1>1, SetFacts, HoldsSame DEF AllInv, ViewInv, OnlyAt
<1>6. ViewInv' BY <1>4, <1>5 DEF ViewInv
<1>7. LossesTrue
    <2>1. \A s \in Receivers \ {r} : LossUp(s)' => LossUp(s)
        BY SetFacts DEF LossUp, UpGains
    <2>2. ASSUME LossUp(r)', ~LossUp(r) PROVE r \in Addressed /\ Settled(r)'
        <3>1. new \in {"reject", "ackRejected", "abort"} BY <1>2, <2>2 DEF LossUp, UpGains
        <3>2. r \in Addressed BY <3>1 DEF AllInv, ViewInv, Holds
        <3>3. Settled(r)' BY <1>1, <3>1, EndSettles DEF AllInv
        <3>4. QED BY <3>2, <3>3
    <2>3. QED BY <2>1, <2>2 DEF LossesTrue
<1>8. RefusalsTrue
    BY <1>2 DEF RefusalsTrue, Refused, RefusalIn, OnlyAt, InFalls
<1>9. Refusals'
    BY <1>1, <1>3, <1>7, <1>8, RefusalsKept DEF AllInv, TruthInv, OnlyAt
<1>10. NothingSent'
    <2>1. HoldingBack' <=> HoldingBack BY <1>2 DEF HoldingBack, OnlyAt
    <2>2. ChunkUp' <=> ChunkUp BY DEF ChunkUp, UpHas, OnlyAt
    <2>3. QED BY <2>1, <2>2, NothingSentKept DEF AllInv, TruthInv, OnlyAt
<1>11. QED BY <1>6, <1>9, <1>10 DEF TruthInv

\* The users see nothing, or see r come to another state.
LEMMA ReceiverUnseen ==
    ASSUME NEW r \in Receivers, OnlyAt(r), next'[r] = next[r],
           next \in [Receivers -> 0 .. TotalChunks], next' \in [Receivers -> 0 .. TotalChunks],
           ReceiverView(r)' = ReceiverView(r)
    PROVE  PromiseStep
<1>1. next' = next BY DEF OnlyAt
<1>2. SenderView' = SenderView BY SetFacts DEF OnlyAt, SenderView
<1>3. \A s \in Receivers : ReceiverView(s)' = ReceiverView(s)
    BY SetFacts DEF OnlyAt, ReceiverView
<1>4. QED BY <1>1, <1>2, <1>3, Unseen DEF PromiseStep, OnlyAt

LEMMA ReceiverComes ==
    ASSUME NEW r \in Receivers, OnlyAt(r), next'[r] = next[r],
           next \in [Receivers -> 0 .. TotalChunks], next' \in [Receivers -> 0 .. TotalChunks]
    PROVE  Promise!Comes(r, ReceiverView(r)')
<1>1. next' = next BY DEF OnlyAt
<1>2. SenderView' = SenderView BY SetFacts DEF OnlyAt, SenderView
<1>3. \A s \in Receivers \ {r} : ReceiverView(s)' = ReceiverView(s)
    BY SetFacts DEF OnlyAt, ReceiverView
<1>4. [s \in Receivers |-> ReceiverView(s)]'
          = [[s \in Receivers |-> ReceiverView(s)] EXCEPT ![r] = ReceiverView(r)']
    BY <1>3
<1>5. QED BY <1>1, <1>2, <1>4 DEF Promise!Comes, OnlyAt

LEMMA ViewRead ==
    \A r \in Receivers :
        /\ [s \in Receivers |-> ReceiverView(s)][r] = ReceiverView(r)
        /\ local[r] = "PendingOffer" => ReceiverView(r) = "asked"
        /\ local[r] = "Receiving" => ReceiverView(r) = "receiving"
        /\ local[r] = "absent" =>
              ReceiverView(r) = IF outcome[r] = "none" THEN "unaware" ELSE outcome[r]
BY DEF ReceiverView

LEMMA FallsGain == UpFalls => \A c, new : UpGains(c, new)
BY DEF UpFalls, UpGains

LEMMA NextTypes == Inv => next \in [Receivers -> 0 .. TotalChunks]
BY DEF Inv, TypeInv, FlowTypeOK, TypeOK

\* r lets go of its file.
LEMMA LetsGo ==
    ASSUME AllInv, NEW r \in Receivers, OnlyAt(r), UNCHANGED next,
           local[r] # "absent", local'[r] = "absent", outcome'[r] \in Promise!ViewEnds,
           NEW new, UpGains(r, new),
           new \in {"reject", "ackRejected", "abort"} => outcome'[r] # "saved",
           outcome'[r] = "saved" => next[r] = TotalChunks
    PROVE  /\ ViewInv' /\ TruthInv'
           /\ Promise!Comes(r, outcome'[r])
           /\ [s \in Receivers |-> ReceiverView(s)][r] = ReceiverView(r)
           /\ ReceiverView(r) = IF local[r] = "Receiving" THEN "receiving" ELSE "asked"
<1>1. OffersPass BY OnlyAtPasses
<1>2. Holds(r)'
    BY <1>1, HoldsEnd DEF AllInv, ViewInv, OnlyAt
<1>3. ViewInv' /\ TruthInv' BY <1>2, StoreKeeps
<1>4. next \in [Receivers -> 0 .. TotalChunks] BY NextTypes DEF AllInv
<1>5. Promise!Comes(r, ReceiverView(r)') BY <1>4, ReceiverComes
<1>6. ReceiverView(r)' = outcome'[r]
    BY DEF ReceiverView, Promise!ViewEnds
<1>7. local[r] \in {"PendingOffer", "Receiving"} BY DEF AllInv, ViewInv, Holds
<1>8. QED BY <1>3, <1>5, <1>6, <1>7, ViewRead

LEMMA DropKeeps ==
    ASSUME AllInv, NEW r \in Receivers, OnlyAt(r), UNCHANGED next,
           NEW why \in {"cancelled", "disconnected"},
           local[r] # "absent", local'[r] = "absent", outcome'[r] = why,
           NEW new, UpGains(r, new)
    PROVE  StepKeeps
<1>1. outcome'[r] \in Promise!ViewEnds /\ outcome'[r] # "saved" BY DEF Promise!ViewEnds
<1>2. /\ ViewInv' /\ TruthInv'
      /\ Promise!Comes(r, why)
      /\ [s \in Receivers |-> ReceiverView(s)][r] \in {"receiving", "asked"}
    BY <1>1, LetsGo
<1>3. Promise!Drop(r, why) BY <1>2 DEF Promise!Drop, Promise!ViewOpen
<1>4. QED BY <1>2, <1>3 DEF StepKeeps, PromiseStep, Promise!PromiseNext

\* A step that leaves the store of r as it is.
LEMMA NothingKeeps ==
    ASSUME AllInv, NEW r \in Receivers, OnlyAt(r), UNCHANGED <<next, local, outcome>>,
           NEW new, UpGains(r, new), new \notin {"reject", "ackRejected", "abort"}
    PROVE  StepKeeps
<1>1. OffersPass BY OnlyAtPasses
<1>2. Holds(r)' BY <1>1, HoldsSame DEF AllInv, ViewInv, OnlyAt
<1>3. ViewInv' /\ TruthInv' BY <1>2, StoreKeeps
<1>4. next \in [Receivers -> 0 .. TotalChunks] BY NextTypes DEF AllInv
<1>5. ReceiverView(r)' = ReceiverView(r) BY DEF ReceiverView
<1>6. PromiseStep BY <1>4, <1>5, ReceiverUnseen
<1>7. QED BY <1>3, <1>6 DEF StepKeeps

LEMMA ForgetAt ==
    ASSUME AllInv, NEW r \in Receivers, NEW why \in Outcomes, Forget(r, why)
    PROVE  /\ local'[r] = "absent" /\ outcome'[r] = why
           /\ \A c \in Clients \ {r} : local'[c] = local[c] /\ outcome'[c] = outcome[c]
BY SetFacts, InvParts, ForgetTypes DEF AllInv

LEMMA SendAt ==
    ASSUME AllInv, NEW r \in Receivers, NEW kind \in Kinds, Send(r, Packet(kind))
    PROVE  UpGains(r, kind) /\ uplink'[Sender] = uplink[Sender]
<1>1. /\ Packet(kind) \in Frame /\ Packet(kind).kind = kind
      /\ r \in Clients /\ Sender \in Clients \ {r}
    BY SetFacts
<1>2. QED BY <1>1, InvParts, SendGains DEF AllInv

LEMMA RejectKeeps ==
    ASSUME AllInv, NEW r \in Receivers, Reject(r), UNCHANGED flow
    PROVE  StepKeeps
<1>1. /\ local[r] # "absent" /\ Forget(r, "cancelled") /\ Send(r, Packet("reject"))
      /\ UNCHANGED <<target, next, packets, frames, flow>>
    BY DEF Reject
<1>2. /\ local'[r] = "absent" /\ outcome'[r] = "cancelled"
      /\ \A c \in Clients \ {r} : local'[c] = local[c] /\ outcome'[c] = outcome[c]
    BY <1>1, ForgetAt DEF Outcomes
<1>3. UpGains(r, "reject") /\ uplink'[Sender] = uplink[Sender]
    BY <1>1, SendAt DEF Kinds
<1>4. OnlyAt(r) BY <1>1, <1>2, <1>3, SameKinds, SameIsQuiet DEF OnlyAt
<1>5. QED BY <1>1, <1>2, <1>3, <1>4, DropKeeps

LEMMA AbortKeeps ==
    ASSUME AllInv, NEW r \in Receivers, Abort(r), UNCHANGED flow
    PROVE  StepKeeps
<1>1. /\ local[r] # "absent" /\ Forget(r, "cancelled") /\ Send(r, Packet("abort"))
      /\ UNCHANGED <<target, next, packets, frames, flow>>
    BY SetFacts DEF Abort
<1>2. /\ local'[r] = "absent" /\ outcome'[r] = "cancelled"
      /\ \A c \in Clients \ {r} : local'[c] = local[c] /\ outcome'[c] = outcome[c]
    BY <1>1, ForgetAt DEF Outcomes
<1>3. UpGains(r, "abort") /\ uplink'[Sender] = uplink[Sender]
    BY <1>1, SendAt DEF Kinds
<1>4. OnlyAt(r) BY <1>1, <1>2, <1>3, SameKinds, SameIsQuiet DEF OnlyAt
<1>5. QED BY <1>1, <1>2, <1>3, <1>4, DropKeeps

LEMMA LeaveKeeps ==
    ASSUME AllInv, NEW r \in Receivers, Leave(r), UNCHANGED flow
    PROVE  StepKeeps
<1>1. /\ Hangup(r) /\ packets' = [packets EXCEPT ![r] = <<>>]
      /\ UNCHANGED <<target, next, flow>>
      /\ frames' = [s \in Receivers |-> IF s = r THEN <<>> ELSE frames[s]]
      /\ IF local[r] # "absent" THEN Forget(r, "disconnected") ELSE UNCHANGED <<local, outcome>>
      /\ r \in Clients /\ Sender \in Clients /\ Sender # r
      /\ WireTypes /\ ClientTypes
    BY SetFacts, InvParts DEF Leave, AllInv
<1>2. UpGains(r, "close") /\ uplink'[Sender] = uplink[Sender] BY <1>1, HangupGains
<1>3. InFalls BY <1>1, ClearFalls
<1>4. Quiet BY <1>1 DEF Quiet
<1>5. CASE local[r] # "absent"
    <2>1. /\ local'[r] = "absent" /\ outcome'[r] = "disconnected"
          /\ \A c \in Clients \ {r} : local'[c] = local[c] /\ outcome'[c] = outcome[c]
        BY <1>1, <1>5, ForgetAt DEF Outcomes
    <2>2. OnlyAt(r) BY <1>1, <1>2, <1>3, <1>4, <2>1 DEF OnlyAt
    <2>3. QED BY <1>1, <1>2, <1>5, <2>1, <2>2, DropKeeps
<1>6. CASE local[r] = "absent"
    <2>1. UNCHANGED <<local, outcome>> BY <1>1, <1>6
    <2>2. OnlyAt(r) BY <1>1, <1>2, <1>3, <1>4, <2>1 DEF OnlyAt
    <2>3. QED BY <1>1, <1>2, <2>1, <2>2, NothingKeeps
<1>7. QED BY <1>5, <1>6

LEMMA OnAbortKeeps ==
    ASSUME AllInv, NEW r \in Receivers, OnEnd(r, "abort", "cancelled"), UNCHANGED flow
    PROVE  StepKeeps
<1>1. /\ Take(r, "abort")
      /\ UNCHANGED <<target, next, uplink, frames, flow>>
      /\ IF local[r] # "absent" THEN Forget(r, "cancelled") ELSE UNCHANGED <<local, outcome>>
      /\ r \in Clients /\ WireTypes
    BY SetFacts, InvParts DEF OnEnd, AllInv
<1>2. InFalls /\ Quiet /\ UpGains(r, "none")
    BY <1>1, TakeFalls, SameKinds, FallsGain, SameIsQuiet
<1>3. CASE local[r] # "absent"
    <2>1. /\ local'[r] = "absent" /\ outcome'[r] = "cancelled"
          /\ \A c \in Clients \ {r} : local'[c] = local[c] /\ outcome'[c] = outcome[c]
        BY <1>1, <1>3, ForgetAt DEF Outcomes
    <2>2. OnlyAt(r) BY <1>1, <1>2, <2>1 DEF OnlyAt
    <2>3. QED BY <1>1, <1>2, <1>3, <2>1, <2>2, DropKeeps
<1>4. CASE local[r] = "absent"
    <2>1. UNCHANGED <<local, outcome>> BY <1>1, <1>4
    <2>2. OnlyAt(r) BY <1>1, <1>2, <2>1 DEF OnlyAt
    <2>3. QED BY <1>1, <1>2, <2>1, <2>2, NothingKeeps
<1>5. QED BY <1>3, <1>4

\* r takes the file in, with the offer or with the user's /accept.
LEMMA TakesIn ==
    ASSUME AllInv, Inv', NEW r \in Receivers, OnlyAt(r),
           outcome'[r] = "none", outcome[r] = "none", r \in Addressed,
           next[r] = 0, next'[r] = 0,
           NEW to \in {"PendingOffer", "Receiving"}, local'[r] = to,
           local[r] = "absent" => ~NoOfferIn(r),
           NEW new, UpGains(r, new), new \notin {"reject", "ackRejected", "abort"}
    PROVE  /\ ViewInv' /\ TruthInv'
           /\ Promise!Comes(r, IF to = "Receiving" THEN "receiving" ELSE "asked")
<1>1. OffersPass BY OnlyAtPasses
<1>2. Addressed' = Addressed BY DEF OnlyAt, Addressed, Broadcast
<1>3. Holds(r)' BY <1>1, <1>2 DEF Holds
<1>4. ViewInv' /\ TruthInv' BY <1>3, StoreKeeps
<1>5. next \in [Receivers -> 0 .. TotalChunks] BY NextTypes DEF AllInv
<1>6. next' \in [Receivers -> 0 .. TotalChunks]
    BY DEF Inv, TypeInv, FlowTypeOK, TypeOK, TotalChunks
<1>7. Promise!Comes(r, ReceiverView(r)') BY <1>5, <1>6, ReceiverComes
<1>8. ReceiverView(r)' = IF to = "Receiving" THEN "receiving" ELSE "asked"
    BY DEF ReceiverView
<1>9. QED BY <1>4, <1>7, <1>8

LEMMA InsertAt ==
    ASSUME AllInv, NEW r \in Receivers, NEW to \in LocalStates,
           local' = [local EXCEPT ![r] = to], next' = [next EXCEPT ![r] = 0]
    PROVE  /\ local'[r] = to /\ next'[r] = 0
           /\ \A c \in Clients \ {r} : local'[c] = local[c]
           /\ \A s \in Receivers \ {r} : next'[s] = next[s]
<1>1. ClientTypes /\ r \in Clients BY InvParts, SetFacts DEF AllInv
<1>2. QED BY <1>1 DEF ClientTypes

LEMMA AcceptKeeps ==
    ASSUME AllInv, Inv', NEW r \in Receivers, Accept(r), UNCHANGED flow
    PROVE  StepKeeps
<1>1. /\ local[r] = "PendingOffer" /\ Send(r, Packet("accept"))
      /\ local' = [local EXCEPT ![r] = "Receiving"] /\ next' = [next EXCEPT ![r] = 0]
      /\ UNCHANGED <<target, outcome, packets, frames, flow>>
    BY DEF Accept, SendAccept, MoveToIncoming
<1>2. /\ local'[r] = "Receiving" /\ next'[r] = 0
      /\ \A c \in Clients \ {r} : local'[c] = local[c]
      /\ \A s \in Receivers \ {r} : next'[s] = next[s]
    BY <1>1, InsertAt DEF LocalStates
<1>3. UpGains(r, "accept") /\ uplink'[Sender] = uplink[Sender]
    BY <1>1, SendAt DEF Kinds
<1>4. OnlyAt(r) BY <1>1, <1>2, <1>3, SameKinds DEF OnlyAt, Quiet
<1>5. r \in Addressed /\ outcome[r] = "none" /\ next[r] = 0
    BY <1>1 DEF AllInv, ViewInv, Holds
<1>6. ViewInv' /\ TruthInv' /\ Promise!Comes(r, "receiving")
    BY <1>1, <1>2, <1>3, <1>4, <1>5, TakesIn
<1>7. Promise!Agree(r) BY <1>1, <1>6, ViewRead DEF Promise!Agree
<1>8. QED BY <1>6, <1>7 DEF StepKeeps, PromiseStep, Promise!PromiseNext

\* An offer finds a receiver that may still be asked.
LEMMA MayAsk ==
    ASSUME AllInv, NEW r \in Receivers, ~NoOfferIn(r),
           NEW to \in {"asked", "receiving"}, Promise!Comes(r, to)
    PROVE  Promise!Ask(r)
<1>1. r \in Addressed /\ outcome[r] = "none" /\ next[r] = 0
    BY DEF AllInv, ViewInv, Holds
<1>2. local[r] = "absent" /\ ~Fresh BY DEF AllInv, Inv, OfferOnce, Untouched
<1>3. [s \in Receivers |-> ReceiverView(s)][r] = "unaware" BY <1>1, <1>2, ViewRead
<1>4. SenderView # "idle"
    BY <1>2 DEF SenderView, Fresh, AllInv, ViewInv, SenderDone, Promise!SenderEnds
<1>5. SenderView = "refused" => target = Everyone
    <2>1. SenderView = "refused" => outcome[Sender] = "refused" BY DEF SenderView
    <2>2. ASSUME outcome[Sender] = "refused", target # Everyone PROVE FALSE
        <3>1. target = r BY <1>1, <2>2 DEF Addressed, Broadcast
        <3>2. Settled(r) BY <2>2, <3>1 DEF AllInv, TruthInv, Refusals, Refused
        <3>3. QED BY <3>2 DEF Settled
    <2>3. QED BY <2>1, <2>2
<1>6. QED
    BY <1>1, <1>3, <1>4, <1>5
       DEF Promise!Ask, Promise!ViewOpen, Promise!Addressed, Promise!Broadcast,
           Addressed, Broadcast

LEMMA OnOfferKeeps ==
    ASSUME AllInv, Inv', NEW r \in Receivers, OnOffer(r), UNCHANGED flow
    PROVE  StepKeeps
<1>1. /\ Take(r, "offer")
      /\ UNCHANGED <<target, outcome, frames, flow>>
      /\ r \in Clients /\ WireTypes
    BY SetFacts, InvParts DEF OnOffer, AllInv
<1>2. InFalls /\ InHas(r, "offer") BY <1>1, TakeFalls
<1>3. ~NoOfferIn(r) BY <1>2, KindsFacts DEF KindsRead
<1>4. r \in Addressed /\ outcome[r] = "none" /\ next[r] = 0
    BY <1>3 DEF AllInv, ViewInv, Holds
<1>5. \E to \in {"PendingOffer", "Receiving"}, new \in {"accept", "none"} :
          /\ local' = [local EXCEPT ![r] = to] /\ next' = [next EXCEPT ![r] = 0]
          /\ UpGains(r, new) /\ uplink'[Sender] = uplink[Sender]
    <2>1. CASE r \in AutoAccept
        <3>1. /\ local' = [local EXCEPT ![r] = "Receiving"]
              /\ next' = [next EXCEPT ![r] = 0]
              /\ Send(r, Packet("accept"))
            BY <2>1 DEF OnOffer, SendAccept, MoveToIncoming
        <3>2. QED BY <3>1, SendAt DEF Kinds
    <2>2. CASE r \notin AutoAccept
        <3>1. /\ local' = [local EXCEPT ![r] = "PendingOffer"]
              /\ next' = [next EXCEPT ![r] = 0]
              /\ UNCHANGED uplink
            BY <2>2 DEF OnOffer, InsertPendingOffer
        <3>2. UpGains(r, "none") BY <3>1, SameKinds, FallsGain
        <3>3. QED BY <3>1, <3>2
    <2>3. QED BY <2>1, <2>2
<1>6. PICK to \in {"PendingOffer", "Receiving"}, new \in {"accept", "none"} :
          /\ local' = [local EXCEPT ![r] = to] /\ next' = [next EXCEPT ![r] = 0]
          /\ UpGains(r, new) /\ uplink'[Sender] = uplink[Sender]
    BY <1>5
<1>7. /\ local'[r] = to /\ next'[r] = 0
      /\ \A c \in Clients \ {r} : local'[c] = local[c]
      /\ \A s \in Receivers \ {r} : next'[s] = next[s]
    BY <1>6, InsertAt DEF LocalStates
<1>8. OnlyAt(r) BY <1>1, <1>2, <1>6, <1>7 DEF OnlyAt, Quiet
<1>9. /\ ViewInv' /\ TruthInv'
      /\ Promise!Comes(r, IF to = "Receiving" THEN "receiving" ELSE "asked")
    BY <1>1, <1>3, <1>4, <1>6, <1>7, <1>8, TakesIn
<1>10. Promise!Ask(r) BY <1>3, <1>9, MayAsk
<1>11. QED BY <1>9, <1>10 DEF StepKeeps, PromiseStep, Promise!PromiseNext

LEMMA OnCompleteKeeps ==
    ASSUME AllInv, NEW r \in Receivers, OnComplete(r), UNCHANGED flow
    PROVE  StepKeeps
<1>1. /\ Take(r, "complete")
      /\ UNCHANGED <<target, next, frames, flow>>
      /\ r \in Clients /\ WireTypes
    BY SetFacts, InvParts DEF OnComplete, AllInv
<1>2. InFalls /\ Quiet BY <1>1, TakeFalls, SameIsQuiet
<1>3. ASSUME NEW why \in {"saved", "incomplete"}, NEW ack \in {"ackOk", "ackRejected"},
             local[r] = "Receiving", Forget(r, why), Send(r, Packet(ack)),
             why = "saved" => ack = "ackOk" /\ next[r] = TotalChunks,
             why = "incomplete" => next[r] # TotalChunks
      PROVE  StepKeeps
    <2>1. /\ local'[r] = "absent" /\ outcome'[r] = why
          /\ \A c \in Clients \ {r} : local'[c] = local[c] /\ outcome'[c] = outcome[c]
        BY <1>3, ForgetAt DEF Outcomes
    <2>2. UpGains(r, ack) /\ uplink'[Sender] = uplink[Sender] BY <1>3, SendAt DEF Kinds
    <2>3. OnlyAt(r) BY <1>1, <1>2, <2>1, <2>2 DEF OnlyAt
    <2>4. outcome'[r] \in Promise!ViewEnds BY <2>1 DEF Promise!ViewEnds
    <2>5. ack \in {"reject", "ackRejected", "abort"} => outcome'[r] # "saved"
        BY <1>3, <2>1
    <2>6. /\ ViewInv' /\ TruthInv' /\ Promise!Comes(r, why)
          /\ [s \in Receivers |-> ReceiverView(s)][r] = "receiving"
        BY <1>1, <1>3, <2>1, <2>2, <2>3, <2>4, <2>5, LetsGo
    <2>7. Promise!Save(r) \/ Promise!Miss(r)
        BY <1>3, <2>6 DEF Promise!Save, Promise!Miss, Promise!TotalChunks, TotalChunks
    <2>8. QED BY <2>6, <2>7 DEF StepKeeps, PromiseStep, Promise!PromiseNext
<1>4. CASE local[r] = "Receiving" BY <1>3, <1>4 DEF OnComplete, FileComplete
<1>5. CASE local[r] # "Receiving"
    <2>1. UNCHANGED <<local, outcome, uplink>> BY <1>5 DEF OnComplete
    <2>2. UpGains(r, "none") BY <2>1, SameKinds, FallsGain
    <2>3. OnlyAt(r) BY <1>1, <1>2, <2>1 DEF OnlyAt
    <2>4. QED BY <1>1, <2>1, <2>2, <2>3, NothingKeeps
<1>6. QED BY <1>4, <1>5

LEMMA OnChunkKeeps ==
    ASSUME AllInv, OrderInv', NEW r \in Receivers, OnChunk(r), UNCHANGED flow
    PROVE  StepKeeps
<1>1. /\ frames[r] # <<>>
      /\ UNCHANGED <<target, packets, flow>>
      /\ frames[r] \in Seq(0 .. Chunks)
      /\ \A s \in Receivers \ {r} : frames'[s] = frames[s] /\ next'[s] = next[s]
    <2>1. WireTypes /\ ClientTypes BY InvParts DEF AllInv
    <2>2. QED BY <2>1 DEF OnChunk, ApplyChunk, WireTypes, ClientTypes
<1>2. InFalls /\ Quiet BY <1>1, SameKinds DEF Quiet
<1>3. CASE local[r] = "Receiving" /\ ValidChunk(r, Head(frames[r]))
    <2>1. ApplyChunk(r) /\ UNCHANGED <<local, outcome, uplink>> BY <1>3 DEF OnChunk
    <2>2. UpGains(r, "none") BY <2>1, SameKinds, FallsGain
    <2>3. next \in [Receivers -> 0 .. TotalChunks] BY NextTypes DEF AllInv
    <2>4. OnlyAt(r) BY <1>1, <1>2, <2>1 DEF OnlyAt
    <2>5. OffersPass BY <2>2, <2>4, OnlyAtPasses
    <2>6. ~Ahead /\ NoOfferIn(r)
        BY <1>3 DEF AllInv, Inv, OfferOnce, Untouched, Ahead
    <2>7. Addressed' = Addressed BY <1>1 DEF Addressed, Broadcast
    <2>8. Holds(r)'
        BY <1>3, <2>1, <2>5, <2>6, <2>7 DEF AllInv, ViewInv, Holds, OffersPass
    <2>9. ViewInv' /\ TruthInv' BY <2>1, <2>2, <2>4, <2>8, StoreKeeps
    <2>10. Len(frames[r]) >= 1 /\ Head(frames[r]) = frames[r][1] /\ Len(frames[r]) \in Nat
        BY <1>1, TailFacts
    <2>11. 1 \in 1 .. Len(frames[r]) BY <2>10
    <2>12. frames[r][1] < Chunks BY <2>11 DEF AllInv, OrderInv, FollowsFile, InStep
    <2>13. next[r] < Chunks BY <1>3, <2>10, <2>12 DEF ValidChunk
    <2>14. SenderView' = SenderView BY <1>1, <2>1 DEF SenderView
    <2>15. \A s \in Receivers : ReceiverView(s)' = ReceiverView(s)
        BY <2>1 DEF ReceiverView
    <2>16. [s \in Receivers |-> ReceiverView(s)][r] = "receiving" BY <1>3, ViewRead
    <2>17. SenderView # "unsent"
        BY <1>1 DEF SenderView, AllInv, TruthInv, NothingSent, HoldingBack
    <2>18. Promise!Get(r)
        BY <1>1, <2>1, <2>13, <2>14, <2>15, <2>16, <2>17 DEF Promise!Get, ApplyChunk
    <2>19. QED BY <2>9, <2>18 DEF StepKeeps, PromiseStep, Promise!PromiseNext
<1>4. CASE local[r] = "Receiving" /\ ~ValidChunk(r, Head(frames[r]))
    <2>1. Forget(r, "broken") /\ Send(r, Packet("abort")) /\ UNCHANGED next
        BY <1>4 DEF OnChunk, FailIncoming
    <2>2. /\ local'[r] = "absent" /\ outcome'[r] = "broken"
          /\ \A c \in Clients \ {r} : local'[c] = local[c] /\ outcome'[c] = outcome[c]
        BY <2>1, ForgetAt DEF Outcomes
    <2>3. UpGains(r, "abort") /\ uplink'[Sender] = uplink[Sender]
        BY <2>1, SendAt DEF Kinds
    <2>4. OnlyAt(r) BY <1>1, <1>2, <2>1, <2>2, <2>3 DEF OnlyAt
    <2>5. outcome'[r] \in Promise!ViewEnds BY <2>2 DEF Promise!ViewEnds
    <2>6. /\ ViewInv' /\ TruthInv' /\ Promise!Comes(r, "broken")
          /\ [s \in Receivers |-> ReceiverView(s)][r] = "receiving"
        BY <1>4, <2>1, <2>2, <2>3, <2>4, <2>5, LetsGo
    <2>7. Broadcast /\ next[r] = 0
        BY <1>1, <2>1, <2>2 DEF OrderInv, FollowsFile, Begins, Broadcast
    <2>8. Promise!Break(r)
        BY <2>6, <2>7 DEF Promise!Break, Promise!Broadcast, Broadcast
    <2>9. QED BY <2>6, <2>8 DEF StepKeeps, PromiseStep, Promise!PromiseNext
<1>5. CASE local[r] # "Receiving"
    <2>1. UNCHANGED <<local, outcome, uplink, next>> BY <1>5 DEF OnChunk
    <2>2. UpGains(r, "none") BY <2>1, SameKinds, FallsGain
    <2>3. OnlyAt(r) BY <1>1, <1>2, <2>1 DEF OnlyAt
    <2>4. QED BY <1>1, <2>1, <2>2, <2>3, NothingKeeps
<1>6. QED BY <1>3, <1>4, <1>5

-----------------------------------------------------------------------------
(* The sender                                                              *)

\* What the sender does leaves the receivers alone.
ReceiversSame ==
    /\ UNCHANGED <<target, next>>
    /\ \A r \in Receivers : local'[r] = local[r] /\ outcome'[r] = outcome[r]
    /\ \A r \in Receivers : uplink'[r] = uplink[r]
    /\ InFalls

LEMMA SenderKeeps ==
    ASSUME AllInv, ReceiversSame, SenderDone', Ahead' => Ahead,
           RefusalIn' => RefusalIn, outcome'[Sender] = "refused" => Refused
    PROVE  /\ OffersPass /\ FilesStay
           /\ ViewInv' /\ Refusals'
<1>1. KindsRead /\ KindsRead' BY KindsNext
<1>2. \A r \in Receivers : ~NoOfferIn(r)' => ~NoOfferIn(r)
    BY <1>1, SetFacts DEF ReceiversSame, InFalls, KindsRead
<1>3. OffersPass BY <1>2 DEF OffersPass
<1>4. FilesStay BY DEF FilesStay, ReceiversSame
<1>5. \A r \in Receivers : Holds(r)'
    BY <1>3, HoldsSame DEF AllInv, ViewInv, ReceiversSame
<1>6. ViewInv' BY <1>5 DEF ViewInv
<1>7. LossesTrue BY DEF LossesTrue, LossUp, UpHas, ReceiversSame
<1>8. RefusalsTrue BY DEF RefusalsTrue, Refused
<1>9. Refusals'
    BY <1>3, <1>4, <1>7, <1>8, RefusalsKept DEF AllInv, TruthInv, ReceiversSame
<1>10. QED BY <1>3, <1>4, <1>6, <1>9

LEMMA SessionKeeps ==
    ASSUME AllInv, ReceiversSame, SenderDone', Ahead' => Ahead,
           flow = "none", UNCHANGED flow, outcome'[Sender] = "refused" => Refused
    PROVE  ViewInv' /\ TruthInv'
<1>1. RefusalIn' => RefusalIn
    BY SetFacts DEF ReceiversSame, InFalls, RefusalIn
<1>2. ViewInv' /\ Refusals' BY <1>1, SenderKeeps
<1>3. NothingSent' BY DEF NothingSent, HoldingBack, SenderDone
<1>4. QED BY <1>2, <1>3 DEF TruthInv

LEMMA SenderUnseen ==
    ASSUME ReceiversSame, SenderView' = SenderView
    PROVE  PromiseStep
<1>1. \A r \in Receivers : ReceiverView(r)' = ReceiverView(r)
    BY DEF ReceiversSame, ReceiverView
<1>2. QED BY <1>1, Unseen DEF PromiseStep, ReceiversSame

LEMMA SenderComes ==
    ASSUME ReceiversSame
    PROVE  Promise!SenderComes(SenderView')
<1>1. \A r \in Receivers : ReceiverView(r)' = ReceiverView(r)
    BY DEF ReceiversSame, ReceiverView
<1>2. QED BY <1>1 DEF Promise!SenderComes, ReceiversSame

\* The ends of the sender, once its offer is out.
LEMMA SenderEnd ==
    ASSUME AllInv, ReceiversSame, outcome[Sender] = "none",
           NEW why \in Promise!SenderEnds, outcome'[Sender] = why,
           why = "delivered" => ~Fresh /\ AckIn,
           why = "refused" => ~Fresh /\ Refused,
           why = "unsent" => ~Fresh /\ HoldingBack
    PROVE  PromiseStep
<1>1. SenderView' = why BY DEF SenderView, Promise!SenderEnds
<1>2. Promise!SenderComes(why) BY <1>1, SenderComes
<1>3. SenderView \in {"idle", "offered"} /\ (~Fresh => SenderView = "offered")
    BY DEF SenderView, Fresh
<1>4. CASE why = "delivered"
    <2>1. PICK r \in Receivers : Saved(r)
        BY <1>4 DEF AllInv, Inv, AcksAreTrue
    <2>2. local[r] = "absent" /\ outcome[r] = "saved"
        BY <2>1 DEF Saved, AllInv, Inv, AcksAreTrue
    <2>3. [s \in Receivers |-> ReceiverView(s)][r] = "saved" BY <2>2, ViewRead
    <2>4. Promise!Deliver BY <1>2, <1>3, <1>4, <2>3 DEF Promise!Deliver
    <2>5. QED BY <2>4 DEF PromiseStep, Promise!PromiseNext
<1>5. CASE why = "refused"
    <2>1. ASSUME NEW r \in Receivers, target = r
          PROVE  [s \in Receivers |-> ReceiverView(s)][r]
                     \notin Promise!ViewOpen \cup {"saved"}
        <3>1. Settled(r) BY <1>5, <2>1 DEF AllInv, TruthInv, Refusals
        <3>2. local[r] = "absent" /\ outcome[r] # "saved"
            BY <3>1 DEF Settled, Untouched, Saved
        <3>3. outcome[r] \in {"none"} \cup Promise!ViewEnds BY DEF AllInv, ViewInv, Holds
        <3>4. QED BY <3>2, <3>3, ViewRead DEF Promise!ViewOpen, Promise!ViewEnds
    <2>2. Promise!Refuse BY <1>2, <1>3, <1>5, <2>1 DEF Promise!Refuse
    <2>3. QED BY <2>2 DEF PromiseStep, Promise!PromiseNext
<1>6. CASE why = "unsent"
    <2>1. \A r \in Receivers : next[r] = 0 BY <1>6 DEF AllInv, TruthInv, NothingSent
    <2>2. Promise!Withdraw BY <1>2, <1>3, <1>6, <2>1 DEF Promise!Withdraw
    <2>3. QED BY <2>2 DEF PromiseStep, Promise!PromiseNext
<1>7. CASE why \in {"cancelled", "failed", "disconnected"}
    <2>1. Promise!GiveUp(why)
        BY <1>2, <1>3 DEF Promise!GiveUp, Promise!SenderOpen
    <2>2. QED BY <1>7, <2>1 DEF PromiseStep, Promise!PromiseNext
<1>8. QED BY <1>4, <1>5, <1>6, <1>7 DEF Promise!SenderEnds

\* The session's store lets go of the file it was sending.
LEMMA SessionEnds ==
    ASSUME AllInv, ReceiversSame, flow = "none", UNCHANGED flow,
           local[Sender] # "absent", NEW why \in Promise!SenderEnds \ {"unsent"},
           local'[Sender] = "absent", outcome'[Sender] = why,
           NoOfferUp => NoOfferUp',
           why = "delivered" => AckIn, why = "refused" => Refused
    PROVE  StepKeeps
<1>1. outcome[Sender] = "none" BY DEF AllInv, ViewInv, SenderDone
<1>2. ~Fresh /\ ~Fresh' BY DEF Fresh, Promise!SenderEnds
<1>3. SenderDone' BY DEF SenderDone
<1>4. Ahead' => Ahead BY <1>2 DEF Ahead
<1>5. ViewInv' /\ TruthInv' BY <1>3, <1>4, SessionKeeps
<1>6. PromiseStep BY <1>1, <1>2, SenderEnd
<1>7. QED BY <1>5, <1>6 DEF StepKeeps

\* The session goes on with its file, or without it.
LEMMA SessionGoesOn ==
    ASSUME AllInv, ReceiversSame, flow = "none", UNCHANGED flow,
           outcome'[Sender] = outcome[Sender],
           local'[Sender] = "absent" <=> local[Sender] = "absent",
           NoOfferUp => NoOfferUp'
    PROVE  StepKeeps
<1>1. Fresh' = Fresh BY DEF Fresh
<1>2. Ahead' => Ahead BY <1>1 DEF Ahead
<1>3. SenderDone' BY DEF AllInv, ViewInv, SenderDone
<1>4. outcome'[Sender] = "refused" => Refused BY DEF Refused
<1>5. ViewInv' /\ TruthInv' BY <1>2, <1>3, <1>4, SessionKeeps
<1>6. SenderView' = SenderView BY DEF SenderView
<1>7. QED BY <1>5, <1>6, SenderUnseen DEF StepKeeps

LEMMA NoOfferGained ==
    ASSUME NEW c, NEW new, UpGains(c, new), new # "offer"
    PROVE  NoOfferUp => NoOfferUp'
BY KindsNext, SetFacts DEF UpGains, KindsRead

LEMMA SenderForgets ==
    ASSUME AllInv, NEW why \in Outcomes, Forget(Sender, why)
    PROVE  /\ local'[Sender] = "absent" /\ outcome'[Sender] = why
           /\ \A r \in Receivers : local'[r] = local[r] /\ outcome'[r] = outcome[r]
<1>1. ClientTypes BY InvParts DEF AllInv
<1>2. \A r \in Receivers : r \in Clients \ {Sender} BY SetFacts
<1>3. QED BY <1>1, <1>2, SetFacts, ForgetTypes

LEMMA SenderSends ==
    ASSUME AllInv, NEW f \in Frame, Send(Sender, f)
    PROVE  UpGains(Sender, f.kind) /\ \A r \in Receivers : uplink'[r] = uplink[r]
<1>1. WireTypes BY InvParts DEF AllInv
<1>2. \A r \in Receivers : r \in Clients \ {Sender} BY SetFacts
<1>3. QED BY <1>1, <1>2, SetFacts, SendGains

LEMMA SessionOfferKeeps ==
    ASSUME AllInv, Offer, flow = "none", UNCHANGED flow
    PROVE  StepKeeps
<1>1. /\ local[Sender] = "absent" /\ outcome[Sender] = "none"
      /\ local' = [local EXCEPT ![Sender] = "WaitingAccept"]
      /\ Send(Sender, Packet("offer"))
      /\ UNCHANGED <<target, next, outcome, packets>>
    BY DEF Offer, InsertOutgoing
<1>2. ClientTypes BY InvParts DEF AllInv
<1>3. /\ local'[Sender] = "WaitingAccept"
      /\ \A r \in Receivers : local'[r] = local[r]
    BY <1>1, <1>2, SetFacts DEF ClientTypes
<1>4. \A r \in Receivers : uplink'[r] = uplink[r]
    BY <1>1, SenderSends, SetFacts DEF Kinds
<1>5. ReceiversSame BY <1>1, <1>3, <1>4, SameKinds DEF ReceiversSame
<1>6. Ahead BY <1>1 DEF Ahead, Fresh
<1>7. SenderDone' BY <1>1 DEF SenderDone, AllInv, ViewInv
<1>8. ViewInv' /\ TruthInv' BY <1>1, <1>5, <1>6, <1>7, SessionKeeps DEF Refused
<1>9. SenderView = "idle" /\ SenderView' = "offered" BY <1>1, <1>3 DEF SenderView
<1>10. Promise!Offer BY <1>5, <1>9, SenderComes DEF Promise!Offer
<1>11. QED BY <1>8, <1>10 DEF StepKeeps, PromiseStep, Promise!PromiseNext

LEMMA SessionAbortKeeps ==
    ASSUME AllInv, Abort(Sender), flow = "none", UNCHANGED flow
    PROVE  StepKeeps
<1>1. /\ local[Sender] # "absent" /\ Forget(Sender, "cancelled")
      /\ UNCHANGED uplink \/ Send(Sender, Packet("abort"))
      /\ UNCHANGED <<target, next, packets>>
    BY DEF Abort
<1>2. /\ local'[Sender] = "absent" /\ outcome'[Sender] = "cancelled"
      /\ \A r \in Receivers : local'[r] = local[r] /\ outcome'[r] = outcome[r]
    BY <1>1, SenderForgets DEF Outcomes
<1>3. UpGains(Sender, "abort") /\ \A r \in Receivers : uplink'[r] = uplink[r]
    <2>1. CASE UNCHANGED uplink BY <2>1, SameKinds, FallsGain
    <2>2. CASE Send(Sender, Packet("abort"))
        <3>1. Packet("abort") \in Frame /\ Packet("abort").kind = "abort"
            BY SetFacts DEF Kinds
        <3>2. QED BY <2>2, <3>1, SenderSends
    <2>3. QED BY <1>1, <2>1, <2>2
<1>4. NoOfferUp => NoOfferUp' BY <1>3, NoOfferGained
<1>5. ReceiversSame BY <1>1, <1>2, <1>3, SameKinds DEF ReceiversSame
<1>6. QED BY <1>1, <1>2, <1>4, <1>5, SessionEnds DEF Promise!SenderEnds

LEMMA SessionLeaveKeeps ==
    ASSUME AllInv, Leave(Sender), flow = "none", UNCHANGED flow
    PROVE  StepKeeps
<1>1. /\ Hangup(Sender) /\ packets' = [packets EXCEPT ![Sender] = <<>>]
      /\ UNCHANGED <<target, next>>
      /\ IF local[Sender] # "absent" THEN Forget(Sender, "disconnected")
                                     ELSE UNCHANGED <<local, outcome>>
      /\ WireTypes /\ ClientTypes
    BY InvParts DEF Leave, AllInv
<1>2. UpGains(Sender, "close") /\ \A r \in Receivers : uplink'[r] = uplink[r]
    BY <1>1, SetFacts, HangupGains
<1>3. InFalls BY <1>1, SetFacts, ClearFalls
<1>4. NoOfferUp => NoOfferUp' BY <1>2, NoOfferGained
<1>5. CASE local[Sender] # "absent"
    <2>1. /\ local'[Sender] = "absent" /\ outcome'[Sender] = "disconnected"
          /\ \A r \in Receivers : local'[r] = local[r] /\ outcome'[r] = outcome[r]
        BY <1>1, <1>5, SenderForgets DEF Outcomes
    <2>2. ReceiversSame BY <1>1, <1>2, <1>3, <2>1 DEF ReceiversSame
    <2>3. QED BY <1>4, <1>5, <2>1, <2>2, SessionEnds DEF Promise!SenderEnds
<1>6. CASE local[Sender] = "absent"
    <2>1. UNCHANGED <<local, outcome>> BY <1>1, <1>6
    <2>2. ReceiversSame BY <1>1, <1>2, <1>3, <2>1 DEF ReceiversSame
    <2>3. QED BY <1>4, <2>1, <2>2, SessionGoesOn
<1>7. QED BY <1>5, <1>6

\* The session takes a packet: it ends with its file, or goes on.
LEMMA SessionTakes ==
    ASSUME AllInv, flow = "none", UNCHANGED flow, NEW kind, Take(Sender, kind),
           UNCHANGED <<target, next, uplink>>,
           NEW why \in Promise!SenderEnds \ {"unsent"},
           \/ UNCHANGED <<local, outcome>>
           \/ local[Sender] # "absent" /\ Forget(Sender, why),
           why = "delivered" => kind = "ackOk",
           why = "refused" => kind \in {"reject", "ackRejected", "tooLarge"}
    PROVE  StepKeeps
<1>1. InFalls /\ InHas(Sender, kind) BY SetFacts, InvParts, TakeFalls DEF AllInv
<1>2. NoOfferUp => NoOfferUp' BY DEF NoOfferUp
<1>3. CASE UNCHANGED <<local, outcome>>
    <2>1. ReceiversSame BY <1>1, <1>3 DEF ReceiversSame
    <2>2. QED BY <1>2, <1>3, <2>1, SessionGoesOn
<1>4. CASE local[Sender] # "absent" /\ Forget(Sender, why)
    <2>1. /\ local'[Sender] = "absent" /\ outcome'[Sender] = why
          /\ \A r \in Receivers : local'[r] = local[r] /\ outcome'[r] = outcome[r]
        BY <1>4, SenderForgets DEF Outcomes, Promise!SenderEnds
    <2>2. ReceiversSame BY <1>1, <2>1 DEF ReceiversSame
    <2>3. why = "delivered" => AckIn BY <1>1 DEF InHas, AckIn
    <2>4. why = "refused" => Refused BY <1>1 DEF Refused, RefusalIn
    <2>5. QED BY <1>2, <1>4, <2>1, <2>2, <2>3, <2>4, SessionEnds
<1>5. QED BY <1>3, <1>4

LEMMA TransitionSame ==
    ASSUME AllInv, NEW from, NEW to \in LocalStates, from # "absent", to # "absent",
           TransitionTo(from, to)
    PROVE  /\ local'[Sender] = "absent" <=> local[Sender] = "absent"
           /\ \A r \in Receivers : local'[r] = local[r]
<1>1. ClientTypes BY InvParts DEF AllInv
<1>2. QED BY <1>1, SetFacts DEF TransitionTo, ClientTypes

LEMMA SessionLoopKeeps ==
    ASSUME AllInv, Loop(Sender), flow = "none", UNCHANGED flow
    PROVE  StepKeeps
<1>1. CASE OnAccept
    <2>1. /\ Take(Sender, "accept") /\ TransitionTo("WaitingAccept", "Sending")
          /\ UNCHANGED <<target, next, outcome, uplink>>
        BY <1>1 DEF OnAccept
    <2>2. InFalls BY <2>1, SetFacts, InvParts, TakeFalls DEF AllInv
    <2>3. /\ local'[Sender] = "absent" <=> local[Sender] = "absent"
          /\ \A r \in Receivers : local'[r] = local[r]
        BY <2>1, TransitionSame DEF LocalStates
    <2>4. ReceiversSame BY <2>1, <2>2, <2>3 DEF ReceiversSame
    <2>5. NoOfferUp => NoOfferUp' BY <2>1 DEF NoOfferUp
    <2>6. QED BY <2>1, <2>3, <2>4, <2>5, SessionGoesOn
<1>2. ASSUME NEW kind \in {"reject", "tooLarge", "abort"},
             OnEnd(Sender, kind, IF kind = "abort" THEN "cancelled" ELSE "refused")
      PROVE  StepKeeps
    <2> DEFINE why == IF kind = "abort" THEN "cancelled" ELSE "refused"
    <2>1. /\ Take(Sender, kind) /\ UNCHANGED <<target, next, uplink>>
          /\ \/ UNCHANGED <<local, outcome>>
             \/ local[Sender] # "absent" /\ Forget(Sender, why)
        BY <1>2 DEF OnEnd
    <2>2. /\ why \in Promise!SenderEnds \ {"unsent"} /\ why # "delivered"
          /\ why = "refused" => kind \in {"reject", "ackRejected", "tooLarge"}
        BY DEF Promise!SenderEnds
    <2> HIDE DEF why
    <2>3. QED BY <2>1, <2>2, SessionTakes
<1>3. CASE OnError
    <2>1. /\ Take(Sender, "error")
          /\ UNCHANGED <<target, next, local, outcome, uplink>>
        BY <1>3 DEF OnError, clientVars
    <2>2. "cancelled" \in Promise!SenderEnds \ {"unsent"} BY DEF Promise!SenderEnds
    <2>3. QED BY <2>1, <2>2, SessionTakes
<1>4. ASSUME NEW status \in {"delivered", "refused"}, OnAck(status)
      PROVE  StepKeeps
    <2> DEFINE kind == IF status = "delivered" THEN "ackOk" ELSE "ackRejected"
    <2>1. /\ Take(Sender, kind) /\ UNCHANGED <<target, next, uplink>>
          /\ \/ UNCHANGED <<local, outcome>>
             \/ local[Sender] # "absent" /\ Forget(Sender, status)
        BY <1>4 DEF OnAck
    <2>2. /\ status \in Promise!SenderEnds \ {"unsent"}
          /\ status = "delivered" => kind = "ackOk"
          /\ status = "refused" => kind \in {"reject", "ackRejected", "tooLarge"}
        BY DEF Promise!SenderEnds
    <2> HIDE DEF kind
    <2>3. QED BY <2>1, <2>2, SessionTakes
<1>5. Sender \notin Receivers BY SetFacts
<1>6. QED BY <1>1, <1>2, <1>3, <1>4, <1>5 DEF Loop

LEMMA SendTaskKeeps ==
    ASSUME AllInv, SendTask, flow = "none", UNCHANGED flow
    PROVE  StepKeeps
<1>1. UNCHANGED <<target, next, outcome, packets>>
    BY DEF SendTask, CheckOutgoing, PutChunk, PutComplete, AwaitAck, wireVars
<1>2. CASE CheckOutgoing \/ AwaitAck
    <2>1. UNCHANGED uplink /\ (UNCHANGED local \/ TransitionTo("Sending", "WaitingAck"))
        BY <1>2 DEF CheckOutgoing, AwaitAck, wireVars
    <2>2. /\ local'[Sender] = "absent" <=> local[Sender] = "absent"
          /\ \A r \in Receivers : local'[r] = local[r]
        BY <2>1, TransitionSame DEF LocalStates
    <2>3. ReceiversSame BY <1>1, <2>1, <2>2, SameKinds DEF ReceiversSame
    <2>4. NoOfferUp => NoOfferUp' BY <2>1 DEF NoOfferUp
    <2>5. QED BY <1>1, <2>2, <2>3, <2>4, SessionGoesOn
<1>3. CASE PutChunk \/ PutComplete
    <2>1. UNCHANGED local /\ \E f \in Frame : f.kind # "offer" /\ Send(Sender, f)
        <3>1. CASE PutChunk
            <4>1. task.at = "put" /\ Send(Sender, Chunk(task.pos)) /\ UNCHANGED local
                BY <3>1 DEF PutChunk
            <4>2. TaskType BY InvParts DEF AllInv
            <4>3. task.pos \in 0 .. Chunks BY <4>2 DEF TaskType
            <4>4. QED BY <4>1, <4>3, SetFacts
        <3>2. CASE PutComplete
            <4>1. Send(Sender, Packet("complete")) /\ UNCHANGED local
                BY <3>2 DEF PutComplete
            <4>2. QED BY <4>1, SetFacts DEF Kinds
        <3>3. QED BY <1>3, <3>1, <3>2
    <2>2. PICK f \in Frame : f.kind # "offer" /\ Send(Sender, f) BY <2>1
    <2>3. UpGains(Sender, f.kind) /\ \A r \in Receivers : uplink'[r] = uplink[r]
        BY <2>2, SenderSends
    <2>4. NoOfferUp => NoOfferUp' BY <2>2, <2>3, NoOfferGained
    <2>5. ReceiversSame BY <1>1, <2>1, <2>3, SameKinds DEF ReceiversSame
    <2>6. QED BY <1>1, <2>1, <2>4, <2>5, SessionGoesOn
<1>4. QED BY <1>2, <1>3 DEF SendTask

-----------------------------------------------------------------------------
(* The command                                                             *)

LEMMA FlowKeeps ==
    ASSUME AllInv, ReceiversSame, SenderDone', Ahead' => Ahead, UNCHANGED frames,
           outcome'[Sender] = "refused" => Refused,
           HoldingBack' => HoldingBack /\ (ChunkUp' => ChunkUp)
    PROVE  ViewInv' /\ TruthInv'
<1>1. RefusalIn' => RefusalIn
    BY SetFacts DEF ReceiversSame, InFalls, RefusalIn
<1>2. ViewInv' /\ Refusals' BY <1>1, SenderKeeps
<1>3. CASE HoldingBack'
    BY <1>2, <1>3, SameIsQuiet, NothingSentKept DEF AllInv, TruthInv, ReceiversSame
<1>4. CASE ~HoldingBack' BY <1>2, <1>4 DEF NothingSent, TruthInv
<1>5. QED BY <1>3, <1>4

LEMMA CommandOfferKeeps ==
    ASSUME AllInv, SendOffer
    PROVE  StepKeeps
<1>1. /\ flow = "start" /\ flow' = "accept"
      /\ Send(Sender, Packet("offer"))
      /\ UNCHANGED <<target, next, local, outcome, packets, frames>>
    BY DEF SendOffer, Goes, clientVars
<1>2. Packet("offer") \in Frame /\ Packet("offer").kind = "offer"
    BY SetFacts DEF Kinds
<1>3. UpGains(Sender, "offer") /\ \A r \in Receivers : uplink'[r] = uplink[r]
    BY <1>1, <1>2, SenderSends
<1>4. ReceiversSame BY <1>1, <1>3, SameKinds DEF ReceiversSame
<1>5. Ahead /\ outcome[Sender] = "none"
    BY <1>1 DEF Ahead, Fresh, AllInv, ViewInv, SenderDone
<1>6. SenderDone' BY <1>1, <1>5 DEF SenderDone, Promise!SenderEnds
<1>7. HoldingBack /\ (ChunkUp' => ChunkUp)
    BY <1>1, <1>3, SetFacts DEF HoldingBack, ChunkUp, UpGains
<1>8. ViewInv' /\ TruthInv' BY <1>1, <1>4, <1>5, <1>6, <1>7, FlowKeeps
<1>9. SenderView = "idle" /\ SenderView' = "offered"
    <2>1. local[Sender] = "absent" BY <1>1 DEF AllInv, OrderInv, SenderFits
    <2>2. QED BY <1>1, <1>5, <2>1 DEF SenderView
<1>10. Promise!Offer BY <1>4, <1>9, SenderComes DEF Promise!Offer
<1>11. QED BY <1>8, <1>10 DEF StepKeeps, PromiseStep, Promise!PromiseNext

\* The command waits, or goes on to its next stage.
LEMMA FlowGoesOn ==
    ASSUME AllInv, ReceiversSame, flow \notin {"none", "start", "ended"},
           flow' \notin {"none", "start", "ended"}, UNCHANGED <<outcome, frames>>,
           Ahead' => Ahead, HoldingBack' => HoldingBack /\ (ChunkUp' => ChunkUp)
    PROVE  StepKeeps
<1>1. outcome[Sender] = "none" BY DEF AllInv, ViewInv, SenderDone
<1>2. SenderDone' BY <1>1 DEF SenderDone
<1>3. ViewInv' /\ TruthInv' BY <1>1, <1>2, FlowKeeps
<1>4. SenderView' = SenderView BY <1>1 DEF SenderView
<1>5. QED BY <1>3, <1>4, SenderUnseen DEF StepKeeps

LEMMA FlowTakes ==
    ASSUME AllInv, FirstAccept \/ GraceOver \/ Dispatch
    PROVE  StepKeeps
<1>1. /\ UNCHANGED <<target, next, local, outcome, uplink, frames>>
      /\ \/ UNCHANGED packets
         \/ Take(Sender, "accept") \/ Take(Sender, "reject")
      /\ \/ flow \in {"accept", "grace"} /\ flow' \in {"grace", "send"}
         \/ flow = "ack" /\ flow' = "ack"
    BY DEF FirstAccept, GraceOver, Dispatch, Goes, clientVars, vars, wireVars
<1>2. InFalls BY <1>1, SetFacts, SameKinds, InvParts, TakeFalls DEF AllInv
<1>3. ReceiversSame BY <1>1, <1>2 DEF ReceiversSame
<1>4. (NoOfferUp => NoOfferUp') /\ (ChunkUp' => ChunkUp)
    BY <1>1 DEF NoOfferUp, ChunkUp, UpHas
<1>5. Ahead' => Ahead BY <1>1, <1>4 DEF Ahead, Fresh
<1>6. HoldingBack' => HoldingBack BY <1>1 DEF HoldingBack
<1>7. QED BY <1>1, <1>3, <1>4, <1>5, <1>6, FlowGoesOn

LEMMA EverythingConcat ==
    ASSUME NEW q \in Seq(Frame)
    PROVE  /\ Len(q \o Everything) = Len(q) + Len(Everything) /\ Len(q) \in Nat
           /\ \A i \in 1 .. Len(q) : (q \o Everything)[i] = q[i]
           /\ \A i \in 1 .. Len(Everything) : (q \o Everything)[Len(q) + i] = Everything[i]
<1>1. Everything \in Seq(Frame) BY EverythingChunks
<1>2. QED BY <1>1, ConcatFacts

\* What SendAll puts on the wire
LEMMA EverythingUp ==
    ASSUME NEW q \in Seq(Frame), NEW i \in 1 .. Len(q \o Everything)
    PROVE  \/ \E j \in 1 .. Len(q) : (q \o Everything)[i] = q[j]
           \/ (q \o Everything)[i].kind \in {"chunk", "complete"}
<1>1. /\ Everything \in Seq(Frame) /\ Len(Everything) = Chunks + 1 /\ Chunks \in Nat
      /\ \A k \in 1 .. Chunks : Everything[k].kind = "chunk"
      /\ Everything[Chunks + 1].kind = "complete"
    BY EverythingChunks, SetFacts
<1>2. /\ Len(q \o Everything) = Len(q) + Len(Everything) /\ Len(q) \in Nat
      /\ \A k \in 1 .. Len(q) : (q \o Everything)[k] = q[k]
      /\ \A k \in 1 .. Len(Everything) : (q \o Everything)[Len(q) + k] = Everything[k]
    BY EverythingConcat
<1>3. CASE i \in 1 .. Len(q) BY <1>2, <1>3
<1>4. CASE i \notin 1 .. Len(q)
    <2>1. i - Len(q) \in 1 .. Len(Everything) /\ Len(q) + (i - Len(q)) = i
        BY <1>1, <1>2, <1>4
    <2>2. (q \o Everything)[i] = Everything[i - Len(q)] BY <1>2, <2>1
    <2>3. i - Len(q) \in 1 .. Chunks \/ i - Len(q) = Chunks + 1 BY <1>1, <2>1
    <2>4. QED BY <1>1, <2>2, <2>3
<1>5. QED BY <1>3, <1>4

LEMMA SendAllKeeps ==
    ASSUME AllInv, SendAll
    PROVE  StepKeeps
<1>1. /\ flow = "send" /\ flow' = "ack"
      /\ uplink' = [uplink EXCEPT ![Sender] = uplink[Sender] \o Everything]
      /\ UNCHANGED <<target, next, local, outcome, packets, frames>>
      /\ WireTypes
    BY InvParts DEF SendAll, Goes, clientVars, AllInv
<1>2. /\ uplink[Sender] \in Seq(Frame)
      /\ uplink'[Sender] = uplink[Sender] \o Everything
      /\ \A r \in Receivers : uplink'[r] = uplink[r]
    BY <1>1, SetFacts DEF WireTypes
<1>3. ReceiversSame BY <1>1, <1>2, SameKinds DEF ReceiversSame
<1>4. ASSUME UpHas(Sender, "offer")' PROVE UpHas(Sender, "offer")
    <2>1. PICK i \in 1 .. Len(uplink'[Sender]) : uplink'[Sender][i].kind = "offer"
        BY <1>4 DEF UpHas
    <2>2. \E j \in 1 .. Len(uplink[Sender]) : uplink'[Sender][i] = uplink[Sender][j]
        BY <1>2, <2>1, EverythingUp
    <2>3. QED BY <2>1, <2>2 DEF UpHas
<1>5. NoOfferUp => NoOfferUp' BY <1>4, KindsNext DEF KindsRead
<1>6. Ahead' => Ahead BY <1>1, <1>5 DEF Ahead, Fresh
<1>7. ~HoldingBack' BY <1>1 DEF HoldingBack, AllInv, ViewInv, SenderDone
<1>8. QED BY <1>1, <1>3, <1>6, <1>7, FlowGoesOn

\* The command hangs up, or has lost its connection already.
LEMMA HangupQuiet ==
    ASSUME AllInv, Hangup(Sender) \/ UNCHANGED uplink
    PROVE  /\ \A r \in Receivers : uplink'[r] = uplink[r]
           /\ NoOfferUp => NoOfferUp'
           /\ ChunkUp' => ChunkUp
<1>1. WireTypes /\ ClientTypes /\ Sender \in Clients BY InvParts, SetFacts DEF AllInv
<1>2. \A r \in Receivers : r \in Clients \ {Sender} BY SetFacts
<1>3. UpGains(Sender, "close") BY <1>1, HangupGains, SameKinds, FallsGain
<1>4. QED BY <1>1, <1>2, <1>3, HangupGains, NoOfferGained DEF UpGains, ChunkUp

LEMMA LoseConnectionKeeps ==
    ASSUME AllInv, LoseConnection
    PROVE  StepKeeps
<1>1. /\ flow \notin {"none", "ended"} /\ Hangup(Sender)
      /\ UNCHANGED <<target, local, next, outcome, packets, frames, flow>>
    BY DEF LoseConnection
<1>2. /\ \A r \in Receivers : uplink'[r] = uplink[r]
      /\ (NoOfferUp => NoOfferUp') /\ (ChunkUp' => ChunkUp)
    BY <1>1, HangupQuiet
<1>3. ReceiversSame BY <1>1, <1>2, SameKinds DEF ReceiversSame
<1>4. Ahead' => Ahead BY <1>1, <1>2 DEF Ahead, Fresh
<1>5. SenderDone' BY <1>1 DEF SenderDone, AllInv, ViewInv
<1>6. HoldingBack' => HoldingBack BY <1>1 DEF HoldingBack
<1>7. outcome'[Sender] = "refused" => Refused BY <1>1 DEF Refused
<1>8. ViewInv' /\ TruthInv' BY <1>1, <1>2, <1>3, <1>4, <1>5, <1>6, <1>7, FlowKeeps
<1>9. SenderView' = SenderView BY <1>1 DEF SenderView
<1>10. QED BY <1>3, <1>8, <1>9, SenderUnseen DEF StepKeeps

LEMMA ExitKeeps ==
    ASSUME AllInv, flow \notin {"none", "ended"}, NEW why \in Promise!SenderEnds, Exit(why),
           why = "delivered" => ~Fresh /\ AckIn,
           why = "refused" => ~Fresh /\ Refused,
           why = "unsent" => flow = "accept"
    PROVE  StepKeeps
<1>1. /\ flow' = "ended"
      /\ outcome' = [outcome EXCEPT ![Sender] = why]
      /\ packets' = [packets EXCEPT ![Sender] = <<>>]
      /\ Hangup(Sender) \/ UNCHANGED uplink
      /\ UNCHANGED <<target, local, next, frames>>
      /\ WireTypes /\ ClientTypes /\ Sender \in Clients
    BY InvParts, SetFacts DEF Exit, Goes, AllInv
<1>2. outcome'[Sender] = why /\ \A r \in Receivers : outcome'[r] = outcome[r]
    BY <1>1, SetFacts DEF ClientTypes
<1>3. /\ \A r \in Receivers : uplink'[r] = uplink[r]
      /\ (NoOfferUp => NoOfferUp') /\ (ChunkUp' => ChunkUp)
    BY <1>1, HangupQuiet
<1>4. InFalls BY <1>1, ClearFalls
<1>5. ReceiversSame BY <1>1, <1>2, <1>3, <1>4 DEF ReceiversSame
<1>6. Ahead' => Ahead BY <1>1, <1>3 DEF Ahead, Fresh
<1>7. local[Sender] = "absent" /\ outcome[Sender] = "none"
    BY DEF AllInv, OrderInv, SenderFits, ViewInv, SenderDone
<1>8. SenderDone' BY <1>1, <1>2, <1>7 DEF SenderDone, Promise!SenderEnds
<1>9. HoldingBack' => HoldingBack BY <1>1, <1>2 DEF HoldingBack
<1>10. ViewInv' /\ TruthInv' BY <1>1, <1>2, <1>3, <1>5, <1>6, <1>8, <1>9, FlowKeeps
<1>11. why = "unsent" => ~Fresh /\ HoldingBack BY DEF Fresh, HoldingBack
<1>12. PromiseStep BY <1>2, <1>5, <1>7, <1>11, SenderEnd
<1>13. QED BY <1>10, <1>12 DEF StepKeeps

LEMMA FlowStepKeeps ==
    ASSUME AllInv, Flow
    PROVE  StepKeeps
<1>1. CASE SendOffer BY <1>1, CommandOfferKeeps
<1>2. CASE FirstAccept \/ GraceOver \/ Dispatch BY <1>2, FlowTakes
<1>3. CASE SendAll BY <1>3, SendAllKeeps
<1>4. ASSUME NEW kind \in Kinds, Arrived(kind) PROVE InHas(Sender, kind)
    <2>1. packets[Sender] # <<>> /\ packets[Sender] \in Seq(Kinds) /\ packets[Sender][1] = kind
        BY <1>4, SetFacts, InvParts DEF Arrived, AllInv, WireTypes
    <2>2. 1 \in 1 .. Len(packets[Sender]) BY <2>1, TailFacts
    <2>3. QED BY <2>1, <2>2 DEF InHas
<1>5. CASE FirstAck
    <2>1. flow = "ack" /\ ~Fresh BY <1>5 DEF FirstAck, Fresh
    <2>2. CASE Arrived("ackOk") /\ Exit("delivered")
        <3>1. AckIn BY <1>4, <2>2 DEF InHas, AckIn, Kinds
        <3>2. QED BY <2>1, <2>2, <3>1, ExitKeeps DEF Promise!SenderEnds
    <2>3. CASE Arrived("ackRejected") /\ Exit("refused")
        <3>1. Refused BY <1>4, <2>3 DEF Refused, RefusalIn, Kinds
        <3>2. QED BY <2>1, <2>3, <3>1, ExitKeeps DEF Promise!SenderEnds
    <2>4. QED BY <1>5, <2>2, <2>3 DEF FirstAck
<1>6. CASE Bail
    <2>1. flow \in {"accept", "ack"} /\ ~Fresh BY <1>6 DEF Bail, Fresh
    <2>2. CASE Exit("cancelled") BY <2>1, <2>2, ExitKeeps DEF Promise!SenderEnds
    <2>3. CASE Exit(IF flow = "accept" THEN "unsent" ELSE "failed")
        BY <2>1, <2>3, ExitKeeps DEF Promise!SenderEnds
    <2>4. CASE Arrived("reject") /\ Exit("refused")
        <3>1. Refused BY <1>4, <2>4 DEF Refused, RefusalIn, Kinds
        <3>2. QED BY <2>1, <2>4, <3>1, ExitKeeps DEF Promise!SenderEnds
    <2>5. QED BY <1>6, <2>2, <2>3, <2>4 DEF Bail
<1>7. CASE Deadline
    BY <1>7, ExitKeeps DEF Deadline, Promise!SenderEnds
<1>8. CASE Closed
    BY <1>8, ExitKeeps DEF Closed, Promise!SenderEnds
<1>9. QED BY <1>1, <1>2, <1>3, <1>5, <1>6, <1>7, <1>8 DEF Flow

-----------------------------------------------------------------------------
(* Every step of the transfer                                              *)

LEMMA StutterKeeps ==
    ASSUME AllInv, UNCHANGED flowVars
    PROVE  StepKeeps
<1>1. UNCHANGED <<target, clientVars, local, outcome, uplink, packets, frames, flow>>
    BY DEF flowVars, vars, clientVars, wireVars
<1>2. UpFalls /\ InFalls BY <1>1, SameKinds
<1>3. UnseenKeeps BY <1>1, <1>2, SweptKeeps DEF InFalls
<1>4. QED BY <1>3 DEF UnseenKeeps, StepKeeps, PromiseStep

LEMMA ReceiverLoopKeeps ==
    ASSUME AllInv, Inv', NEW r \in Receivers, Loop(r), UNCHANGED flow
    PROVE  StepKeeps
<1>1. r # Sender BY SetFacts
<1>2. OnOffer(r) \/ OnComplete(r) \/ OnEnd(r, "abort", "cancelled")
    BY <1>1 DEF Loop
<1>3. QED BY <1>2, OnOfferKeeps, OnCompleteKeeps, OnAbortKeeps

LEMMA StepAllKeeps ==
    ASSUME AllInv, Inv', OrderInv', [FlowNext]_flowVars
    PROVE  StepKeeps
<1>1. CASE UNCHANGED flowVars BY <1>1, StutterKeeps
<1>2. ASSUME NEW r \in Receivers, UNCHANGED flow,
             Accept(r) \/ Reject(r) \/ Abort(r) \/ Leave(r) \/ Loop(r) \/ OnChunk(r)
      PROVE  StepKeeps
    BY <1>2, AcceptKeeps, RejectKeeps, AbortKeeps, LeaveKeeps, ReceiverLoopKeeps, OnChunkKeeps
<1>3. ASSUME NEW c \in Clients, UNCHANGED flow, Server(c)
      PROVE  StepKeeps
    BY <1>3, ServerKeeps DEF UnseenKeeps, StepKeeps, PromiseStep
<1>4. CASE Peers /\ UNCHANGED flow BY <1>2, <1>3, <1>4 DEF Peers, Tasks
<1>5. CASE flow = "none" /\ Next /\ UNCHANGED flow
    <2>1. \A c \in Clients : c = Sender \/ c \in Receivers BY DEF Clients
    <2>2. CASE User
        BY <1>2, <1>5, <2>1, <2>2, SessionOfferKeeps, SessionAbortKeeps, SessionLeaveKeeps
           DEF User
    <2>3. CASE SendTask BY <1>5, <2>3, SendTaskKeeps
    <2>4. CASE \E c \in Clients : Loop(c) \/ Server(c)
        BY <1>2, <1>3, <1>5, <2>1, <2>4, SessionLoopKeeps
    <2>5. CASE \E r \in Receivers : OnChunk(r) BY <1>2, <1>5, <2>5
    <2>6. QED BY <1>5, <2>2, <2>3, <2>4, <2>5 DEF Next
<1>6. CASE LoseConnection BY <1>6, LoseConnectionKeeps
<1>7. CASE Sweep \/ SweepDuringOffer
    BY <1>7, SweepKeeps, SweepDuringOfferKeeps DEF UnseenKeeps, StepKeeps, PromiseStep
<1>8. CASE Flow BY <1>8, FlowStepKeeps
<1>9. QED BY <1>1, <1>4, <1>5, <1>6, <1>7, <1>8 DEF FlowNext

LEMMA ViewStart ==
    ASSUME FlowInit
    PROVE  ViewInv /\ TruthInv /\ Promise!PromiseInit
<1>1. Len(<<>>) = 0 OBVIOUS
<1>2. /\ target \in Targets
      /\ local = [c \in Clients |-> "absent"]
      /\ next = [r \in Receivers |-> 0]
      /\ outcome = [c \in Clients |-> "none"]
      /\ uplink = [c \in Clients |-> <<>>]
      /\ packets = [c \in Clients |-> <<>>]
      /\ flow \in {"none", "start"}
    BY DEF FlowInit, Init
<1>3. \A c \in Clients : /\ Len(uplink[c]) = 0 /\ Len(packets[c]) = 0
                         /\ local[c] = "absent" /\ outcome[c] = "none"
    BY <1>1, <1>2
<1>4. \A c \in Clients : \A kind : ~UpHas(c, kind) /\ ~InHas(c, kind)
    BY <1>3 DEF UpHas, InHas
<1>5. Fresh /\ Ahead BY <1>2, <1>3, SetFacts DEF Fresh, Ahead
<1>6. \A r \in Receivers : NoOfferIn(r) BY <1>4, KindsFacts, SetFacts DEF KindsRead
<1>7. SenderDone BY <1>2, <1>3, SetFacts DEF SenderDone
<1>8. \A r \in Receivers : Holds(r) BY <1>2, <1>3, <1>6, SetFacts DEF Holds
<1>9. ~RefusalIn /\ ~Refused
    BY <1>3, <1>4, SetFacts DEF RefusalIn, Refused
<1>10. Refusals BY <1>4, <1>9, SetFacts DEF Refusals, LossUp
<1>11. NothingSent
    <2>1. \A r \in Receivers : frames[r] = <<>> /\ next[r] = 0
        BY <1>2 DEF FlowInit, Init
    <2>2. QED BY <1>4, <2>1, SetFacts DEF NothingSent, ChunkUp
<1>12. SenderView = "idle" BY <1>2, <1>3, SetFacts DEF SenderView
<1>13. \A r \in Receivers : ReceiverView(r) = "unaware"
    BY <1>3, SetFacts DEF ReceiverView
<1>14. [r \in Receivers |-> ReceiverView(r)] = [r \in Receivers |-> "unaware"]
    BY <1>13
<1>15. Promise!PromiseInit BY <1>2, <1>12, <1>14 DEF Promise!PromiseInit
<1>16. QED
    BY <1>7, <1>8, <1>10, <1>11, <1>15 DEF ViewInv, TruthInv

LEMMA AllAlways == FlowSpec => []AllInv
<1>1. FlowInit => ViewInv /\ TruthInv BY ViewStart
<1>2. Inv /\ OrderInv /\ Inv' /\ OrderInv' /\ (ViewInv /\ TruthInv) /\ [FlowNext]_flowVars
          => (ViewInv /\ TruthInv)'
    BY StepAllKeeps DEF AllInv, StepKeeps
<1>3. FlowSpec => [](ViewInv /\ TruthInv)
    BY <1>1, <1>2, InvAlways, OrderAlways, PTL DEF FlowSpec
<1>4. Inv /\ OrderInv /\ (ViewInv /\ TruthInv) => AllInv BY DEF AllInv
<1>5. QED BY <1>3, <1>4, InvAlways, OrderAlways, PTL

\* The stores, queues and tasks of the clients and the server between them show
\* their users the steps of TransferPromise, and no others: handle_file_offer asks
\* once, a receiver saves what it has all chunks of, handle_ack and send_file_flow
\* report what became of the file.
THEOREM KeepsPromiseAlways == FlowSpec => KeepsPromise
<1>1. FlowInit => Promise!PromiseInit BY ViewStart
<1>2. AllInv /\ AllInv' /\ [FlowNext]_flowVars => PromiseStep
    BY StepAllKeeps DEF AllInv, StepKeeps
<1>3. PromiseStep => [Promise!PromiseNext]_(Promise!promiseVars)
    BY DEF PromiseStep
<1>4. QED
    BY <1>1, <1>2, <1>3, AllAlways, PTL DEF FlowSpec, KeepsPromise, Promise!PromiseSpec

\* "refused" is true: when handle_file_reject, handle_ack, handle_server_error or
\* send_file_flow has reported that the one receiver refused the file, that
\* receiver has not saved it, does not hold it, and no offer of it is to come.  (An
\* error of the server is no refusal to send_file_flow.)
THEOREM RefusedMeansNotSavedAlways == FlowSpec => []RefusedMeansNotSaved
<1>1. AllInv => RefusedMeansNotSaved
    BY DEF AllInv, TruthInv, Refusals, Refused, Settled, Untouched, Saved, NoOfferIn,
           RefusedMeansNotSaved
<1>2. QED BY <1>1, AllAlways, PTL

\* A file that the server "refused to send" is not sent: when wait_for_file_accept has
\* ended with an error, of a sweep that crossed with the accept for one, nobody has
\* got a chunk of the file, let alone saved it, and nobody ever will.
THEOREM UnsentMeansNotSavedAlways == FlowSpec => []UnsentMeansNotSaved
<1>1. ASSUME AllInv, outcome[Sender] = "unsent", NEW r \in Receivers
      PROVE  next[r] = 0 /\ outcome[r] # "saved"
    <2>1. next[r] = 0 BY <1>1 DEF AllInv, TruthInv, NothingSent, HoldingBack
    <2>2. TotalChunks # 0 BY SetFacts DEF TotalChunks
    <2>3. QED BY <1>1, <2>1, <2>2 DEF AllInv, ViewInv, Holds
<1>2. AllInv => UnsentMeansNotSaved BY <1>1 DEF UnsentMeansNotSaved
<1>3. QED BY <1>2, AllAlways, PTL

-----------------------------------------------------------------------------
(* What follows from the promise alone                                     *)

LEMMA EndsStay ==
    ASSUME PromiseStep
    PROVE  /\ SenderView \in Promise!SenderEnds => SenderView' = SenderView
           /\ \A r \in Receivers :
                 ReceiverView(r) \in Promise!ViewEnds => ReceiverView(r)' = ReceiverView(r)
<1> DEFINE V == [r \in Receivers |-> ReceiverView(r)]
<1>1. \A r \in Receivers : V[r] = ReceiverView(r) /\ V'[r] = ReceiverView(r)'
    OBVIOUS
<1>2. CASE UNCHANGED Promise!promiseVars
    BY <1>1, <1>2 DEF Promise!promiseVars
<1>3. CASE \E to : SenderView \in Promise!SenderOpen /\ Promise!SenderComes(to)
    BY <1>1, <1>3 DEF Promise!SenderOpen, Promise!SenderEnds, Promise!SenderComes
<1>4. ASSUME NEW r \in Receivers, NEW to, Promise!Comes(r, to), V[r] \notin Promise!ViewEnds
      PROVE  /\ SenderView' = SenderView
             /\ \A s \in Receivers : V[s] \in Promise!ViewEnds => V'[s] = V[s]
    <2>1. V' = [V EXCEPT ![r] = to] /\ SenderView' = SenderView BY <1>4 DEF Promise!Comes
    <2>2. \A s \in Receivers : s # r => V'[s] = V[s] BY <2>1
    <2>3. QED BY <1>4, <2>1, <2>2
<1>5. ASSUME NEW r \in Receivers, Promise!Get(r)
      PROVE  V' = V /\ SenderView' = SenderView
    BY <1>5 DEF Promise!Get
<1> HIDE DEF V
<1>6. CASE Promise!Offer \/ Promise!Deliver \/ Promise!Refuse \/ Promise!Withdraw
    <2>1. \E to : SenderView \in Promise!SenderOpen /\ Promise!SenderComes(to)
        BY <1>6
           DEF Promise!Offer, Promise!Deliver, Promise!Refuse, Promise!Withdraw,
               Promise!SenderOpen
    <2>2. QED BY <1>3, <2>1
<1>7. ASSUME NEW why, Promise!GiveUp(why)
      PROVE  \E to : SenderView \in Promise!SenderOpen /\ Promise!SenderComes(to)
    BY <1>7 DEF Promise!GiveUp
<1>8. ASSUME NEW r \in Receivers,
             \/ \E why : Promise!Drop(r, why)
             \/ Promise!Ask(r) \/ Promise!Agree(r) \/ Promise!Save(r)
             \/ Promise!Miss(r) \/ Promise!Break(r)
      PROVE  \E to : Promise!Comes(r, to) /\ V[r] \notin Promise!ViewEnds
    BY <1>8 DEF Promise!Drop, Promise!Ask, Promise!Agree, Promise!Save, Promise!Miss,
                Promise!Break, Promise!ViewOpen, Promise!ViewEnds, V
<1>9. QED
    BY <1>1, <1>2, <1>3, <1>4, <1>5, <1>6, <1>7, <1>8
       DEF PromiseStep, Promise!PromiseNext

\* What a console has said of the end of a file it never takes back: no late accept,
\* chunk or offer brings a file back, and no later answer changes the report.
ReportsAreFinal == [][\A c \in Clients : outcome[c] # "none" => outcome'[c] = outcome[c]]_flowVars

THEOREM ReportsAreFinalAlways == FlowSpec => ReportsAreFinal
<1>1. ASSUME AllInv, AllInv', PromiseStep, NEW c \in Clients, outcome[c] # "none"
      PROVE  outcome'[c] = outcome[c]
    <2>1. CASE c = Sender
        <3>1. SenderView = outcome[Sender] /\ SenderView \in Promise!SenderEnds
            BY <1>1, <2>1 DEF SenderView, AllInv, ViewInv, SenderDone
        <3>2. SenderView' = outcome[Sender] BY <1>1, <3>1, EndsStay
        <3>3. QED BY <2>1, <3>1, <3>2 DEF SenderView, Promise!SenderEnds
    <2>2. CASE c \in Receivers
        <3>1. /\ local[c] = "absent" /\ outcome[c] \in Promise!ViewEnds
            BY <1>1, <2>2 DEF AllInv, ViewInv, Holds
        <3>2. ReceiverView(c) = outcome[c] BY <1>1, <3>1 DEF ReceiverView
        <3>3. ReceiverView(c)' = outcome[c] BY <1>1, <2>2, <3>1, <3>2, EndsStay
        <3>4. QED BY <3>1, <3>3 DEF ReceiverView, Promise!ViewEnds
    <2>3. QED BY <2>1, <2>2 DEF Clients
<1>2. AllInv /\ AllInv' /\ [FlowNext]_flowVars
          => [\A c \in Clients : outcome[c] # "none" => outcome'[c] = outcome[c]]_flowVars
    BY <1>1, StepAllKeeps DEF AllInv, StepKeeps
<1>3. QED BY <1>2, AllAlways, PTL DEF FlowSpec, ReportsAreFinal

\* An empty file cannot be sent: OutgoingFile announces total_chunks.max(1) chunks,
\* send_chunks_loop sends none, so its receivers miss a chunk whatever happens.
EmptyFileFails ==
    Chunks = 0 => /\ \A r \in Receivers : next[r] = 0 /\ outcome[r] # "saved"
                  /\ outcome[Sender] # "delivered"

THEOREM EmptyFileFailsAlways == FlowSpec => []EmptyFileFails
<1> DEFINE Nothing == Chunks = 0 => \A r \in Receivers :
                          next[r] = 0 /\ ReceiverView(r) # "saved"
           V == [r \in Receivers |-> ReceiverView(r)]
<1>1. FlowInit => Nothing
    <2>1. FlowInit => next = [r \in Receivers |-> 0] /\ V = [r \in Receivers |-> "unaware"]
        BY ViewStart DEF Promise!PromiseInit
    <2>2. QED BY <2>1
<1>2. ASSUME AllInv, Inv', PromiseStep, Nothing PROVE Nothing'
    <2> SUFFICES ASSUME Chunks = 0, NEW r \in Receivers
                 PROVE  next'[r] = 0 /\ ReceiverView(r)' # "saved"
        OBVIOUS
    <2>1. /\ \A s \in Receivers : next[s] = 0 /\ V[s] # "saved"
          /\ V'[r] = ReceiverView(r)'
        BY <1>2
    <2>2. next \in [Receivers -> 0 .. TotalChunks] BY <1>2, NextTypes DEF AllInv
    <2>3. TotalChunks = 1 BY DEF TotalChunks
    <2> SUFFICES next' = next /\ V'[r] # "saved"
        BY <2>1
    <2> HIDE DEF V
    <2>4. CASE UNCHANGED Promise!promiseVars
        BY <2>1, <2>4 DEF Promise!promiseVars, V
    <2>5. CASE \E to : Promise!SenderComes(to)
        BY <2>1, <2>5 DEF Promise!SenderComes, V
    <2>6. ASSUME NEW s \in Receivers, NEW to, to # "saved", Promise!Comes(s, to)
          PROVE  next' = next /\ V'[r] # "saved"
        <3>1. V' = [V EXCEPT ![s] = to] /\ next' = next
              /\ V = [q \in Receivers |-> ReceiverView(q)]
            BY <2>6 DEF Promise!Comes, V
        <3>2. QED BY <2>1, <2>6, <3>1
    <2>7. CASE Promise!Offer \/ Promise!Deliver \/ Promise!Refuse \/ Promise!Withdraw
        BY <2>5, <2>7
           DEF Promise!Offer, Promise!Deliver, Promise!Refuse, Promise!Withdraw
    <2>8. ASSUME NEW why, Promise!GiveUp(why) PROVE \E to : Promise!SenderComes(to)
        BY <2>8 DEF Promise!GiveUp
    <2>9. ASSUME NEW s \in Receivers,
                 \/ \E why \in {"cancelled", "disconnected"} : Promise!Drop(s, why)
                 \/ Promise!Ask(s) \/ Promise!Agree(s)
                 \/ Promise!Miss(s) \/ Promise!Break(s)
          PROVE  \E to : to # "saved" /\ Promise!Comes(s, to)
        BY <2>9 DEF Promise!Drop, Promise!Ask, Promise!Agree, Promise!Miss, Promise!Break,
                    Promise!ViewOpen
    <2>10. ASSUME NEW s \in Receivers PROVE ~Promise!Get(s) /\ ~Promise!Save(s)
        <3>1. next[s] = 0 BY <2>1
        <3>2. ~Promise!Get(s) BY <3>1 DEF Promise!Get
        <3>3. Promise!TotalChunks = 1 BY DEF Promise!TotalChunks
        <3>4. ~Promise!Save(s) BY <3>1, <3>3 DEF Promise!Save
        <3>5. QED BY <3>2, <3>4
    <2>11. QED
        BY <1>2, <2>4, <2>5, <2>6, <2>7, <2>8, <2>9, <2>10
           DEF PromiseStep, Promise!PromiseNext
<1>3. AllInv /\ Nothing => EmptyFileFails
    <2> SUFFICES ASSUME AllInv, Nothing, Chunks = 0
                 PROVE  /\ \A r \in Receivers : next[r] = 0 /\ outcome[r] # "saved"
                        /\ outcome[Sender] # "delivered"
        BY DEF EmptyFileFails
    <2>1. ASSUME NEW r \in Receivers PROVE next[r] = 0 /\ outcome[r] # "saved"
        <3>1. next[r] = 0 /\ ReceiverView(r) # "saved" BY DEF Nothing
        <3>2. outcome[r] # "none" => local[r] = "absent" BY DEF AllInv, ViewInv, Holds
        <3>3. QED BY <3>1, <3>2 DEF ReceiverView
    <2>2. QED BY <2>1 DEF AllInv, Inv, AcksAreTrue, Saved
<1> HIDE DEF Nothing
<1>4. AllInv /\ AllInv' /\ Nothing /\ [FlowNext]_flowVars => Nothing'
    BY <1>2, StepAllKeeps DEF AllInv, StepKeeps
<1>5. QED BY <1>1, <1>3, <1>4, AllAlways, PTL DEF FlowSpec

=============================================================================
