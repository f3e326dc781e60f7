---------------------------- MODULE FileSendProofs ----------------------------
(***************************************************************************)
(* The sender is told the truth: for any number of receivers and chunks,   *)
(* and whether a session or `y2m send file` sends the file, a sender that  *)
(* reports a delivery has a receiver that has saved the file.              *)
(*                                                                         *)
(* An ack is believed because the receiver that sent it cannot lose its    *)
(* file again: it would have to be offered once more, and the offer is made*)
(* once and is taken by each receiver once.                                *)
(***************************************************************************)
EXTENDS FileSend, TLAPS

-----------------------------------------------------------------------------
(* Queues                                                                  *)

\* What becomes of a queue whose end, or whose beginning, changes.
LEMMA AppendFacts ==
    ASSUME NEW S, NEW s \in Seq(S), NEW e \in S
    PROVE  /\ Append(s, e) \in Seq(S)
           /\ Len(s) \in Nat
           /\ Len(Append(s, e)) = Len(s) + 1
           /\ \A i \in 1 .. Len(s) : Append(s, e)[i] = s[i]
           /\ Append(s, e)[Len(s) + 1] = e
OBVIOUS

LEMMA TailFacts ==
    ASSUME NEW S, NEW s \in Seq(S), s # <<>>
    PROVE  /\ Tail(s) \in Seq(S)
           /\ Len(s) \in Nat /\ Len(s) >= 1
           /\ Len(Tail(s)) = Len(s) - 1
           /\ Head(s) = s[1] /\ s[1] \in S
           /\ \A i \in 1 .. Len(s) - 1 : Tail(s)[i] = s[i + 1]
OBVIOUS

LEMMA CutFacts ==
    ASSUME NEW S, NEW s \in Seq(S), NEW n \in 0 .. Len(s)
    PROVE  /\ SubSeq(s, 1, n) \in Seq(S)
           /\ Len(s) \in Nat
           /\ Len(SubSeq(s, 1, n)) = n
           /\ \A i \in 1 .. n : SubSeq(s, 1, n)[i] = s[i]
OBVIOUS

LEMMA ConcatFacts ==
    ASSUME NEW S, NEW s \in Seq(S), NEW t \in Seq(S)
    PROVE  /\ s \o t \in Seq(S)
           /\ Len(s) \in Nat /\ Len(t) \in Nat
           /\ Len(s \o t) = Len(s) + Len(t)
           /\ \A i \in 1 .. Len(s) : (s \o t)[i] = s[i]
           /\ \A i \in 1 .. Len(t) : (s \o t)[Len(s) + i] = t[i]
OBVIOUS

-----------------------------------------------------------------------------
(* Types                                                                   *)

TypeInv ==
    /\ FlowTypeOK
    /\ task.at = "put" => task.pos < Chunks

ClientTypes ==
    /\ local \in [Clients -> LocalStates]
    /\ next \in [Receivers -> 0 .. TotalChunks]
    /\ outcome \in [Clients -> Outcomes]
    /\ up \in SUBSET Clients

TaskType ==
    /\ task \in [at: {"none", "check", "put", "complete", "phase", "ended"},
                 pos: 0 .. Chunks]
    /\ task.at = "put" => task.pos < Chunks

WireTypes ==
    /\ uplink \in [Clients -> Seq(Frame)]
    /\ packets \in [Clients -> Seq(Kinds)]
    /\ frames \in [Receivers -> Seq(0 .. Chunks)]

ServerTypes ==
    /\ legs \in [Receivers -> {"none", "offered", "accepted"}]
    /\ ackExpected \in BOOLEAN
    /\ online \in SUBSET Clients

LEMMA TypeParts ==
    TypeInv <=> /\ target \in Targets /\ flow \in Flows
                /\ ClientTypes /\ TaskType /\ WireTypes /\ ServerTypes
BY DEF TypeInv, FlowTypeOK, TypeOK, ClientTypes, TaskType, WireTypes, ServerTypes

LEMMA TypePartsNext ==
    ASSUME target' \in Targets, flow' \in Flows,
           ClientTypes', TaskType', WireTypes', ServerTypes'
    PROVE  TypeInv'
BY DEF TypeInv, FlowTypeOK, TypeOK, ClientTypes, TaskType, WireTypes, ServerTypes

LEMMA SetFacts ==
    /\ Receivers \subseteq Clients /\ Sender \in Clients /\ Sender \notin Receivers
    /\ Chunks \in Nat /\ TotalChunks \in Nat
    /\ \A kind \in Kinds \cup {"close"} : Packet(kind) \in Frame /\ Packet(kind).kind = kind
    /\ \A i \in 0 .. Chunks : Chunk(i) \in Frame /\ Chunk(i).kind = "chunk"
BY FileTransferAssumption DEF Clients, TotalChunks, Frame, Packet, Chunk

LEMMA SendTypes ==
    ASSUME WireTypes, NEW c \in Clients, NEW f \in Frame, Send(c, f)
    PROVE  /\ uplink' \in [Clients -> Seq(Frame)]
           /\ uplink'[c] = Append(uplink[c], f)
           /\ \A d \in Clients \ {c} : uplink'[d] = uplink[d]
BY AppendFacts DEF Send, WireTypes

LEMMA ForgetTypes ==
    ASSUME ClientTypes, NEW c \in Clients, NEW why \in Outcomes, Forget(c, why)
    PROVE  /\ local' \in [Clients -> LocalStates]
           /\ outcome' \in [Clients -> Outcomes]
           /\ local'[c] = "absent" /\ outcome'[c] = why
           /\ \A d \in Clients \ {c} : local'[d] = local[d] /\ outcome'[d] = outcome[d]
BY DEF Forget, ClientTypes, LocalStates

LEMMA TakeTypes ==
    ASSUME WireTypes, NEW c \in Clients, NEW kind, Take(c, kind)
    PROVE  /\ packets' \in [Clients -> Seq(Kinds)]
           /\ packets[c] # <<>> /\ packets[c][1] = kind
           /\ packets'[c] = Tail(packets[c])
           /\ \A d \in Clients \ {c} : packets'[d] = packets[d]
BY TailFacts DEF Take, WireTypes

LEMMA ReceiveTypes ==
    ASSUME WireTypes, NEW c \in Clients, NEW kind, Receive(c, kind)
    PROVE  /\ uplink' \in [Clients -> Seq(Frame)]
           /\ uplink[c] # <<>> /\ uplink[c][1].kind = kind /\ uplink[c][1] \in Frame
           /\ uplink'[c] = Tail(uplink[c])
           /\ \A d \in Clients \ {c} : uplink'[d] = uplink[d]
BY TailFacts DEF Receive, WireTypes

LEMMA DeliverTypes ==
    ASSUME WireTypes, NEW conns, NEW kind \in Kinds, Deliver(conns, kind)
    PROVE  /\ packets' \in [Clients -> Seq(Kinds)]
           /\ \A c \in Clients :
                \/ packets'[c] = packets[c]
                \/ c \in conns /\ packets'[c] = Append(packets[c], kind)
BY AppendFacts DEF Deliver, Listening, WireTypes

LEMMA HangupTypes ==
    ASSUME WireTypes, ClientTypes, NEW c \in Clients, Hangup(c)
    PROVE  /\ uplink' \in [Clients -> Seq(Frame)]
           /\ up' \in SUBSET Clients
           /\ \E n \in 0 .. Len(uplink[c]) :
                 uplink'[c] = Append(SubSeq(uplink[c], 1, n), Packet("close"))
           /\ \A d \in Clients \ {c} : uplink'[d] = uplink[d]
<1>1. PICK n \in 0 .. Len(uplink[c]) :
          uplink' = [uplink EXCEPT ![c] = Append(SubSeq(uplink[c], 1, n),
                                                 Packet("close"))]
    BY DEF Hangup
<1>2. Append(SubSeq(uplink[c], 1, n), Packet("close")) \in Seq(Frame)
    <2>1. uplink[c] \in Seq(Frame) BY DEF WireTypes
    <2>2. SubSeq(uplink[c], 1, n) \in Seq(Frame) BY <2>1, CutFacts
    <2>3. QED BY <2>2, SetFacts, AppendFacts
<1>3. QED BY <1>1, <1>2 DEF Hangup, WireTypes, ClientTypes

-----------------------------------------------------------------------------
(* The invariant                                                           *)

\* Offers and acks on the wires.
NoOfferUp == \A i \in 1 .. Len(uplink[Sender]) : uplink[Sender][i].kind # "offer"
OnceUp == \A i, j \in 1 .. Len(uplink[Sender]) :
    uplink[Sender][i].kind = "offer" /\ uplink[Sender][j].kind = "offer" => i = j

NoOfferIn(r) == \A i \in 1 .. Len(packets[r]) : packets[r][i] # "offer"
OnceIn(r) == \A i, j \in 1 .. Len(packets[r]) :
    packets[r][i] = "offer" /\ packets[r][j] = "offer" => i = j

AckUp(r) == \E i \in 1 .. Len(uplink[r]) : uplink[r][i].kind = "ackOk"
AckIn == \E i \in 1 .. Len(packets[Sender]) : packets[Sender][i] = "ackOk"

\* The sender has not made its offer.
Fresh ==
    \/ flow = "none" /\ local[Sender] = "absent" /\ outcome[Sender] = "none"
    \/ flow = "start"

Saved(r) == outcome[r] = "saved"
Untouched(r) == local[r] = "absent" /\ ~Saved(r)

\* The offer is made once, and is the first a receiver hears of the file.
OfferOnce ==
    /\ OnceUp
    /\ Fresh => NoOfferUp
    /\ \A r \in Receivers :
          /\ OnceIn(r)
          /\ Fresh \/ ~NoOfferUp => NoOfferIn(r) /\ Untouched(r)
          /\ ~NoOfferIn(r) => Untouched(r)

\* A saved file is no longer in the store, and acks come from saved files.
AcksAreTrue ==
    /\ \A r \in Receivers :
          /\ Saved(r) => local[r] = "absent"
          /\ AckUp(r) => Saved(r)
    /\ AckIn \/ outcome[Sender] = "delivered" => \E r \in Receivers : Saved(r)

Inv == TypeInv /\ OfferOnce /\ AcksAreTrue

\* What all steps do but the offer itself and its way through the server: no queue
\* gets an offer, ...
NoNewOffers ==
    /\ Fresh' => Fresh
    /\ NoOfferUp => NoOfferUp'
    /\ OnceUp => OnceUp'
    /\ \A r \in Receivers :
          /\ NoOfferIn(r) => NoOfferIn(r)'
          /\ OnceIn(r) => OnceIn(r)'

\* ... a store takes a file in only with the offer, and saves only what it has, ...
StoresFollow ==
    \A r \in Receivers :
        /\ local[r] = "absent" =>
              /\ outcome'[r] = outcome[r]
              /\ local'[r] = "absent" \/ (~NoOfferIn(r) /\ NoOfferIn(r)')
        /\ Saved(r)' => Saved(r) \/ local'[r] = "absent"

\* ... and acks are sent by receivers that save, and passed on.
AcksFollow ==
    /\ \A r \in Receivers : AckUp(r)' => AckUp(r) \/ Saved(r)'
    /\ AckIn' => AckIn \/ \E r \in Receivers : AckUp(r)
    /\ (outcome[Sender] = "delivered")' => AckIn \/ outcome[Sender] = "delivered"

LEMMA StepKeepsInv ==
    ASSUME Inv, TypeInv', NoNewOffers, StoresFollow, AcksFollow
    PROVE  Inv'
<1>1. \A r \in Receivers : Saved(r) => Saved(r)'
    BY DEF Inv, AcksAreTrue, StoresFollow, Saved
<1>2. ASSUME NEW r \in Receivers, Untouched(r), NoOfferIn(r) \/ ~NoOfferIn(r)'
      PROVE  Untouched(r)'
    <2>1. local[r] = "absent" /\ outcome[r] # "saved"
        BY <1>2 DEF Untouched, Saved
    <2>2. outcome'[r] = outcome[r]
        BY <2>1 DEF StoresFollow
    <2>3. local'[r] = "absent" \/ (~NoOfferIn(r) /\ NoOfferIn(r)')
        BY <2>1 DEF StoresFollow
    <2>4. local'[r] = "absent"
        BY <1>2, <2>3
    <2>5. QED BY <2>1, <2>2, <2>4 DEF Untouched, Saved
<1>3. OfferOnce'
    <2>1. OnceUp' /\ (Fresh' => NoOfferUp')
        BY DEF Inv, OfferOnce, NoNewOffers
    <2>2. ASSUME NEW r \in Receivers
          PROVE  /\ OnceIn(r)'
                 /\ Fresh' \/ ~NoOfferUp' => NoOfferIn(r)' /\ Untouched(r)'
                 /\ ~NoOfferIn(r)' => Untouched(r)'
        BY <1>2 DEF Inv, OfferOnce, NoNewOffers
    <2>3. QED BY <2>1, <2>2 DEF OfferOnce
<1>4. AcksAreTrue'
    <2>1. ASSUME NEW r \in Receivers, Saved(r)' PROVE (local[r] = "absent")'
        <3>1. CASE Saved(r)
            <4>1. local[r] = "absent" /\ outcome[r] = "saved"
                BY <3>1 DEF Inv, AcksAreTrue, Saved
            <4>2. NoOfferIn(r)
                BY <3>1 DEF Inv, OfferOnce, Untouched
            <4>3. QED BY <4>1, <4>2 DEF StoresFollow
        <3>2. CASE ~Saved(r) BY <2>1, <3>2 DEF StoresFollow
        <3>3. QED BY <3>1, <3>2
    <2>2. \A r \in Receivers : AckUp(r)' => Saved(r)'
        BY <1>1 DEF Inv, AcksAreTrue, AcksFollow
    <2>3. (AckIn \/ outcome[Sender] = "delivered")' => \E r \in Receivers : Saved(r)'
        BY <1>1 DEF Inv, AcksAreTrue, AcksFollow
    <2>4. QED BY <2>1, <2>2, <2>3 DEF AcksAreTrue, Saved
<1>5. QED BY <1>3, <1>4 DEF Inv

-----------------------------------------------------------------------------
(* The queues and the invariant                                            *)

\* NoNewOffers and AcksFollow for each side of the server, and for the sender.
UpKeeps ==
    /\ NoOfferUp => NoOfferUp'
    /\ OnceUp => OnceUp'
    /\ \A r \in Receivers : AckUp(r)' => AckUp(r) \/ Saved(r)'

InKeeps ==
    /\ \A r \in Receivers :
          /\ NoOfferIn(r) => NoOfferIn(r)'
          /\ OnceIn(r) => OnceIn(r)'
    /\ AckIn' => AckIn \/ \E r \in Receivers : AckUp(r)

SenderFollows ==
    /\ Fresh' => Fresh
    /\ (outcome[Sender] = "delivered")' => AckIn \/ outcome[Sender] = "delivered"

LEMMA SameUp == ASSUME UNCHANGED uplink PROVE UpKeeps
BY DEF UpKeeps, NoOfferUp, OnceUp, AckUp

LEMMA SameIn == ASSUME UNCHANGED packets PROVE InKeeps
BY DEF InKeeps, NoOfferIn, OnceIn, AckIn

LEMMA SameSender == ASSUME UNCHANGED <<local, outcome, flow>> PROVE SenderFollows
BY DEF SenderFollows, Fresh

LEMMA SameStores == ASSUME UNCHANGED <<local, outcome>> PROVE StoresFollow
BY DEF StoresFollow, Saved

LEMMA SendUp ==
    ASSUME WireTypes, NEW c \in Clients, NEW f \in Frame, Send(c, f),
           f.kind # "offer",
           f.kind = "ackOk" => c = Sender \/ Saved(c)'
    PROVE  UpKeeps
<1>1. /\ uplink'[c] = Append(uplink[c], f)
      /\ \A d \in Clients \ {c} : uplink'[d] = uplink[d]
      /\ \A d \in Clients : uplink[d] \in Seq(Frame)
    BY SendTypes DEF WireTypes
<1>2. /\ Len(uplink[c]) \in Nat
      /\ Len(uplink'[c]) = Len(uplink[c]) + 1
      /\ \A i \in 1 .. Len(uplink[c]) : uplink'[c][i] = uplink[c][i]
      /\ uplink'[c][Len(uplink[c]) + 1] = f
    BY <1>1, AppendFacts
<1>3. (NoOfferUp => NoOfferUp') /\ (OnceUp => OnceUp')
    <2>1. CASE c = Sender
        <3>1. \A i \in 1 .. Len(uplink'[Sender]) :
                  \/ i \in 1 .. Len(uplink[Sender]) /\ uplink'[Sender][i] = uplink[Sender][i]
                  \/ uplink'[Sender][i].kind # "offer"
            BY <2>1, <1>2
        <3>2. QED BY <3>1 DEF NoOfferUp, OnceUp
    <2>2. CASE c # Sender
        <3>1. uplink'[Sender] = uplink[Sender] BY <2>2, <1>1, SetFacts
        <3>2. QED BY <3>1 DEF NoOfferUp, OnceUp
    <2>3. QED BY <2>1, <2>2
<1>4. ASSUME NEW r \in Receivers, AckUp(r)' PROVE AckUp(r) \/ Saved(r)'
    <2>1. CASE c = r
        <3>1. \A i \in 1 .. Len(uplink'[r]) :
                  \/ i \in 1 .. Len(uplink[r]) /\ uplink'[r][i] = uplink[r][i]
                  \/ uplink'[r][i] = f
            BY <2>1, <1>2
        <3>2. QED BY <3>1, <1>4, <2>1, SetFacts DEF AckUp
    <2>2. CASE c # r
        <3>1. uplink'[r] = uplink[r] BY <2>2, <1>1, SetFacts
        <3>2. QED BY <3>1, <1>4 DEF AckUp
    <2>3. QED BY <2>1, <2>2
<1>5. QED BY <1>3, <1>4 DEF UpKeeps

LEMMA ReceiveUp ==
    ASSUME WireTypes, NEW c \in Clients, NEW kind, Receive(c, kind)
    PROVE  /\ UpKeeps
           /\ kind = "ackOk" => AckUp(c)
           /\ kind = "offer" /\ c = Sender /\ OnceUp => ~NoOfferUp /\ NoOfferUp'
<1>1. /\ uplink'[c] = Tail(uplink[c]) /\ uplink[c] # <<>> /\ uplink[c][1].kind = kind
      /\ \A d \in Clients \ {c} : uplink'[d] = uplink[d]
      /\ \A d \in Clients : uplink[d] \in Seq(Frame)
    BY ReceiveTypes DEF WireTypes
<1>2. /\ Len(uplink[c]) \in Nat /\ Len(uplink[c]) >= 1
      /\ Len(uplink'[c]) = Len(uplink[c]) - 1
      /\ \A i \in 1 .. Len(uplink[c]) - 1 : uplink'[c][i] = uplink[c][i + 1]
    BY <1>1, TailFacts
<1>3. \A i \in 1 .. Len(uplink'[c]) :
          i \in Nat /\ i + 1 \in 1 .. Len(uplink[c]) /\ uplink'[c][i] = uplink[c][i + 1]
    BY <1>2
<1>4. (NoOfferUp => NoOfferUp') /\ (OnceUp => OnceUp')
    <2>1. CASE c = Sender
        <3>1. NoOfferUp => NoOfferUp' BY <1>3, <2>1 DEF NoOfferUp
        <3>2. ASSUME OnceUp, NEW i \in 1 .. Len(uplink'[Sender]),
                     NEW j \in 1 .. Len(uplink'[Sender]),
                     uplink'[Sender][i].kind = "offer", uplink'[Sender][j].kind = "offer"
              PROVE  i = j
            <4>1. i + 1 = j + 1 BY <1>3, <2>1, <3>2 DEF OnceUp
            <4>2. i \in Nat /\ j \in Nat BY <1>3, <2>1
            <4>3. QED BY <4>1, <4>2
        <3>3. QED BY <3>1, <3>2 DEF OnceUp
    <2>2. CASE c # Sender
        <3>1. uplink'[Sender] = uplink[Sender] BY <2>2, <1>1, SetFacts
        <3>2. QED BY <3>1 DEF NoOfferUp, OnceUp
    <2>3. QED BY <2>1, <2>2
<1>5. ASSUME NEW r \in Receivers, AckUp(r)' PROVE AckUp(r)
    <2>1. CASE c = r BY <1>3, <1>5, <2>1 DEF AckUp
    <2>2. CASE c # r
        <3>1. uplink'[r] = uplink[r] BY <2>2, <1>1, SetFacts
        <3>2. QED BY <3>1, <1>5 DEF AckUp
    <2>3. QED BY <2>1, <2>2
<1>6. kind = "ackOk" => AckUp(c) BY <1>1, <1>2 DEF AckUp
<1>7. ASSUME kind = "offer", c = Sender, OnceUp PROVE ~NoOfferUp /\ NoOfferUp'
    <2>1. ~NoOfferUp BY <1>1, <1>2, <1>7 DEF NoOfferUp
    <2>2. ASSUME NEW i \in 1 .. Len(uplink'[Sender]), uplink'[Sender][i].kind = "offer"
          PROVE  FALSE
        <3>1. i + 1 \in 1 .. Len(uplink[Sender]) /\ uplink[Sender][i + 1].kind = "offer"
            BY <1>3, <1>7, <2>2
        <3>2. 1 \in 1 .. Len(uplink[Sender]) /\ uplink[Sender][1].kind = "offer"
            BY <1>1, <1>2, <1>7
        <3>3. i + 1 = 1 BY <1>7, <3>1, <3>2 DEF OnceUp
        <3>4. i \in Nat /\ i >= 1 BY <1>2, <1>3, <1>7
        <3>5. QED BY <3>3, <3>4
    <2>3. QED BY <2>1, <2>2 DEF NoOfferUp
<1>8. QED BY <1>4, <1>5, <1>6, <1>7 DEF UpKeeps

LEMMA HangupUp ==
    ASSUME WireTypes, ClientTypes, NEW c \in Clients, Hangup(c)
    PROVE  UpKeeps
<1>1. PICK n \in 0 .. Len(uplink[c]) :
          uplink'[c] = Append(SubSeq(uplink[c], 1, n), Packet("close"))
    BY HangupTypes
<1>2. /\ \A d \in Clients \ {c} : uplink'[d] = uplink[d]
      /\ uplink[c] \in Seq(Frame)
    BY HangupTypes DEF WireTypes
<1>3. /\ Len(uplink[c]) \in Nat /\ SubSeq(uplink[c], 1, n) \in Seq(Frame)
      /\ Len(SubSeq(uplink[c], 1, n)) = n
      /\ \A i \in 1 .. n : SubSeq(uplink[c], 1, n)[i] = uplink[c][i]
    BY <1>2, CutFacts
<1>4. /\ Len(uplink'[c]) = n + 1
      /\ \A i \in 1 .. n : uplink'[c][i] = uplink[c][i]
      /\ uplink'[c][n + 1] = Packet("close")
    <2>1. Packet("close") \in Frame BY SetFacts
    <2>2. QED BY <1>1, <1>3, <2>1, AppendFacts
<1>5. \A i \in 1 .. Len(uplink'[c]) :
          \/ i \in 1 .. Len(uplink[c]) /\ uplink'[c][i] = uplink[c][i]
          \/ uplink'[c][i].kind = "close"
    <2>1. Packet("close").kind = "close" BY SetFacts
    <2>2. QED BY <1>3, <1>4, <2>1
<1>6. (NoOfferUp => NoOfferUp') /\ (OnceUp => OnceUp')
    <2>1. CASE c = Sender BY <2>1, <1>5 DEF NoOfferUp, OnceUp
    <2>2. CASE c # Sender
        <3>1. uplink'[Sender] = uplink[Sender] BY <2>2, <1>2, SetFacts
        <3>2. QED BY <3>1 DEF NoOfferUp, OnceUp
    <2>3. QED BY <2>1, <2>2
<1>7. ASSUME NEW r \in Receivers, AckUp(r)' PROVE AckUp(r)
    <2>1. CASE c = r BY <1>5, <1>7, <2>1 DEF AckUp
    <2>2. CASE c # r
        <3>1. uplink'[r] = uplink[r] BY <2>2, <1>2, SetFacts
        <3>2. QED BY <3>1, <1>7 DEF AckUp
    <2>3. QED BY <2>1, <2>2
<1>8. QED BY <1>6, <1>7 DEF UpKeeps

LEMMA TakeIn ==
    ASSUME WireTypes, NEW c \in Clients, NEW kind, Take(c, kind)
    PROVE  /\ InKeeps
           /\ kind = "ackOk" /\ c = Sender => AckIn
           /\ kind = "offer" /\ OnceIn(c) => ~NoOfferIn(c) /\ NoOfferIn(c)'
<1>1. /\ packets'[c] = Tail(packets[c]) /\ packets[c] # <<>> /\ packets[c][1] = kind
      /\ \A d \in Clients \ {c} : packets'[d] = packets[d]
      /\ \A d \in Clients : packets[d] \in Seq(Kinds)
    BY TakeTypes DEF WireTypes
<1>2. /\ Len(packets[c]) \in Nat /\ Len(packets[c]) >= 1
      /\ Len(packets'[c]) = Len(packets[c]) - 1
      /\ \A i \in 1 .. Len(packets[c]) - 1 : packets'[c][i] = packets[c][i + 1]
    BY <1>1, TailFacts
<1>3. \A i \in 1 .. Len(packets'[c]) :
          /\ i \in Nat /\ i >= 1 /\ i + 1 \in 1 .. Len(packets[c])
          /\ packets'[c][i] = packets[c][i + 1]
    BY <1>2
<1>4. ASSUME NEW r \in Receivers
      PROVE  (NoOfferIn(r) => NoOfferIn(r)') /\ (OnceIn(r) => OnceIn(r)')
    <2>1. CASE c = r
        <3>1. NoOfferIn(r) => NoOfferIn(r)' BY <1>3, <2>1 DEF NoOfferIn
        <3>2. ASSUME OnceIn(r), NEW i \in 1 .. Len(packets'[r]),
                     NEW j \in 1 .. Len(packets'[r]),
                     packets'[r][i] = "offer", packets'[r][j] = "offer"
              PROVE  i = j
            <4>1. i + 1 = j + 1 BY <1>3, <2>1, <3>2 DEF OnceIn
            <4>2. i \in Nat /\ j \in Nat BY <1>3, <2>1
            <4>3. QED BY <4>1, <4>2
        <3>3. QED BY <3>1, <3>2 DEF OnceIn
    <2>2. CASE c # r
        <3>1. packets'[r] = packets[r] BY <2>2, <1>1, SetFacts
        <3>2. QED BY <3>1 DEF NoOfferIn, OnceIn
    <2>3. QED BY <2>1, <2>2
<1>5. AckIn' => AckIn
    <2>1. CASE c = Sender BY <1>3, <2>1 DEF AckIn
    <2>2. CASE c # Sender
        <3>1. packets'[Sender] = packets[Sender] BY <2>2, <1>1, SetFacts
        <3>2. QED BY <3>1 DEF AckIn
    <2>3. QED BY <2>1, <2>2
<1>6. kind = "ackOk" /\ c = Sender => AckIn BY <1>1, <1>2 DEF AckIn
<1>7. ASSUME kind = "offer", OnceIn(c) PROVE ~NoOfferIn(c) /\ NoOfferIn(c)'
    <2>1. ~NoOfferIn(c) BY <1>1, <1>2, <1>7 DEF NoOfferIn
    <2>2. ASSUME NEW i \in 1 .. Len(packets'[c]), packets'[c][i] = "offer" PROVE FALSE
        <3>1. i + 1 = 1 BY <1>1, <1>2, <1>3, <1>7, <2>2 DEF OnceIn
        <3>2. i \in Nat /\ i >= 1 BY <1>3
        <3>3. QED BY <3>1, <3>2
    <2>3. QED BY <2>1, <2>2 DEF NoOfferIn
<1>8. QED BY <1>4, <1>5, <1>6, <1>7 DEF InKeeps

LEMMA DeliverIn ==
    ASSUME WireTypes, NEW conns, NEW kind \in Kinds, Deliver(conns, kind),
           kind # "offer", kind = "ackOk" => \E r \in Receivers : AckUp(r)
    PROVE  InKeeps
<1>1. ASSUME NEW c \in Clients, packets'[c] = Append(packets[c], kind)
      PROVE  /\ Len(packets[c]) \in Nat
             /\ \A i \in 1 .. Len(packets'[c]) :
                  \/ i \in 1 .. Len(packets[c]) /\ packets'[c][i] = packets[c][i]
                  \/ packets'[c][i] = kind
    <2>1. packets[c] \in Seq(Kinds) BY DEF WireTypes
    <2>2. /\ Len(packets[c]) \in Nat
          /\ Len(packets'[c]) = Len(packets[c]) + 1
          /\ \A i \in 1 .. Len(packets[c]) : packets'[c][i] = packets[c][i]
          /\ packets'[c][Len(packets[c]) + 1] = kind
        BY <1>1, <2>1, AppendFacts
    <2>3. QED BY <2>2
<1>2. ASSUME NEW r \in Receivers
      PROVE  (NoOfferIn(r) => NoOfferIn(r)') /\ (OnceIn(r) => OnceIn(r)')
    <2>1. r \in Clients BY SetFacts
    <2>2. CASE packets'[r] = packets[r] BY <2>2 DEF NoOfferIn, OnceIn
    <2>3. CASE packets'[r] = Append(packets[r], kind)
        BY <1>1, <2>1, <2>3 DEF NoOfferIn, OnceIn
    <2>4. QED BY <2>1, <2>2, <2>3, DeliverTypes
<1>3. AckIn' => AckIn \/ \E r \in Receivers : AckUp(r)
    <2>1. Sender \in Clients BY SetFacts
    <2>2. CASE packets'[Sender] = packets[Sender] BY <2>2 DEF AckIn
    <2>3. CASE packets'[Sender] = Append(packets[Sender], kind)
        BY <1>1, <2>1, <2>3 DEF AckIn
    <2>4. QED BY <2>1, <2>2, <2>3, DeliverTypes
<1>4. QED BY <1>2, <1>3 DEF InKeeps

LEMMA ClearIn ==
    ASSUME WireTypes, NEW c \in Clients, packets' = [packets EXCEPT ![c] = <<>>]
    PROVE  InKeeps /\ packets' \in [Clients -> Seq(Kinds)]
<1>1. <<>> \in Seq(Kinds) /\ Len(<<>>) = 0
    OBVIOUS
<1>2. packets' \in [Clients -> Seq(Kinds)] BY <1>1 DEF WireTypes
<1>3. \A d \in Clients : packets'[d] = packets[d] \/ Len(packets'[d]) = 0
    BY <1>1 DEF WireTypes
<1>4. ASSUME NEW r \in Receivers
      PROVE  (NoOfferIn(r) => NoOfferIn(r)') /\ (OnceIn(r) => OnceIn(r)')
    <2>1. CASE packets'[r] = packets[r] BY <2>1 DEF NoOfferIn, OnceIn
    <2>2. CASE Len(packets'[r]) = 0 BY <2>2 DEF NoOfferIn, OnceIn
    <2>3. QED BY <1>3, <2>1, <2>2, SetFacts
<1>5. AckIn' => AckIn
    <2>1. CASE packets'[Sender] = packets[Sender] BY <2>1 DEF AckIn
    <2>2. CASE Len(packets'[Sender]) = 0 BY <2>2 DEF AckIn
    <2>3. QED BY <1>3, <2>1, <2>2, SetFacts
<1>6. QED BY <1>2, <1>4, <1>5 DEF InKeeps

\* No step but the offer and its way through the server does more.
Keeps == UpKeeps /\ InKeeps /\ StoresFollow /\ SenderFollows

LEMMA PartsKeepInv ==
    ASSUME Inv, TypeInv', UpKeeps, InKeeps, StoresFollow, SenderFollows
    PROVE  Inv' /\ Keeps
<1>1. NoNewOffers BY DEF UpKeeps, InKeeps, SenderFollows, NoNewOffers
<1>2. AcksFollow BY DEF UpKeeps, InKeeps, SenderFollows, AcksFollow
<1>3. QED BY <1>1, <1>2, StepKeepsInv DEF Keeps

-----------------------------------------------------------------------------
(* What the server does                                                    *)

LEMMA ServerStep ==
    ASSUME Inv, UNCHANGED <<target, clientVars, flow>>, UpKeeps, InKeeps,
           uplink' \in [Clients -> Seq(Frame)],
           packets' \in [Clients -> Seq(Kinds)],
           frames' \in [Receivers -> Seq(0 .. Chunks)],
           legs' \in [Receivers -> {"none", "offered", "accepted"}],
           ackExpected' \in BOOLEAN,
           online' \in SUBSET Clients
    PROVE  Inv' /\ Keeps
<1>1. UNCHANGED <<local, next, task, outcome, up>>
    BY DEF clientVars
<1>2. target \in Targets /\ flow \in Flows /\ ClientTypes /\ TaskType
    BY TypeParts DEF Inv
<1>3. target' \in Targets /\ flow' \in Flows /\ ClientTypes' /\ TaskType'
    BY <1>1, <1>2 DEF ClientTypes, TaskType
<1>4. WireTypes' BY DEF WireTypes
<1>5. ServerTypes' BY DEF ServerTypes
<1>6. TypeInv' BY <1>3, <1>4, <1>5, TypePartsNext
<1>7. StoresFollow BY <1>1, SameStores
<1>8. SenderFollows BY <1>1, SameSender
<1>9. QED BY <1>6, <1>7, <1>8, PartsKeepInv

LEMMA InvParts ==
    ASSUME Inv
    PROVE  /\ target \in Targets /\ flow \in Flows
           /\ ClientTypes /\ TaskType /\ WireTypes /\ ServerTypes
BY TypeParts DEF Inv

LEMMA RelayAcceptStep ==
    ASSUME Inv, NEW r \in Receivers, RelayAccept(r), UNCHANGED flow
    PROVE  Inv' /\ Keeps
<1>1. WireTypes /\ ServerTypes BY InvParts
<1>2. r \in Clients BY SetFacts
<1>3. UpKeeps /\ uplink' \in [Clients -> Seq(Frame)]
    BY <1>1, <1>2, ReceiveUp, ReceiveTypes DEF RelayAccept
<1>4. InKeeps /\ packets' \in [Clients -> Seq(Kinds)]
    <2>1. CASE UNCHANGED packets BY <1>1, <2>1, SameIn DEF WireTypes
    <2>2. CASE Deliver({Sender}, "accept")
        BY <1>1, <2>2, DeliverIn, DeliverTypes DEF Kinds
    <2>3. QED BY <2>1, <2>2 DEF RelayAccept
<1>5. legs' \in [Receivers -> {"none", "offered", "accepted"}]
    BY <1>1 DEF RelayAccept, ServerTypes
<1>6. UNCHANGED <<target, clientVars, frames, ackExpected, online>>
    BY DEF RelayAccept
<1>7. /\ frames' \in [Receivers -> Seq(0 .. Chunks)]
      /\ ackExpected' \in BOOLEAN /\ online' \in SUBSET Clients
    BY <1>1, <1>6 DEF WireTypes, ServerTypes
<1>8. QED BY <1>3, <1>4, <1>5, <1>6, <1>7, ServerStep

LEMMA NoLegsType == NoLegs \in [Receivers -> {"none", "offered", "accepted"}]
BY DEF NoLegs

LEMMA RelayEndStep ==
    ASSUME Inv, NEW c \in Clients, NEW kind \in {"reject", "abort"},
           RelayEnd(c, kind), UNCHANGED flow
    PROVE  Inv' /\ Keeps
<1>1. WireTypes /\ ServerTypes BY InvParts
<1>2. UpKeeps /\ uplink' \in [Clients -> Seq(Frame)]
    BY <1>1, ReceiveUp, ReceiveTypes DEF RelayEnd
<1>3. InKeeps /\ packets' \in [Clients -> Seq(Kinds)]
    <2>1. CASE UNCHANGED packets BY <1>1, <2>1, SameIn DEF WireTypes
    <2>2. ASSUME NEW conns, NEW k \in Kinds \ {"offer", "ackOk"}, Deliver(conns, k)
          PROVE  InKeeps /\ packets' \in [Clients -> Seq(Kinds)]
        BY <1>1, <2>2, DeliverIn, DeliverTypes
    <2>3. kind \in Kinds \ {"offer", "ackOk"} /\ "error" \in Kinds \ {"offer", "ackOk"}
        BY DEF Kinds
    <2>4. QED BY <2>1, <2>2, <2>3 DEF RelayEnd, Complain
<1>4. legs' \in [Receivers -> {"none", "offered", "accepted"}] /\ ackExpected' \in BOOLEAN
    <2>1. CASE legs' = NoLegs /\ ackExpected' = FALSE BY <2>1, NoLegsType
    <2>2. CASE UNCHANGED <<legs, ackExpected>> BY <1>1, <2>2 DEF ServerTypes
    <2>3. QED BY <2>1, <2>2 DEF RelayEnd
<1>5. UNCHANGED <<target, clientVars, frames, online>>
    BY DEF RelayEnd
<1>6. frames' \in [Receivers -> Seq(0 .. Chunks)] /\ online' \in SUBSET Clients
    BY <1>1, <1>5 DEF WireTypes, ServerTypes
<1>7. QED BY <1>2, <1>3, <1>4, <1>5, <1>6, ServerStep

LEMMA RelayCompleteStep ==
    ASSUME Inv, RelayComplete, UNCHANGED flow
    PROVE  Inv' /\ Keeps
<1>1. WireTypes /\ ServerTypes BY InvParts
<1>2. UpKeeps /\ uplink' \in [Clients -> Seq(Frame)]
    BY <1>1, SetFacts, ReceiveUp, ReceiveTypes DEF RelayComplete
<1>3. InKeeps /\ packets' \in [Clients -> Seq(Kinds)]
    <2>1. CASE Deliver(Addressed, "complete")
        BY <1>1, <2>1, DeliverIn, DeliverTypes DEF Kinds
    <2>2. CASE Deliver({Sender}, "error")
        BY <1>1, <2>2, DeliverIn, DeliverTypes DEF Kinds
    <2>3. QED BY <2>1, <2>2 DEF RelayComplete, Complain
<1>4. ackExpected' \in BOOLEAN
    <2>1. CASE ackExpected' = TRUE BY <2>1
    <2>2. CASE UNCHANGED ackExpected BY <1>1, <2>2 DEF ServerTypes
    <2>3. QED BY <2>1, <2>2 DEF RelayComplete
<1>5. UNCHANGED <<target, clientVars, frames, legs, online>>
    BY DEF RelayComplete
<1>6. /\ frames' \in [Receivers -> Seq(0 .. Chunks)] /\ online' \in SUBSET Clients
      /\ legs' \in [Receivers -> {"none", "offered", "accepted"}]
    BY <1>1, <1>5 DEF WireTypes, ServerTypes
<1>7. QED BY <1>2, <1>3, <1>4, <1>5, <1>6, ServerStep

LEMMA RelayAckStep ==
    ASSUME Inv, NEW r \in Receivers, NEW kind \in {"ackOk", "ackRejected"},
           RelayAck(r, kind), UNCHANGED flow
    PROVE  Inv' /\ Keeps
<1>1. WireTypes /\ ServerTypes BY InvParts
<1>2. r \in Clients BY SetFacts
<1>3. /\ UpKeeps /\ uplink' \in [Clients -> Seq(Frame)]
      /\ kind = "ackOk" => AckUp(r)
    BY <1>1, <1>2, ReceiveUp, ReceiveTypes DEF RelayAck
<1>4. InKeeps /\ packets' \in [Clients -> Seq(Kinds)]
    <2>1. CASE UNCHANGED packets BY <1>1, <2>1, SameIn DEF WireTypes
    <2>2. CASE Deliver({Sender}, kind)
        <3>1. kind \in Kinds /\ kind # "offer" BY DEF Kinds
        <3>2. QED BY <1>1, <1>3, <2>2, <3>1, DeliverIn, DeliverTypes
    <2>3. QED BY <2>1, <2>2 DEF RelayAck
<1>5. legs' \in [Receivers -> {"none", "offered", "accepted"}] /\ ackExpected' \in BOOLEAN
    <2>1. CASE legs' = NoLegs /\ ackExpected' = FALSE BY <2>1, NoLegsType
    <2>2. CASE legs' = legs /\ ackExpected' = FALSE BY <1>1, <2>2 DEF ServerTypes
    <2>3. CASE UNCHANGED <<legs, ackExpected>> BY <1>1, <2>3 DEF ServerTypes
    <2>4. QED BY <2>1, <2>2, <2>3 DEF RelayAck
<1>6. UNCHANGED <<target, clientVars, frames, online>>
    BY DEF RelayAck
<1>7. frames' \in [Receivers -> Seq(0 .. Chunks)] /\ online' \in SUBSET Clients
    BY <1>1, <1>6 DEF WireTypes, ServerTypes
<1>8. QED BY <1>3, <1>4, <1>5, <1>6, <1>7, ServerStep

LEMMA RelayChunkStep ==
    ASSUME Inv, RelayChunk, UNCHANGED flow
    PROVE  Inv' /\ Keeps
<1>1. WireTypes /\ ServerTypes BY InvParts
<1>2. /\ UpKeeps /\ uplink' \in [Clients -> Seq(Frame)]
      /\ uplink[Sender] # <<>> /\ uplink[Sender][1] \in Frame
    BY <1>1, SetFacts, ReceiveUp, ReceiveTypes DEF RelayChunk
<1>3. InKeeps /\ packets' \in [Clients -> Seq(Kinds)]
    <2>1. CASE UNCHANGED packets BY <1>1, <2>1, SameIn DEF WireTypes
    <2>2. CASE Deliver({Sender}, "error")
        BY <1>1, <2>2, DeliverIn, DeliverTypes DEF Kinds
    <2>3. QED BY <2>1, <2>2 DEF RelayChunk, Complain
<1>4. frames' \in [Receivers -> Seq(0 .. Chunks)]
    <2>1. Head(uplink[Sender]).index \in 0 .. Chunks
        <3>1. uplink[Sender] \in Seq(Frame) BY <1>1, SetFacts DEF WireTypes
        <3>2. Head(uplink[Sender]) = uplink[Sender][1] BY <1>2, <3>1, TailFacts
        <3>3. QED BY <1>2, <3>2 DEF Frame
    <2>2. ASSUME NEW r \in Receivers
          PROVE  Append(frames[r], Head(uplink[Sender]).index) \in Seq(0 .. Chunks)
        <3>1. frames[r] \in Seq(0 .. Chunks) BY <1>1 DEF WireTypes
        <3>2. QED BY <2>1, <3>1, AppendFacts
    <2>3. QED BY <1>1, <2>2 DEF RelayChunk, WireTypes
<1>5. UNCHANGED <<target, clientVars, legs, ackExpected, online>>
    BY DEF RelayChunk, serverVars
<1>6. /\ legs' \in [Receivers -> {"none", "offered", "accepted"}]
      /\ ackExpected' \in BOOLEAN /\ online' \in SUBSET Clients
    BY <1>1, <1>5 DEF ServerTypes
<1>7. QED BY <1>2, <1>3, <1>4, <1>5, <1>6, ServerStep

LEMMA EndSessionStep ==
    ASSUME Inv, NEW c \in Clients, EndSession(c), UNCHANGED flow
    PROVE  Inv' /\ Keeps
<1>1. WireTypes /\ ServerTypes BY InvParts
<1>2. UpKeeps /\ uplink' \in [Clients -> Seq(Frame)]
    BY <1>1, ReceiveUp, ReceiveTypes DEF EndSession
<1>3. PICK conns : Deliver(conns, "abort")
    BY DEF EndSession
<1>4. InKeeps /\ packets' \in [Clients -> Seq(Kinds)]
    BY <1>1, <1>3, DeliverIn, DeliverTypes DEF Kinds
<1>5. legs' \in [Receivers -> {"none", "offered", "accepted"}]
    BY <1>1 DEF EndSession, ServerTypes
<1>6. ackExpected' \in BOOLEAN
    BY Zenon DEF EndSession
<1>7. online' \in SUBSET Clients
    BY <1>1 DEF EndSession, ServerTypes
<1>8. UNCHANGED <<target, clientVars, frames>>
    BY DEF EndSession
<1>9. frames' \in [Receivers -> Seq(0 .. Chunks)]
    BY <1>1, <1>8 DEF WireTypes
<1>10. QED BY <1>2, <1>4, <1>5, <1>6, <1>7, <1>8, <1>9, ServerStep

-----------------------------------------------------------------------------
(* The offer                                                               *)

LEMMA DeliverOffer ==
    ASSUME WireTypes, NEW conns, Deliver(conns, "offer")
    PROVE  /\ \A r \in Receivers : NoOfferIn(r) => OnceIn(r)'
           /\ AckIn' => AckIn
<1>1. ASSUME NEW c \in Clients, packets'[c] = Append(packets[c], "offer")
      PROVE  \A i \in 1 .. Len(packets'[c]) :
                \/ i \in 1 .. Len(packets[c]) /\ packets'[c][i] = packets[c][i]
                \/ i = Len(packets[c]) + 1 /\ packets'[c][i] = "offer"
    <2>1. packets[c] \in Seq(Kinds) /\ "offer" \in Kinds BY DEF WireTypes, Kinds
    <2>2. /\ Len(packets[c]) \in Nat
          /\ Len(packets'[c]) = Len(packets[c]) + 1
          /\ \A i \in 1 .. Len(packets[c]) : packets'[c][i] = packets[c][i]
          /\ packets'[c][Len(packets[c]) + 1] = "offer"
        BY <1>1, <2>1, AppendFacts
    <2>3. QED BY <2>2
<1>2. \A c \in Clients :
          packets'[c] = packets[c] \/ packets'[c] = Append(packets[c], "offer")
    BY DeliverTypes DEF Kinds
<1>3. ASSUME NEW r \in Receivers, NoOfferIn(r) PROVE OnceIn(r)'
    <2>1. r \in Clients BY SetFacts
    <2>2. CASE packets'[r] = packets[r] BY <1>3, <2>2 DEF NoOfferIn, OnceIn
    <2>3. CASE packets'[r] = Append(packets[r], "offer")
        BY <1>1, <1>3, <2>1, <2>3 DEF NoOfferIn, OnceIn
    <2>4. QED BY <1>2, <2>1, <2>2, <2>3
<1>4. AckIn' => AckIn
    <2>1. CASE packets'[Sender] = packets[Sender] BY <2>1 DEF AckIn
    <2>2. CASE packets'[Sender] = Append(packets[Sender], "offer")
        BY <1>1, <2>2, SetFacts DEF AckIn
    <2>3. QED BY <1>2, <2>1, <2>2, SetFacts
<1>5. QED BY <1>3, <1>4

\* The offer leaves the wire to the server, and none follows.
LEMMA OfferPasses ==
    ASSUME Inv, Receive(Sender, "offer"), UNCHANGED <<target, clientVars, frames, flow>>,
           packets' \in [Clients -> Seq(Kinds)],
           legs' \in [Receivers -> {"none", "offered", "accepted"}],
           ackExpected' \in BOOLEAN, online' \in SUBSET Clients,
           \A r \in Receivers : NoOfferIn(r) => OnceIn(r)',
           AckIn' => AckIn
    PROVE  Inv'
<1>1. WireTypes /\ ServerTypes BY InvParts
<1>2. UNCHANGED <<local, outcome>>
    BY DEF clientVars
<1>3. /\ UpKeeps /\ uplink' \in [Clients -> Seq(Frame)]
      /\ OnceUp => ~NoOfferUp /\ NoOfferUp'
    BY <1>1, SetFacts, ReceiveUp, ReceiveTypes
<1>4. TypeInv'
    <2>1. target \in Targets /\ flow \in Flows /\ ClientTypes /\ TaskType BY InvParts
    <2>2. target' \in Targets /\ flow' \in Flows /\ ClientTypes' /\ TaskType'
        BY <2>1 DEF clientVars, ClientTypes, TaskType
    <2>3. WireTypes' BY <1>1, <1>3 DEF WireTypes
    <2>4. ServerTypes' BY DEF ServerTypes
    <2>5. QED BY <2>2, <2>3, <2>4, TypePartsNext
<1>5. OfferOnce'
    <2>1. ~Fresh /\ ~NoOfferUp /\ NoOfferUp' /\ OnceUp'
        BY <1>3 DEF Inv, OfferOnce, UpKeeps
    <2>2. ~Fresh' BY <1>2, <2>1 DEF Fresh
    <2>3. ASSUME NEW r \in Receivers PROVE OnceIn(r)' /\ Untouched(r)'
        <3>1. NoOfferIn(r) /\ Untouched(r) BY <2>1 DEF Inv, OfferOnce
        <3>2. Untouched(r)' BY <1>2, <3>1 DEF Untouched, Saved
        <3>3. QED BY <3>1, <3>2
    <2>4. QED BY <2>1, <2>2, <2>3 DEF OfferOnce
<1>6. AcksAreTrue'
    <2>1. \A r \in Receivers : AckUp(r)' => AckUp(r) \/ Saved(r)'
        BY <1>3 DEF UpKeeps
    <2>2. \A r \in Receivers : Saved(r)' <=> Saved(r)
        BY <1>2 DEF Saved
    <2>3. QED BY <1>2, <2>1, <2>2 DEF Inv, AcksAreTrue
<1>7. QED BY <1>4, <1>5, <1>6 DEF Inv

LEMMA RelayOfferStep ==
    ASSUME Inv, RelayOffer, UNCHANGED flow
    PROVE  Inv'
<1>1. WireTypes /\ ServerTypes BY InvParts
<1>2. UNCHANGED <<target, clientVars, frames, ackExpected, online>>
    BY DEF RelayOffer
<1>3. /\ frames' \in [Receivers -> Seq(0 .. Chunks)]
      /\ ackExpected' \in BOOLEAN /\ online' \in SUBSET Clients
    BY <1>1, <1>2 DEF WireTypes, ServerTypes
<1>4. legs' \in [Receivers -> {"none", "offered", "accepted"}]
    <2>1. CASE UNCHANGED legs BY <1>1, <2>1 DEF ServerTypes
    <2>2. CASE \E found : legs' = [r \in Receivers |-> IF r \in found THEN "offered" ELSE "none"]
        BY <2>2
    <2>3. QED BY <2>1, <2>2 DEF RelayOffer
<1>5. CASE \E conns : Deliver(conns, "offer")
    <2>1. PICK conns : Deliver(conns, "offer") BY <1>5
    <2>2. packets' \in [Clients -> Seq(Kinds)]
        BY <1>1, <2>1, DeliverTypes DEF Kinds
    <2>3. (\A r \in Receivers : NoOfferIn(r) => OnceIn(r)') /\ (AckIn' => AckIn)
        BY <1>1, <2>1, DeliverOffer
    <2>4. Receive(Sender, "offer") BY DEF RelayOffer
    <2>5. QED BY <1>2, <1>3, <1>4, <2>2, <2>3, <2>4, OfferPasses
<1>6. CASE Deliver({Sender}, "tooLarge") \/ Deliver({Sender}, "error")
    <2>1. InKeeps /\ packets' \in [Clients -> Seq(Kinds)]
        BY <1>1, <1>6, DeliverIn, DeliverTypes DEF Kinds
    <2>2. UpKeeps /\ uplink' \in [Clients -> Seq(Frame)]
        BY <1>1, SetFacts, ReceiveUp, ReceiveTypes DEF RelayOffer
    <2>3. QED BY <1>2, <1>3, <1>4, <2>1, <2>2, ServerStep
<1>7. QED BY <1>5, <1>6 DEF RelayOffer, Complain

-----------------------------------------------------------------------------
(* The sweeper                                                             *)

\* A queue gets an error or an abort, and at one place an offer.
GrowsBySweep(c, m) ==
    \A i \in 1 .. Len(packets'[c]) :
        \/ i \in 1 .. Len(packets[c]) /\ packets'[c][i] = packets[c][i]
        \/ c \in Receivers \cap Addressed /\ i = m /\ packets'[c][i] = "offer"
        \/ c \in Receivers /\ packets'[c][i] = "abort"
        \/ c = Sender /\ packets'[c][i] = "error"

Grown(c) == packets'[c] # <<>> => packets[c] # <<>> \/ c \in up

LEMMA SweepQueues ==
    ASSUME WireTypes, Sweep
    PROVE  /\ packets' \in [Clients -> Seq(Kinds)]
           /\ \A c \in Clients : GrowsBySweep(c, 0) /\ Grown(c)
<1>1. {"error", "abort"} \subseteq Kinds BY DEF Kinds
<1>2. \A c \in Clients :
          \/ packets'[c] = packets[c]
          \/ c = Sender /\ c \in up /\ packets'[c] = Append(packets[c], "error")
          \/ c \in Receivers /\ c \in up /\ packets'[c] = Append(packets[c], "abort")
    BY DEF Sweep, Listening
<1>3. ASSUME NEW c \in Clients, NEW k \in Kinds
      PROVE  /\ Append(packets[c], k) \in Seq(Kinds)
             /\ Len(packets[c]) \in Nat
             /\ \A i \in 1 .. Len(Append(packets[c], k)) :
                  \/ i \in 1 .. Len(packets[c]) /\ Append(packets[c], k)[i] = packets[c][i]
                  \/ Append(packets[c], k)[i] = k
    <2>1. packets[c] \in Seq(Kinds) BY DEF WireTypes
    <2>2. QED BY <2>1, AppendFacts
<1>4. DOMAIN packets' = Clients /\ packets' = [c \in Clients |-> packets'[c]]
    BY DEF Sweep
<1>5. \A c \in Clients : packets'[c] \in Seq(Kinds)
    <2> SUFFICES ASSUME NEW c \in Clients PROVE packets'[c] \in Seq(Kinds)
        OBVIOUS
    <2>1. CASE packets'[c] = packets[c] BY <2>1 DEF WireTypes
    <2>2. CASE packets'[c] = Append(packets[c], "error") BY <1>1, <1>3, <2>2
    <2>3. CASE packets'[c] = Append(packets[c], "abort") BY <1>1, <1>3, <2>3
    <2>4. QED BY <1>2, <2>1, <2>2, <2>3
<1>6. \A c \in Clients : GrowsBySweep(c, 0)
    <2> SUFFICES ASSUME NEW c \in Clients PROVE GrowsBySweep(c, 0)
        OBVIOUS
    <2>1. CASE packets'[c] = packets[c] BY <2>1 DEF GrowsBySweep
    <2>2. CASE c = Sender /\ packets'[c] = Append(packets[c], "error")
        BY <1>1, <1>3, <2>2 DEF GrowsBySweep
    <2>3. CASE c \in Receivers /\ packets'[c] = Append(packets[c], "abort")
        BY <1>1, <1>3, <2>3 DEF GrowsBySweep
    <2>4. QED BY <1>2, <2>1, <2>2, <2>3
<1>7. \A c \in Clients : Grown(c) BY <1>2 DEF Grown
<1>8. QED BY <1>4, <1>5, <1>6, <1>7

LEMMA SweepStep ==
    ASSUME Inv, Sweep
    PROVE  Inv' /\ Keeps
<1>1. WireTypes /\ ServerTypes BY InvParts
<1>2. UNCHANGED <<target, clientVars, uplink, frames, flow>> BY DEF Sweep
<1>3. /\ packets' \in [Clients -> Seq(Kinds)]
      /\ \A c \in Clients : GrowsBySweep(c, 0)
    BY <1>1, SweepQueues
<1>4. \A r \in Receivers : (NoOfferIn(r) => NoOfferIn(r)') /\ (OnceIn(r) => OnceIn(r)')
    BY <1>3, SetFacts DEF GrowsBySweep, NoOfferIn, OnceIn
<1>5. AckIn' => AckIn BY <1>3, SetFacts DEF GrowsBySweep, AckIn
<1>6. InKeeps BY <1>4, <1>5 DEF InKeeps
<1>7. legs' \in [Receivers -> {"none", "offered", "accepted"}]
    BY NoLegsType DEF Sweep
<1>8. ackExpected' \in BOOLEAN BY Zenon DEF Sweep
<1>9. online' \in SUBSET Clients BY <1>1 DEF Sweep, ServerTypes
<1>10. UpKeeps /\ uplink' \in [Clients -> Seq(Frame)]
       /\ frames' \in [Receivers -> Seq(0 .. Chunks)]
    BY <1>1, <1>2, SameUp DEF WireTypes
<1>11. QED BY <1>2, <1>3, <1>6, <1>7, <1>8, <1>9, <1>10, ServerStep

LEMMA TwoAppended ==
    ASSUME NEW S, NEW s \in Seq(S), NEW d \in S, NEW e \in S
    PROVE  /\ Append(Append(s, d), e) \in Seq(S)
           /\ Len(s) \in Nat
           /\ Len(Append(Append(s, d), e)) = Len(s) + 2
           /\ \A i \in 1 .. Len(s) : Append(Append(s, d), e)[i] = s[i]
           /\ Append(Append(s, d), e)[Len(s) + 1] = d
           /\ Append(Append(s, d), e)[Len(s) + 2] = e
<1>1. /\ Append(s, d) \in Seq(S) /\ Len(s) \in Nat /\ Len(Append(s, d)) = Len(s) + 1
      /\ \A i \in 1 .. Len(s) : Append(s, d)[i] = s[i]
      /\ Append(s, d)[Len(s) + 1] = d
    BY AppendFacts
<1>2. /\ Append(Append(s, d), e) \in Seq(S)
      /\ Len(Append(Append(s, d), e)) = Len(Append(s, d)) + 1
      /\ \A i \in 1 .. Len(Append(s, d)) : Append(Append(s, d), e)[i] = Append(s, d)[i]
      /\ Append(Append(s, d), e)[Len(Append(s, d)) + 1] = e
    BY <1>1, AppendFacts
<1>3. QED BY <1>1, <1>2

LEMMA SweepOfferQueues ==
    ASSUME Inv, SweepDuringOffer
    PROVE  /\ packets' \in [Clients -> Seq(Kinds)]
           /\ \A c \in Clients : (\E m : GrowsBySweep(c, m)) /\ Grown(c)
<1>0. WireTypes BY InvParts
<1>1. {"error", "abort", "offer"} \subseteq Kinds BY DEF Kinds
<1> DEFINE found == Addressed \cap online
<1>2. PICK noted \in SUBSET found : \E late \in SUBSET (noted \cap Overtaken) :
          packets' = [c \in Clients |->
              CASE c \in Listening({Sender}) -> Append(packets[c], "error")
                [] c \in Listening(late) -> Append(Append(packets[c], "abort"), "offer")
                [] c \in Listening(noted \ late) ->
                      Append(Append(packets[c], "offer"), "abort")
                [] c \in Listening(found \ noted) -> Append(packets[c], "offer")
                [] OTHER -> packets[c]]
    BY DEF SweepDuringOffer
<1>3. PICK late \in SUBSET (noted \cap Overtaken) :
          packets' = [c \in Clients |->
              CASE c \in Listening({Sender}) -> Append(packets[c], "error")
                [] c \in Listening(late) -> Append(Append(packets[c], "abort"), "offer")
                [] c \in Listening(noted \ late) ->
                      Append(Append(packets[c], "offer"), "abort")
                [] c \in Listening(found \ noted) -> Append(packets[c], "offer")
                [] OTHER -> packets[c]]
    BY <1>2
<1>4. DOMAIN packets' = Clients /\ packets' = [c \in Clients |-> packets'[c]]
    BY <1>3
<1>5. ASSUME NEW c \in Clients
      PROVE  packets'[c] \in Seq(Kinds) /\ (\E m : GrowsBySweep(c, m)) /\ Grown(c)
    <2>1. packets[c] \in Seq(Kinds) BY <1>0 DEF WireTypes
    <2> DEFINE q == packets[c]
    <2>2. packets'[c] =
              CASE c \in Listening({Sender}) -> Append(q, "error")
                [] c \in Listening(late) -> Append(Append(q, "abort"), "offer")
                [] c \in Listening(noted \ late) -> Append(Append(q, "offer"), "abort")
                [] c \in Listening(found \ noted) -> Append(q, "offer")
                [] OTHER -> q
        BY <1>3
    <2>3. found \subseteq Addressed /\ Addressed \subseteq Receivers
        <3>1. target \in Targets BY InvParts
        <3>2. QED BY <3>1, FileTransferAssumption DEF Addressed, Broadcast
    <2> HIDE DEF found
    <2>4. CASE c \in Listening({Sender})
        <3>1. c = Sender /\ c \in up BY <2>4 DEF Listening
        <3>2. packets'[c] = Append(q, "error")
            BY <2>2, <2>3, <2>4, <3>1, SetFacts DEF Listening
        <3>3. QED BY <1>1, <2>1, <3>1, <3>2, AppendFacts DEF GrowsBySweep, Grown
    <2>5. ASSUME c \notin Listening({Sender}), c \in Listening(found)
          PROVE  packets'[c] \in Seq(Kinds) /\ (\E m : GrowsBySweep(c, m)) /\ Grown(c)
        <3>1. c \in Receivers \cap Addressed /\ c \in up BY <2>3, <2>5 DEF Listening
        <3>2. CASE c \in late
            <4>1. packets'[c] = Append(Append(q, "abort"), "offer")
                BY <2>2, <2>5, <3>2 DEF Listening
            <4>2. GrowsBySweep(c, Len(q) + 2)
                BY <1>1, <2>1, <3>1, <4>1, TwoAppended DEF GrowsBySweep
            <4>3. QED BY <1>1, <2>1, <3>1, <4>1, <4>2, TwoAppended DEF Grown
        <3>3. CASE c \in noted \ late
            <4>1. packets'[c] = Append(Append(q, "offer"), "abort")
                BY <2>2, <2>5, <3>3 DEF Listening
            <4>2. GrowsBySweep(c, Len(q) + 1)
                BY <1>1, <2>1, <3>1, <4>1, TwoAppended DEF GrowsBySweep
            <4>3. QED BY <1>1, <2>1, <3>1, <4>1, <4>2, TwoAppended DEF Grown
        <3>4. CASE c \notin noted
            <4>1. packets'[c] = Append(q, "offer")
                BY <2>2, <2>5, <3>4 DEF Listening
            <4>2. GrowsBySweep(c, Len(q) + 1)
                BY <1>1, <2>1, <3>1, <4>1, AppendFacts DEF GrowsBySweep
            <4>3. QED BY <1>1, <2>1, <3>1, <4>1, <4>2, AppendFacts DEF Grown
        <3>5. QED BY <3>2, <3>3, <3>4
    <2>6. CASE c \notin Listening({Sender}) /\ c \notin Listening(found)
        <3>1. packets'[c] = q BY <2>2, <2>6 DEF Listening
        <3>2. GrowsBySweep(c, 0) BY <3>1 DEF GrowsBySweep
        <3>3. QED BY <2>1, <3>1, <3>2 DEF Grown
    <2>7. QED BY <2>4, <2>5, <2>6
<1>6. QED BY <1>4, <1>5

LEMMA SweepDuringOfferStep ==
    ASSUME Inv, SweepDuringOffer
    PROVE  Inv'
<1>1. WireTypes /\ ServerTypes BY InvParts
<1>2. /\ Receive(Sender, "offer")
      /\ UNCHANGED <<target, clientVars, frames, ackExpected, flow>>
      /\ online' = online \ {Sender}
    BY DEF SweepDuringOffer
<1>3. /\ packets' \in [Clients -> Seq(Kinds)]
      /\ \A c \in Clients : \E m : GrowsBySweep(c, m)
    BY SweepOfferQueues
<1>4. ASSUME NEW r \in Receivers, NoOfferIn(r) PROVE OnceIn(r)'
    <2>1. PICK m : GrowsBySweep(r, m) BY <1>3, SetFacts
    <2>2. QED BY <1>4, <2>1, SetFacts DEF GrowsBySweep, NoOfferIn, OnceIn
<1>5. ASSUME AckIn' PROVE AckIn
    <2>1. PICK m : GrowsBySweep(Sender, m) BY <1>3, SetFacts
    <2>2. QED BY <1>5, <2>1, SetFacts DEF GrowsBySweep, AckIn
<1>6. legs' \in [Receivers -> {"none", "offered", "accepted"}]
    BY DEF SweepDuringOffer
<1>7. ackExpected' \in BOOLEAN /\ online' \in SUBSET Clients
    BY <1>1, <1>2 DEF ServerTypes
<1>8. QED BY <1>2, <1>3, <1>4, <1>5, <1>6, <1>7, OfferPasses

LEMMA SendOfferUp ==
    ASSUME WireTypes, Send(Sender, Packet("offer")), NoOfferUp
    PROVE  /\ uplink' \in [Clients -> Seq(Frame)]
           /\ OnceUp'
           /\ \A r \in Receivers : AckUp(r)' => AckUp(r)
<1>1. Packet("offer") \in Frame /\ Sender \in Clients /\ uplink[Sender] \in Seq(Frame)
    BY SetFacts DEF Kinds, WireTypes
<1>2. /\ uplink' \in [Clients -> Seq(Frame)]
      /\ uplink'[Sender] = Append(uplink[Sender], Packet("offer"))
      /\ \A d \in Clients \ {Sender} : uplink'[d] = uplink[d]
    BY <1>1, SendTypes
<1>3. /\ Len(uplink[Sender]) \in Nat
      /\ Len(uplink'[Sender]) = Len(uplink[Sender]) + 1
      /\ \A i \in 1 .. Len(uplink[Sender]) : uplink'[Sender][i] = uplink[Sender][i]
    BY <1>1, <1>2, AppendFacts
<1>4. OnceUp'
    <2>1. \A i \in 1 .. Len(uplink'[Sender]) :
              uplink'[Sender][i].kind = "offer" => i = Len(uplink[Sender]) + 1
        BY <1>3 DEF NoOfferUp
    <2>2. QED BY <2>1 DEF OnceUp
<1>5. ASSUME NEW r \in Receivers PROVE AckUp(r)' => AckUp(r)
    <2>1. uplink'[r] = uplink[r] BY <1>2, SetFacts
    <2>2. QED BY <2>1 DEF AckUp
<1>6. QED BY <1>2, <1>4, <1>5

\* The offer is made, by either sender.
LEMMA OfferStep ==
    ASSUME Inv, Fresh, ~Fresh', flow' \in Flows,
           Send(Sender, Packet("offer")),
           local' \in [Clients -> LocalStates],
           \A r \in Receivers : local'[r] = local[r],
           UNCHANGED <<target, next, task, outcome, packets, frames, up, serverVars>>
    PROVE  Inv'
<1>1. /\ target \in Targets /\ ClientTypes /\ TaskType /\ WireTypes /\ ServerTypes
    BY InvParts
<1>2. NoOfferUp /\ \A r \in Receivers : NoOfferIn(r) /\ Untouched(r)
    BY DEF Inv, OfferOnce
<1>3. /\ uplink' \in [Clients -> Seq(Frame)]
      /\ OnceUp'
      /\ \A r \in Receivers : AckUp(r)' => AckUp(r)
    BY <1>1, <1>2, SendOfferUp
<1>4. TypeInv'
    <2>1. target' \in Targets /\ TaskType' BY <1>1 DEF TaskType
    <2>2. ClientTypes' BY <1>1 DEF ClientTypes
    <2>3. WireTypes' BY <1>1, <1>3 DEF WireTypes
    <2>4. ServerTypes' BY <1>1 DEF ServerTypes, serverVars
    <2>5. QED BY <2>1, <2>2, <2>3, <2>4, TypePartsNext
<1>5. \A r \in Receivers : NoOfferIn(r)' /\ OnceIn(r)' /\ Untouched(r)'
    <2>1. \A r \in Receivers : NoOfferIn(r)' /\ OnceIn(r)'
        BY <1>2 DEF NoOfferIn, OnceIn
    <2>2. \A r \in Receivers : Untouched(r)' BY <1>2 DEF Untouched, Saved
    <2>3. QED BY <2>1, <2>2
<1>6. OfferOnce' BY <1>3, <1>5 DEF OfferOnce
<1>7. AcksAreTrue'
    <2>1. \A r \in Receivers : (Saved(r)' => Saved(r)) /\ (Saved(r) => Saved(r)')
        BY DEF Saved
    <2>2. AckIn' => AckIn BY DEF AckIn
    <2>3. QED BY <1>3, <2>1, <2>2 DEF Inv, AcksAreTrue
<1>8. QED BY <1>4, <1>6, <1>7 DEF Inv

LEMMA SessionOfferStep ==
    ASSUME Inv, Offer, flow = "none", UNCHANGED flow
    PROVE  Inv'
<1>1. ClientTypes /\ flow \in Flows BY InvParts
<1>2. local' = [local EXCEPT ![Sender] = "WaitingAccept"] BY DEF Offer, InsertOutgoing
<1>3. /\ local' \in [Clients -> LocalStates]
      /\ \A r \in Receivers : local'[r] = local[r]
      /\ local'[Sender] = "WaitingAccept"
    BY <1>1, <1>2, SetFacts DEF ClientTypes, LocalStates
<1>4. Fresh BY DEF Offer, Fresh
<1>5. ~Fresh' BY <1>3 DEF Fresh
<1>6. QED BY <1>1, <1>3, <1>4, <1>5, OfferStep DEF Offer

LEMMA CommandOfferStep ==
    ASSUME Inv, SendOffer
    PROVE  Inv'
<1>1. ClientTypes BY InvParts
<1>2. UNCHANGED local BY DEF SendOffer
<1>3. /\ local' \in [Clients -> LocalStates]
      /\ \A r \in Receivers : local'[r] = local[r]
    BY <1>1, <1>2 DEF ClientTypes
<1>4. Fresh BY DEF SendOffer, Fresh
<1>5. flow' \in Flows /\ ~Fresh' BY DEF SendOffer, Goes, Fresh, Flows
<1>6. QED BY <1>3, <1>4, <1>5, OfferStep DEF SendOffer

-----------------------------------------------------------------------------
(* What clients do                                                         *)

LEMMA ClientStep ==
    ASSUME Inv, UNCHANGED <<target, serverVars>>, flow' \in Flows,
           UpKeeps, InKeeps, StoresFollow, SenderFollows,
           TaskType',
           local' \in [Clients -> LocalStates],
           next' \in [Receivers -> 0 .. TotalChunks],
           outcome' \in [Clients -> Outcomes],
           up' \in SUBSET Clients,
           uplink' \in [Clients -> Seq(Frame)],
           packets' \in [Clients -> Seq(Kinds)],
           frames' \in [Receivers -> Seq(0 .. Chunks)]
    PROVE  Inv' /\ Keeps
<1>1. target \in Targets /\ ServerTypes BY InvParts
<1>2. target' \in Targets /\ ServerTypes' BY <1>1 DEF ServerTypes, serverVars
<1>3. ClientTypes' BY DEF ClientTypes
<1>4. WireTypes' BY DEF WireTypes
<1>5. TypeInv' BY <1>2, <1>3, <1>4, TypePartsNext
<1>6. QED BY <1>5, PartsKeepInv

\* What stays of the types when a variable stays.
LEMMA Kept ==
    ASSUME Inv
    PROVE  /\ UNCHANGED flow => flow' \in Flows
           /\ UNCHANGED task => TaskType'
           /\ UNCHANGED local => local' \in [Clients -> LocalStates]
           /\ UNCHANGED next => next' \in [Receivers -> 0 .. TotalChunks]
           /\ UNCHANGED outcome => outcome' \in [Clients -> Outcomes]
           /\ UNCHANGED up => up' \in SUBSET Clients
           /\ UNCHANGED uplink => uplink' \in [Clients -> Seq(Frame)]
           /\ UNCHANGED packets => packets' \in [Clients -> Seq(Kinds)]
           /\ UNCHANGED frames => frames' \in [Receivers -> Seq(0 .. Chunks)]
<1>1. flow \in Flows /\ ClientTypes /\ TaskType /\ WireTypes BY InvParts
<1>2. UNCHANGED task => TaskType' BY <1>1 DEF TaskType
<1>3. QED BY <1>1, <1>2 DEF ClientTypes, WireTypes

\* A file leaves a store that has it, with a word about its end.
LEMMA ForgetKeeps ==
    ASSUME Inv, NEW c \in Clients, NEW why \in Outcomes \ {"none"}, Forget(c, why),
           c \in Receivers => local[c] # "absent",
           c = Sender /\ why = "delivered" => AckIn,
           UNCHANGED flow
    PROVE  /\ StoresFollow /\ SenderFollows
           /\ local' \in [Clients -> LocalStates]
           /\ outcome' \in [Clients -> Outcomes]
<1>1. ClientTypes BY InvParts
<1>2. /\ local' \in [Clients -> LocalStates]
      /\ outcome' \in [Clients -> Outcomes]
      /\ local'[c] = "absent" /\ outcome'[c] = why
      /\ \A d \in Clients \ {c} : local'[d] = local[d] /\ outcome'[d] = outcome[d]
    BY <1>1, ForgetTypes
<1>3. StoresFollow
    <2>1. ASSUME NEW r \in Receivers
          PROVE  /\ local[r] = "absent" =>
                        outcome'[r] = outcome[r] /\ local'[r] = "absent"
                 /\ outcome'[r] = "saved" => outcome[r] = "saved" \/ local'[r] = "absent"
        <3>1. CASE r = c BY <1>2, <3>1
        <3>2. CASE r # c BY <1>2, <3>2, SetFacts
        <3>3. QED BY <3>1, <3>2
    <2>2. QED BY <2>1 DEF StoresFollow, Saved
<1>4. SenderFollows
    <2>1. CASE c = Sender BY <1>2, <2>1 DEF SenderFollows, Fresh
    <2>2. CASE c # Sender
        <3>1. local'[Sender] = local[Sender] /\ outcome'[Sender] = outcome[Sender]
            BY <1>2, <2>2, SetFacts
        <3>2. QED BY <3>1 DEF SenderFollows, Fresh
    <2>3. QED BY <2>1, <2>2
<1>5. QED BY <1>2, <1>3, <1>4

\* A receiver's file changes its state.
LEMMA ReceiverKeeps ==
    ASSUME Inv, NEW r \in Receivers, NEW state \in {"PendingOffer", "Receiving"},
           local' = [local EXCEPT ![r] = state], next' = [next EXCEPT ![r] = 0],
           local[r] # "absent" \/ (~NoOfferIn(r) /\ NoOfferIn(r)'),
           UNCHANGED <<outcome, flow>>
    PROVE  /\ StoresFollow /\ SenderFollows
           /\ local' \in [Clients -> LocalStates]
           /\ next' \in [Receivers -> 0 .. TotalChunks]
<1>1. ClientTypes BY InvParts
<1>2. r \in Clients /\ r # Sender BY SetFacts
<1>3. /\ local' \in [Clients -> LocalStates]
      /\ \A d \in Clients \ {r} : local'[d] = local[d]
    BY <1>1, <1>2 DEF ClientTypes, LocalStates
<1>4. next' \in [Receivers -> 0 .. TotalChunks] BY <1>1, SetFacts DEF ClientTypes
<1>5. StoresFollow
    <2>1. ASSUME NEW q \in Receivers
          PROVE  local[q] = "absent" =>
                    local'[q] = "absent" \/ (~NoOfferIn(q) /\ NoOfferIn(q)')
        <3>1. CASE q = r BY <3>1
        <3>2. CASE q # r
            <4>1. q \in Clients \ {r} BY <3>2, SetFacts
            <4>2. QED BY <1>3, <4>1
        <3>3. QED BY <3>1, <3>2
    <2>2. QED BY <2>1 DEF StoresFollow, Saved
<1>6. SenderFollows
    <2>1. local'[Sender] = local[Sender] BY <1>2, <1>3, SetFacts
    <2>2. QED BY <2>1 DEF SenderFollows, Fresh
<1>7. QED BY <1>3, <1>4, <1>5, <1>6

LEMMA SendAcceptStep ==
    ASSUME Inv, NEW r \in Receivers, SendAccept(r),
           local[r] # "absent" \/ (~NoOfferIn(r) /\ NoOfferIn(r)'),
           InKeeps, packets' \in [Clients -> Seq(Kinds)],
           UNCHANGED <<target, task, outcome, frames, up, serverVars, flow>>
    PROVE  Inv' /\ Keeps
<1>1. WireTypes BY InvParts
<1>2. r \in Clients /\ Packet("accept") \in Frame /\ Packet("accept").kind = "accept"
    BY SetFacts DEF Kinds
<1>3. UpKeeps /\ uplink' \in [Clients -> Seq(Frame)]
    BY <1>1, <1>2, SendUp, SendTypes DEF SendAccept
<1>4. local' = [local EXCEPT ![r] = "Receiving"] /\ next' = [next EXCEPT ![r] = 0]
    BY DEF SendAccept, MoveToIncoming
<1>5. /\ StoresFollow /\ SenderFollows
      /\ local' \in [Clients -> LocalStates]
      /\ next' \in [Receivers -> 0 .. TotalChunks]
    BY <1>4, ReceiverKeeps
<1>6. QED BY <1>3, <1>5, Kept, ClientStep

LEMMA AcceptStep ==
    ASSUME Inv, NEW r \in Receivers, Accept(r), UNCHANGED flow
    PROVE  Inv' /\ Keeps
<1>1. InKeeps /\ packets' \in [Clients -> Seq(Kinds)]
    BY SameIn, Kept DEF Accept
<1>2. QED BY <1>1, SendAcceptStep DEF Accept

LEMMA OnOfferStep ==
    ASSUME Inv, NEW r \in Receivers, OnOffer(r), UNCHANGED flow
    PROVE  Inv' /\ Keeps
<1>1. WireTypes /\ r \in Clients /\ OnceIn(r) BY InvParts, SetFacts DEF Inv, OfferOnce
<1>2. /\ InKeeps /\ packets' \in [Clients -> Seq(Kinds)]
      /\ ~NoOfferIn(r) /\ NoOfferIn(r)'
    BY <1>1, TakeIn, TakeTypes DEF OnOffer
<1>3. CASE SendAccept(r) BY <1>2, <1>3, SendAcceptStep DEF OnOffer
<1>4. CASE InsertPendingOffer(r) /\ UNCHANGED uplink
    <2>1. local' = [local EXCEPT ![r] = "PendingOffer"] /\ next' = [next EXCEPT ![r] = 0]
        BY <1>4 DEF InsertPendingOffer
    <2>2. /\ StoresFollow /\ SenderFollows
          /\ local' \in [Clients -> LocalStates]
          /\ next' \in [Receivers -> 0 .. TotalChunks]
        BY <1>2, <2>1, ReceiverKeeps DEF OnOffer
    <2>3. UpKeeps BY <1>4, SameUp
    <2>4. QED BY <1>2, <1>4, <2>2, <2>3, Kept, ClientStep DEF OnOffer
<1>5. QED BY <1>3, <1>4 DEF OnOffer

LEMMA RejectStep ==
    ASSUME Inv, NEW r \in Receivers, Reject(r), UNCHANGED flow
    PROVE  Inv' /\ Keeps
<1>1. WireTypes /\ r \in Clients BY InvParts, SetFacts
<1>2. Packet("reject") \in Frame /\ Packet("reject").kind = "reject"
    BY SetFacts DEF Kinds
<1>3. UpKeeps /\ uplink' \in [Clients -> Seq(Frame)]
    BY <1>1, <1>2, SendUp, SendTypes DEF Reject
<1>4. /\ StoresFollow /\ SenderFollows
      /\ local' \in [Clients -> LocalStates]
      /\ outcome' \in [Clients -> Outcomes]
    BY <1>1, ForgetKeeps DEF Reject, Outcomes
<1>5. InKeeps BY SameIn DEF Reject
<1>6. QED BY <1>3, <1>4, <1>5, Kept, ClientStep DEF Reject

LEMMA AbortStep ==
    ASSUME Inv, NEW c \in Clients, Abort(c), UNCHANGED flow
    PROVE  Inv' /\ Keeps
<1>1. WireTypes BY InvParts
<1>2. Packet("abort") \in Frame /\ Packet("abort").kind = "abort"
    BY SetFacts DEF Kinds
<1>3. UpKeeps /\ uplink' \in [Clients -> Seq(Frame)]
    <2>1. CASE UNCHANGED uplink BY <2>1, SameUp, Kept
    <2>2. CASE Send(c, Packet("abort")) BY <1>1, <1>2, <2>2, SendUp, SendTypes
    <2>3. QED BY <2>1, <2>2 DEF Abort
<1>4. /\ StoresFollow /\ SenderFollows
      /\ local' \in [Clients -> LocalStates]
      /\ outcome' \in [Clients -> Outcomes]
    BY ForgetKeeps DEF Abort, Outcomes
<1>5. InKeeps BY SameIn DEF Abort
<1>6. QED BY <1>3, <1>4, <1>5, Kept, ClientStep DEF Abort

LEMMA EndedTaskType ==
    ASSUME TaskType, NEW at \in {"none", "check", "complete", "phase", "ended"},
           TaskGoes(at)
    PROVE  TaskType'
<1>1. task' = [task EXCEPT !.at = at] BY DEF TaskGoes
<1>2. task'.at = at BY <1>1 DEF TaskType
<1>3. task' \in [at: {"none", "check", "put", "complete", "phase", "ended"},
                 pos: 0 .. Chunks]
    BY <1>1 DEF TaskType
<1>4. QED BY <1>2, <1>3 DEF TaskType

LEMMA LeaveStep ==
    ASSUME Inv, NEW c \in Clients, Leave(c), UNCHANGED flow
    PROVE  Inv' /\ Keeps
<1>1. WireTypes /\ ClientTypes /\ TaskType BY InvParts
<1>2. /\ UpKeeps /\ uplink' \in [Clients -> Seq(Frame)]
      /\ up' \in SUBSET Clients
    BY <1>1, HangupUp, HangupTypes DEF Leave
<1>3. /\ StoresFollow /\ SenderFollows
      /\ local' \in [Clients -> LocalStates]
      /\ outcome' \in [Clients -> Outcomes]
    <2>1. CASE local[c] # "absent" BY <2>1, ForgetKeeps DEF Leave, Outcomes
    <2>2. CASE UNCHANGED <<local, outcome>> BY <2>2, SameStores, SameSender, Kept
    <2>3. QED BY <2>1, <2>2 DEF Leave
<1>4. InKeeps /\ packets' \in [Clients -> Seq(Kinds)]
    BY <1>1, ClearIn DEF Leave
<1>5. frames' \in [Receivers -> Seq(0 .. Chunks)]
    <2>1. <<>> \in Seq(0 .. Chunks) OBVIOUS
    <2>2. QED BY <1>1, <2>1 DEF Leave, WireTypes
<1>6. TaskType'
    <2>1. CASE task' = task BY <2>1, Kept
    <2>2. CASE task' = [task EXCEPT !.at = "ended"]
        BY <1>1, <2>2, EndedTaskType DEF TaskGoes
    <2>3. QED BY <2>1, <2>2 DEF Leave
<1>7. QED BY <1>2, <1>3, <1>4, <1>5, <1>6, Kept, ClientStep DEF Leave

\* A packet only the sender's own file reacts to.
LEMMA OnAcceptStep ==
    ASSUME Inv, OnAccept, UNCHANGED flow
    PROVE  Inv' /\ Keeps
<1>1. WireTypes /\ ClientTypes /\ TaskType BY InvParts
<1>2. InKeeps /\ packets' \in [Clients -> Seq(Kinds)]
    BY <1>1, SetFacts, TakeIn, TakeTypes DEF OnAccept
<1>3. /\ local' \in [Clients -> LocalStates]
      /\ \A r \in Receivers : local'[r] = local[r]
      /\ local'[Sender] = local[Sender] \/ local'[Sender] = "Sending"
    BY <1>1, SetFacts DEF OnAccept, TransitionTo, ClientTypes, LocalStates
<1>4. StoresFollow BY <1>3 DEF OnAccept, StoresFollow, Saved
<1>5. SenderFollows BY <1>3 DEF OnAccept, SenderFollows, Fresh
<1>6. TaskType'
    <2>1. CASE UNCHANGED task BY <2>1, Kept
    <2>2. CASE task' = [at |-> "check", pos |-> 0]
        BY <2>2, SetFacts DEF TaskType
    <2>3. QED BY <2>1, <2>2 DEF OnAccept, SpawnSendTask
<1>7. UpKeeps BY SameUp DEF OnAccept
<1>8. QED BY <1>2, <1>3, <1>4, <1>5, <1>6, <1>7, Kept, ClientStep DEF OnAccept

\* A packet that ends a file that is there.
LEMMA OnEndStep ==
    ASSUME Inv, NEW c \in Clients, NEW kind,
           NEW why \in Outcomes \ {"none", "delivered"},
           OnEnd(c, kind, why), UNCHANGED flow
    PROVE  Inv' /\ Keeps
<1>1. WireTypes BY InvParts
<1>2. InKeeps /\ packets' \in [Clients -> Seq(Kinds)]
    BY <1>1, TakeIn, TakeTypes DEF OnEnd
<1>3. /\ StoresFollow /\ SenderFollows
      /\ local' \in [Clients -> LocalStates]
      /\ outcome' \in [Clients -> Outcomes]
    <2>1. CASE local[c] # "absent" BY <2>1, ForgetKeeps DEF OnEnd
    <2>2. CASE UNCHANGED <<local, outcome>> BY <2>2, SameStores, SameSender, Kept
    <2>3. QED BY <2>1, <2>2 DEF OnEnd
<1>4. UpKeeps BY SameUp DEF OnEnd
<1>5. QED BY <1>2, <1>3, <1>4, Kept, ClientStep DEF OnEnd

LEMMA OnErrorStep ==
    ASSUME Inv, OnError, UNCHANGED flow
    PROVE  Inv' /\ Keeps
<1>1. WireTypes BY InvParts
<1>2. InKeeps /\ packets' \in [Clients -> Seq(Kinds)]
    BY <1>1, SetFacts, TakeIn, TakeTypes DEF OnError
<1>3. UNCHANGED <<target, local, next, task, outcome, up, uplink, frames, serverVars>>
    BY DEF OnError, clientVars
<1>4. UpKeeps /\ StoresFollow /\ SenderFollows
    BY <1>3, SameUp, SameStores, SameSender
<1>5. QED BY <1>2, <1>3, <1>4, Kept, ClientStep

LEMMA OnAckStep ==
    ASSUME Inv, NEW status \in {"delivered", "refused"}, OnAck(status), UNCHANGED flow
    PROVE  Inv' /\ Keeps
<1>1. WireTypes BY InvParts
<1>2. /\ InKeeps /\ packets' \in [Clients -> Seq(Kinds)]
      /\ status = "delivered" => AckIn
    BY <1>1, SetFacts, TakeIn, TakeTypes DEF OnAck
<1>3. /\ StoresFollow /\ SenderFollows
      /\ local' \in [Clients -> LocalStates]
      /\ outcome' \in [Clients -> Outcomes]
    <2>1. CASE Forget(Sender, status)
        <3>1. status \in Outcomes \ {"none"} BY DEF Outcomes
        <3>2. QED BY <1>2, <2>1, <3>1, SetFacts, ForgetKeeps
    <2>2. CASE UNCHANGED <<local, outcome>> BY <2>2, SameStores, SameSender, Kept
    <2>3. QED BY <2>1, <2>2 DEF OnAck
<1>4. UpKeeps BY SameUp DEF OnAck
<1>5. QED BY <1>2, <1>3, <1>4, Kept, ClientStep DEF OnAck

LEMMA OnCompleteStep ==
    ASSUME Inv, NEW r \in Receivers, OnComplete(r), UNCHANGED flow
    PROVE  Inv' /\ Keeps
<1>1. WireTypes /\ ClientTypes /\ r \in Clients BY InvParts, SetFacts
<1>2. InKeeps /\ packets' \in [Clients -> Seq(Kinds)]
    BY <1>1, TakeIn, TakeTypes DEF OnComplete
<1>3. CASE UNCHANGED <<local, outcome, uplink>>
    BY <1>2, <1>3, SameStores, SameSender, SameUp, Kept, ClientStep DEF OnComplete
<1>4. CASE local[r] = "Receiving" /\ Forget(r, "saved") /\ Send(r, Packet("ackOk"))
    <2>1. /\ StoresFollow /\ SenderFollows
          /\ local' \in [Clients -> LocalStates]
          /\ outcome' \in [Clients -> Outcomes]
        <3>1. "saved" \in Outcomes \ {"none"} BY DEF Outcomes
        <3>2. QED BY <1>1, <1>4, <3>1, ForgetKeeps DEF OnComplete
    <2>2. Saved(r)' BY <1>1, <1>4, ForgetTypes DEF Saved, Outcomes
    <2>3. Packet("ackOk") \in Frame /\ Packet("ackOk").kind = "ackOk"
        BY SetFacts DEF Kinds
    <2>4. UpKeeps /\ uplink' \in [Clients -> Seq(Frame)]
        BY <1>1, <1>4, <2>2, <2>3, SendUp, SendTypes
    <2>5. QED BY <1>2, <2>1, <2>4, Kept, ClientStep DEF OnComplete
<1>5. CASE /\ local[r] = "Receiving"
           /\ Forget(r, "incomplete") /\ Send(r, Packet("ackRejected"))
    <2>1. /\ StoresFollow /\ SenderFollows
          /\ local' \in [Clients -> LocalStates]
          /\ outcome' \in [Clients -> Outcomes]
        <3>1. "incomplete" \in Outcomes \ {"none"} BY DEF Outcomes
        <3>2. QED BY <1>1, <1>5, <3>1, ForgetKeeps DEF OnComplete
    <2>2. Packet("ackRejected") \in Frame /\ Packet("ackRejected").kind = "ackRejected"
        BY SetFacts DEF Kinds
    <2>3. UpKeeps /\ uplink' \in [Clients -> Seq(Frame)]
        BY <1>1, <1>5, <2>2, SendUp, SendTypes
    <2>4. QED BY <1>2, <2>1, <2>3, Kept, ClientStep DEF OnComplete
<1>6. QED BY <1>3, <1>4, <1>5 DEF OnComplete

LEMMA OnChunkStep ==
    ASSUME Inv, NEW r \in Receivers, OnChunk(r), UNCHANGED flow
    PROVE  Inv' /\ Keeps
<1>1. WireTypes /\ ClientTypes /\ r \in Clients BY InvParts, SetFacts
<1>2. frames' \in [Receivers -> Seq(0 .. Chunks)]
    <2>1. frames[r] # <<>> /\ frames[r] \in Seq(0 .. Chunks)
        BY <1>1 DEF OnChunk, WireTypes
    <2>2. Tail(frames[r]) \in Seq(0 .. Chunks) BY <2>1, TailFacts
    <2>3. QED BY <1>1, <2>2 DEF OnChunk, WireTypes
<1>3. InKeeps BY SameIn DEF OnChunk
<1>4. CASE ValidChunk(r, Head(frames[r])) /\ ApplyChunk(r)
           /\ UNCHANGED <<local, outcome, uplink>>
    <2>1. next' \in [Receivers -> 0 .. TotalChunks]
        <3>1. next[r] \in 0 .. TotalChunks BY <1>1 DEF ClientTypes
        <3>2. next[r] < TotalChunks BY <1>4 DEF ValidChunk
        <3>3. next[r] + 1 \in 0 .. TotalChunks BY <3>1, <3>2, SetFacts
        <3>4. QED BY <1>1, <1>4, <3>3 DEF ApplyChunk, ClientTypes
    <2>2. UpKeeps /\ StoresFollow /\ SenderFollows
        BY <1>4, SameUp, SameStores, SameSender
    <2>3. QED BY <1>2, <1>3, <1>4, <2>1, <2>2, Kept, ClientStep DEF OnChunk
<1>5. CASE local[r] = "Receiving" /\ FailIncoming(r) /\ UNCHANGED next
    <2>1. /\ StoresFollow /\ SenderFollows
          /\ local' \in [Clients -> LocalStates]
          /\ outcome' \in [Clients -> Outcomes]
        <3>1. "broken" \in Outcomes \ {"none"} BY DEF Outcomes
        <3>2. QED BY <1>1, <1>5, <3>1, ForgetKeeps DEF FailIncoming
    <2>2. Packet("abort") \in Frame /\ Packet("abort").kind = "abort"
        BY SetFacts DEF Kinds
    <2>3. UpKeeps /\ uplink' \in [Clients -> Seq(Frame)]
        BY <1>1, <1>5, <2>2, SendUp, SendTypes DEF FailIncoming
    <2>4. QED BY <1>2, <1>3, <1>5, <2>1, <2>3, Kept, ClientStep DEF OnChunk
<1>6. CASE UNCHANGED <<local, outcome, uplink, next>>
    BY <1>2, <1>3, <1>6, SameUp, SameStores, SameSender, Kept, ClientStep DEF OnChunk
<1>7. QED BY <1>4, <1>5, <1>6 DEF OnChunk

-----------------------------------------------------------------------------
(* The send task of a session                                              *)

LEMMA SendTaskStep ==
    ASSUME Inv, SendTask, UNCHANGED flow
    PROVE  Inv' /\ Keeps
<1>1. WireTypes /\ ClientTypes /\ TaskType BY InvParts
<1>2. InKeeps BY SameIn DEF SendTask, CheckOutgoing, PutChunk, PutComplete, AwaitAck, wireVars
<1>3. CASE CheckOutgoing
    <2>1. TaskType'
        <3>1. PICK at \in {"ended", "put", "complete"} :
                  task' = [task EXCEPT !.at = at] /\ (at = "put" => task.pos < Chunks)
            BY <1>1, <1>3 DEF CheckOutgoing, TaskGoes, TaskType
        <3>2. task'.at = at /\ task'.pos = task.pos BY <1>1, <3>1 DEF TaskType
        <3>3. task' \in [at: {"none", "check", "put", "complete", "phase", "ended"},
                         pos: 0 .. Chunks]
            BY <1>1, <3>1 DEF TaskType
        <3>4. QED BY <3>1, <3>2, <3>3 DEF TaskType
    <2>2. UNCHANGED <<target, local, next, outcome, up, uplink, packets, frames, serverVars>>
        BY <1>3 DEF CheckOutgoing, wireVars
    <2>3. UpKeeps /\ StoresFollow /\ SenderFollows
        BY <2>2, SameUp, SameStores, SameSender
    <2>4. QED BY <1>2, <2>1, <2>2, <2>3, Kept, ClientStep
<1>4. CASE PutChunk
    <2>1. task.pos \in 0 .. Chunks /\ task.pos + 1 \in 0 .. Chunks
        BY <1>1, <1>4, SetFacts DEF PutChunk, TaskType
    <2>2. TaskType'
        <3>1. task' = [at |-> "check", pos |-> task.pos + 1] BY <1>4 DEF PutChunk
        <3>2. QED BY <2>1, <3>1 DEF TaskType
    <2>3. Chunk(task.pos) \in Frame /\ Chunk(task.pos).kind = "chunk"
        BY <2>1, SetFacts
    <2>4. UpKeeps /\ uplink' \in [Clients -> Seq(Frame)]
        BY <1>1, <1>4, <2>3, SetFacts, SendUp, SendTypes DEF PutChunk
    <2>5. UNCHANGED <<target, local, next, outcome, up, packets, frames, serverVars>>
        BY <1>4 DEF PutChunk
    <2>6. StoresFollow /\ SenderFollows BY <2>5, SameStores, SameSender
    <2>7. QED BY <1>2, <2>2, <2>4, <2>5, <2>6, Kept, ClientStep
<1>5. CASE PutComplete
    <2>1. TaskType' BY <1>1, <1>5, EndedTaskType DEF PutComplete
    <2>2. Packet("complete") \in Frame /\ Packet("complete").kind = "complete"
        BY SetFacts DEF Kinds
    <2>3. UpKeeps /\ uplink' \in [Clients -> Seq(Frame)]
        BY <1>1, <1>5, <2>2, SetFacts, SendUp, SendTypes DEF PutComplete
    <2>4. UNCHANGED <<target, local, next, outcome, up, packets, frames, serverVars>>
        BY <1>5 DEF PutComplete
    <2>5. StoresFollow /\ SenderFollows BY <2>4, SameStores, SameSender
    <2>6. QED BY <1>2, <2>1, <2>3, <2>4, <2>5, Kept, ClientStep
<1>6. CASE AwaitAck
    <2>1. TaskType' BY <1>1, <1>6, EndedTaskType DEF AwaitAck
    <2>2. UNCHANGED <<target, next, outcome, up, uplink, packets, frames, serverVars>>
        BY <1>6 DEF AwaitAck, wireVars
    <2>3. /\ local' \in [Clients -> LocalStates]
          /\ \A r \in Receivers : local'[r] = local[r]
          /\ local'[Sender] = local[Sender] \/ local'[Sender] = "WaitingAck"
        BY <1>1, <1>6, SetFacts DEF AwaitAck, TransitionTo, ClientTypes, LocalStates
    <2>4. StoresFollow BY <2>2, <2>3 DEF StoresFollow, Saved
    <2>5. SenderFollows BY <2>2, <2>3 DEF SenderFollows, Fresh
    <2>6. UpKeeps BY <2>2, SameUp
    <2>7. QED BY <1>2, <2>1, <2>2, <2>3, <2>4, <2>5, <2>6, Kept, ClientStep
<1>7. QED BY <1>3, <1>4, <1>5, <1>6 DEF SendTask

-----------------------------------------------------------------------------
(* The command                                                             *)

\* A step of the command that leaves the outcome of the file open.
LEMMA CommandStep ==
    ASSUME Inv, flow' \in Flows, flow' # "start", flow' = "none" => flow = "none",
           UNCHANGED <<target, clientVars, frames, serverVars>>,
           UpKeeps, InKeeps,
           uplink' \in [Clients -> Seq(Frame)],
           packets' \in [Clients -> Seq(Kinds)]
    PROVE  Inv' /\ Keeps
<1>1. UNCHANGED <<local, next, task, outcome, up, frames>>
    BY DEF clientVars
<1>2. StoresFollow BY <1>1, SameStores
<1>3. SenderFollows BY <1>1 DEF SenderFollows, Fresh
<1>4. QED BY <1>1, <1>2, <1>3, Kept, ClientStep

LEMMA ExitStep ==
    ASSUME Inv, NEW why \in Outcomes, Exit(why), why = "delivered" => AckIn
    PROVE  Inv' /\ Keeps
<1>1. WireTypes /\ ClientTypes BY InvParts
<1>2. UNCHANGED <<target, local, next, task, frames, serverVars>>
    BY DEF Exit
<1>3. /\ outcome' \in [Clients -> Outcomes]
      /\ outcome'[Sender] = why
      /\ \A r \in Receivers : outcome'[r] = outcome[r]
    BY <1>1, SetFacts DEF Exit, ClientTypes
<1>4. flow' = "ended" BY DEF Exit, Goes
<1>5. StoresFollow BY <1>2, <1>3 DEF StoresFollow, Saved
<1>6. SenderFollows BY <1>3, <1>4 DEF SenderFollows, Fresh
<1>7. InKeeps /\ packets' \in [Clients -> Seq(Kinds)]
    BY <1>1, SetFacts, ClearIn DEF Exit
<1>8. UpKeeps /\ uplink' \in [Clients -> Seq(Frame)] /\ up' \in SUBSET Clients
    <2>1. CASE Hangup(Sender) BY <1>1, <2>1, SetFacts, HangupUp, HangupTypes
    <2>2. CASE UNCHANGED <<up, uplink>> BY <2>2, SameUp, Kept
    <2>3. QED BY <2>1, <2>2 DEF Exit
<1>9. flow' \in Flows BY <1>4 DEF Flows
<1>10. QED BY <1>2, <1>3, <1>5, <1>6, <1>7, <1>8, <1>9, Kept, ClientStep

LEMMA EverythingFacts ==
    /\ Everything \in Seq(Frame)
    /\ \A i \in 1 .. Len(Everything) : Everything[i].kind # "offer"
<1> DEFINE chunks == [i \in 1 .. Chunks |-> Chunk(i - 1)]
<1> DEFINE last == <<Packet("complete")>>
<1>1. Packet("complete") \in Frame /\ Packet("complete").kind = "complete"
    BY SetFacts DEF Kinds
<1>2. \A i \in 1 .. Chunks : Chunk(i - 1) \in Frame /\ Chunk(i - 1).kind = "chunk"
    <2>1. \A i \in 1 .. Chunks : i - 1 \in 0 .. Chunks BY SetFacts
    <2>2. QED BY <2>1, SetFacts
<1>3. /\ chunks \in Seq(Frame) /\ Len(chunks) = Chunks
      /\ \A i \in 1 .. Len(chunks) : chunks[i].kind = "chunk"
    BY <1>2, SetFacts
<1>4. /\ last \in Seq(Frame) /\ Len(last) = 1
      /\ \A i \in 1 .. Len(last) : last[i].kind = "complete"
    BY <1>1
<1>5. Everything = chunks \o last BY DEF Everything
<1> HIDE DEF chunks, last
<1>6. /\ chunks \o last \in Seq(Frame)
      /\ Len(chunks \o last) = Len(chunks) + Len(last)
      /\ \A i \in 1 .. Len(chunks) : (chunks \o last)[i] = chunks[i]
      /\ \A i \in 1 .. Len(last) : (chunks \o last)[Len(chunks) + i] = last[i]
    <2>1. chunks \in Seq(Frame) /\ last \in Seq(Frame) BY <1>3, <1>4
    <2>2. QED BY <2>1, ConcatFacts
<1>7. ASSUME NEW i \in 1 .. Len(chunks \o last) PROVE (chunks \o last)[i].kind # "offer"
    <2>1. CASE i \in 1 .. Len(chunks) BY <1>3, <1>6, <2>1
    <2>2. CASE i \notin 1 .. Len(chunks)
        <3>1. i = Len(chunks) + 1 /\ 1 \in 1 .. Len(last)
            BY <1>3, <1>4, <1>6, <2>2, SetFacts
        <3>2. (chunks \o last)[i] = last[1] BY <1>6, <3>1
        <3>3. QED BY <1>4, <3>1, <3>2
    <2>3. QED BY <2>1, <2>2
<1>8. QED BY <1>5, <1>6, <1>7

LEMMA SendAllStep ==
    ASSUME Inv, SendAll
    PROVE  Inv' /\ Keeps
<1>1. WireTypes /\ uplink[Sender] \in Seq(Frame) BY InvParts, SetFacts DEF WireTypes
<1>2. /\ uplink[Sender] \o Everything \in Seq(Frame)
      /\ Len(uplink[Sender]) \in Nat /\ Len(Everything) \in Nat
      /\ Len(uplink[Sender] \o Everything) = Len(uplink[Sender]) + Len(Everything)
      /\ \A i \in 1 .. Len(uplink[Sender]) :
            (uplink[Sender] \o Everything)[i] = uplink[Sender][i]
      /\ \A i \in 1 .. Len(Everything) :
            (uplink[Sender] \o Everything)[Len(uplink[Sender]) + i] = Everything[i]
    BY <1>1, EverythingFacts, ConcatFacts
<1>3. /\ uplink' \in [Clients -> Seq(Frame)]
      /\ uplink'[Sender] = uplink[Sender] \o Everything
      /\ \A r \in Receivers : uplink'[r] = uplink[r]
    BY <1>1, <1>2, SetFacts DEF SendAll, WireTypes
<1>4. ASSUME NEW i \in 1 .. Len(uplink'[Sender]), uplink'[Sender][i].kind = "offer"
      PROVE  i \in 1 .. Len(uplink[Sender]) /\ uplink[Sender][i].kind = "offer"
    <2>1. CASE i \in 1 .. Len(uplink[Sender]) BY <1>2, <1>3, <1>4, <2>1
    <2>2. CASE i \notin 1 .. Len(uplink[Sender])
        <3>1. PICK j \in 1 .. Len(Everything) : i = Len(uplink[Sender]) + j
            <4>1. i - Len(uplink[Sender]) \in 1 .. Len(Everything)
                BY <1>2, <1>3, <2>2
            <4>2. i = Len(uplink[Sender]) + (i - Len(uplink[Sender]))
                BY <1>2, <1>3
            <4>3. QED BY <4>1, <4>2
        <3>2. uplink'[Sender][i] = Everything[j] BY <1>2, <1>3, <3>1
        <3>3. QED BY <1>4, <3>2, EverythingFacts
    <2>3. QED BY <2>1, <2>2
<1>5. UpKeeps
    <2>1. NoOfferUp => NoOfferUp' BY <1>4 DEF NoOfferUp
    <2>2. OnceUp => OnceUp' BY <1>4 DEF OnceUp
    <2>3. \A r \in Receivers : AckUp(r)' => AckUp(r) BY <1>3 DEF AckUp
    <2>4. QED BY <2>1, <2>2, <2>3 DEF UpKeeps
<1>6. flow' \in Flows \ {"none", "start"} BY DEF SendAll, Goes, Flows
<1>7. InKeeps /\ packets' \in [Clients -> Seq(Kinds)] BY SameIn, Kept DEF SendAll
<1>8. QED BY <1>3, <1>5, <1>6, <1>7, CommandStep DEF SendAll

LEMMA FlowStep ==
    ASSUME Inv, Flow
    PROVE  Inv'
<1>1. WireTypes BY InvParts
<1>2. Sender \in Clients BY SetFacts
<1>3. ASSUME NEW kind \in Kinds, Take(Sender, kind), flow' \in Flows \ {"none", "start"},
             UNCHANGED <<target, clientVars, uplink, frames, serverVars>>
      PROVE  Inv'
    <2>1. InKeeps /\ packets' \in [Clients -> Seq(Kinds)]
        BY <1>1, <1>2, <1>3, TakeIn, TakeTypes
    <2>2. UpKeeps BY <1>3, SameUp
    <2>3. QED BY <1>3, <2>1, <2>2, Kept, CommandStep
<1>4. CASE SendOffer BY <1>4, CommandOfferStep
<1>5. CASE FirstAccept
    <2>1. "accept" \in Kinds BY DEF Kinds
    <2>2. flow' \in Flows \ {"none", "start"} BY <1>5 DEF FirstAccept, Goes, Flows
    <2>3. QED BY <1>3, <1>5, <2>1, <2>2 DEF FirstAccept
<1>6. CASE GraceOver
    <2>1. UNCHANGED <<target, clientVars, uplink, packets, frames, serverVars>>
        BY <1>6 DEF GraceOver, vars, wireVars
    <2>2. flow' \in Flows \ {"none", "start"} BY <1>6 DEF GraceOver, Goes, Flows
    <2>3. QED BY <2>1, <2>2, SameUp, SameIn, Kept, CommandStep
<1>7. CASE SendAll BY <1>7, SendAllStep
<1>8. CASE FirstAck
    <2>1. CASE Arrived("ackOk") /\ Exit("delivered")
        <3>1. packets[Sender] \in Seq(Kinds) BY <1>1, <1>2 DEF WireTypes
        <3>2. packets[Sender][1] = "ackOk" /\ 1 \in 1 .. Len(packets[Sender])
            BY <2>1, <3>1, TailFacts DEF Arrived
        <3>3. AckIn BY <3>2 DEF AckIn
        <3>4. QED BY <2>1, <3>3, ExitStep DEF Outcomes
    <2>2. CASE Exit("refused") BY <2>2, ExitStep DEF Outcomes
    <2>3. QED BY <1>8, <2>1, <2>2 DEF FirstAck
<1>9. CASE Bail
    <2>1. CASE Exit("cancelled") BY <2>1, ExitStep DEF Outcomes
    <2>2. CASE Exit("refused") \/ Exit("unsent") \/ Exit("failed")
        BY <2>2, ExitStep DEF Outcomes
    <2>3. QED BY <1>9, <2>1, <2>2 DEF Bail
<1>10. CASE Dispatch
    <2>1. "accept" \in Kinds /\ "reject" \in Kinds BY DEF Kinds
    <2>2. flow' \in Flows \ {"none", "start"} BY <1>10 DEF Dispatch, Goes, Flows
    <2>3. QED BY <1>3, <1>10, <2>1, <2>2 DEF Dispatch
<1>11. CASE Deadline BY <1>11, ExitStep DEF Deadline, Outcomes
<1>12. CASE Closed BY <1>12, ExitStep DEF Closed, Outcomes
<1>13. QED
    BY <1>4, <1>5, <1>6, <1>7, <1>8, <1>9, <1>10, <1>11, <1>12 DEF Flow

LEMMA LoseConnectionStep ==
    ASSUME Inv, LoseConnection
    PROVE  Inv' /\ Keeps
<1>1. WireTypes /\ ClientTypes BY InvParts
<1>2. UNCHANGED <<target, local, next, task, outcome, packets, frames, serverVars, flow>>
    BY DEF LoseConnection
<1>3. /\ UpKeeps /\ uplink' \in [Clients -> Seq(Frame)]
      /\ up' \in SUBSET Clients
    BY <1>1, SetFacts, HangupUp, HangupTypes DEF LoseConnection
<1>4. InKeeps /\ StoresFollow /\ SenderFollows
    BY <1>2, SameIn, SameStores, SameSender
<1>5. QED BY <1>2, <1>3, <1>4, Kept, ClientStep

-----------------------------------------------------------------------------
(* The invariant holds                                                     *)

LEMMA LoopStep ==
    ASSUME Inv, NEW c \in Clients, Loop(c), UNCHANGED flow
    PROVE  Inv'
<1>1. CASE \/ OnEnd(c, "abort", "cancelled")
           \/ OnEnd(Sender, "reject", "refused")
           \/ OnEnd(Sender, "tooLarge", "refused")
    <2>1. {"cancelled", "refused"} \subseteq Outcomes \ {"none", "delivered"}
        BY DEF Outcomes
    <2>2. QED BY <1>1, <2>1, SetFacts, OnEndStep
<1>2. CASE c \in Receivers /\ (OnOffer(c) \/ OnComplete(c))
    BY <1>2, OnOfferStep, OnCompleteStep
<1>3. CASE OnAccept \/ OnError BY <1>3, OnAcceptStep, OnErrorStep
<1>4. CASE OnAck("delivered") \/ OnAck("refused") BY <1>4, OnAckStep
<1>5. QED BY <1>1, <1>2, <1>3, <1>4 DEF Loop

LEMMA ServerSteps ==
    ASSUME Inv, NEW c \in Clients, Server(c), UNCHANGED flow
    PROVE  Inv'
<1>1. CASE RelayOffer BY <1>1, RelayOfferStep
<1>2. CASE RelayComplete BY <1>2, RelayCompleteStep
<1>3. CASE RelayChunk BY <1>3, RelayChunkStep
<1>4. CASE c \in Receivers /\ RelayAccept(c) BY <1>4, RelayAcceptStep
<1>5. CASE RelayEnd(c, "reject") \/ RelayEnd(c, "abort") BY <1>5, RelayEndStep
<1>6. CASE c \in Receivers /\ (RelayAck(c, "ackOk") \/ RelayAck(c, "ackRejected"))
    BY <1>6, RelayAckStep
<1>7. CASE EndSession(c) BY <1>7, EndSessionStep
<1>8. QED BY <1>1, <1>2, <1>3, <1>4, <1>5, <1>6, <1>7 DEF Server

LEMMA InvInit == FlowInit => Inv
<1> SUFFICES ASSUME FlowInit PROVE Inv
    OBVIOUS
<1>1. \A S : <<>> \in Seq(S) /\ Len(<<>>) = 0
    OBVIOUS
<1>2. /\ target \in Targets
      /\ local = [c \in Clients |-> "absent"]
      /\ next = [r \in Receivers |-> 0]
      /\ task = [at |-> "none", pos |-> 0]
      /\ outcome = [c \in Clients |-> "none"]
      /\ uplink = [c \in Clients |-> <<>>]
      /\ packets = [c \in Clients |-> <<>>]
      /\ frames = [r \in Receivers |-> <<>>]
      /\ legs = [r \in Receivers |-> "none"]
      /\ ackExpected = FALSE
      /\ up = Clients /\ online = Clients
      /\ flow \in {"none", "start"}
    BY DEF FlowInit, Init
<1>3. TypeInv
    <2>1. ClientTypes BY <1>2, SetFacts DEF ClientTypes, LocalStates, Outcomes
    <2>2. TaskType BY <1>2, SetFacts DEF TaskType
    <2>3. WireTypes BY <1>1, <1>2 DEF WireTypes
    <2>4. ServerTypes BY <1>2 DEF ServerTypes
    <2>5. flow \in Flows BY <1>2 DEF Flows
    <2>6. QED BY <1>2, <2>1, <2>2, <2>3, <2>4, <2>5, TypeParts
<1>4. \A c \in Clients : /\ Len(uplink[c]) = 0 /\ Len(packets[c]) = 0
                         /\ local[c] = "absent" /\ outcome[c] = "none"
    BY <1>1, <1>2
<1>5. OfferOnce
    <2>1. NoOfferUp /\ OnceUp BY <1>4, SetFacts DEF NoOfferUp, OnceUp
    <2>2. ASSUME NEW r \in Receivers PROVE NoOfferIn(r) /\ OnceIn(r) /\ Untouched(r)
        BY <1>4, SetFacts DEF NoOfferIn, OnceIn, Untouched, Saved
    <2>3. QED BY <2>1, <2>2 DEF OfferOnce
<1>6. AcksAreTrue
    <2>1. ASSUME NEW r \in Receivers PROVE ~Saved(r) /\ ~AckUp(r)
        BY <1>4, SetFacts DEF Saved, AckUp
    <2>2. ~AckIn /\ outcome[Sender] # "delivered" BY <1>4, SetFacts DEF AckIn
    <2>3. QED BY <2>1, <2>2 DEF AcksAreTrue
<1>7. QED BY <1>3, <1>5, <1>6 DEF Inv

LEMMA InvNext == Inv /\ [FlowNext]_flowVars => Inv'
<1> SUFFICES ASSUME Inv, [FlowNext]_flowVars PROVE Inv'
    OBVIOUS
<1>1. CASE UNCHANGED flowVars
    <2>1. UNCHANGED <<target, clientVars, uplink, packets, frames, serverVars, flow>>
        BY <1>1 DEF flowVars, vars, wireVars
    <2>2. UNCHANGED <<local, next, task, outcome, up>> BY <2>1 DEF clientVars
    <2>3. UpKeeps /\ InKeeps /\ StoresFollow /\ SenderFollows
        BY <2>1, <2>2, SameUp, SameIn, SameStores, SameSender
    <2>4. QED BY <2>1, <2>2, <2>3, Kept, ClientStep
<1>2. ASSUME NEW r \in Receivers, UNCHANGED flow,
             Accept(r) \/ Reject(r) \/ Abort(r) \/ Leave(r)
      PROVE  Inv'
    BY <1>2, SetFacts, AcceptStep, RejectStep, AbortStep, LeaveStep
<1>3. CASE Peers /\ UNCHANGED flow
    BY <1>2, <1>3, SetFacts, LoopStep, OnChunkStep, ServerSteps DEF Peers, Tasks
<1>4. CASE flow = "none" /\ Next /\ UNCHANGED flow
    <2>1. CASE User
        BY <1>2, <1>4, <2>1, SessionOfferStep, AbortStep, LeaveStep DEF User
    <2>2. CASE SendTask BY <1>4, <2>2, SendTaskStep
    <2>3. CASE \E c \in Clients : Loop(c) \/ Server(c)
        BY <1>4, <2>3, LoopStep, ServerSteps
    <2>4. CASE \E r \in Receivers : OnChunk(r) BY <1>4, <2>4, OnChunkStep
    <2>5. QED BY <1>4, <2>1, <2>2, <2>3, <2>4 DEF Next
<1>5. CASE LoseConnection BY <1>5, LoseConnectionStep
<1>6. CASE Sweep \/ SweepDuringOffer BY <1>6, SweepStep, SweepDuringOfferStep
<1>7. CASE Flow BY <1>7, FlowStep
<1>8. QED BY <1>1, <1>3, <1>4, <1>5, <1>6, <1>7 DEF FlowNext

\* The inductive invariant holds, whoever sends the file.
THEOREM InvAlways == FlowSpec => []Inv
BY InvInit, InvNext, PTL DEF FlowSpec

\* Every variable of the transfer keeps to its type: a chunk that is sent is one of
\* the file's, and a receiver never counts past the last one.
THEOREM FlowTypes == FlowSpec => []FlowTypeOK
<1>1. Inv => FlowTypeOK BY DEF Inv, TypeInv
<1>2. QED BY <1>1, InvAlways, PTL

\* "文件发送完成" is true: whenever the sender, a session or the command, has reported
\* that its file was delivered, some receiver has saved all of it.
THEOREM DeliveredMeansSavedAlways == FlowSpec => []DeliveredMeansSaved
<1>1. Inv => DeliveredMeansSaved
    BY DEF Inv, AcksAreTrue, Saved, DeliveredMeansSaved
<1>2. QED BY <1>1, InvAlways, PTL

=============================================================================
