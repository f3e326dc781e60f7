------------------------- MODULE ClientSessionProofs -------------------------
(***************************************************************************)
(* Safety of ClientSession, for any commands, results and files, with or   *)
(* without reconnects.                                                     *)
(***************************************************************************)
EXTENDS ClientSession, TLAPS

\* What each phase of the main task leaves behind: no connection before the next
\* attempt, no transfers in the handshake, no replays after it.
PhaseLeaves ==
    /\ phase = "connecting" => link = "none"
    /\ phase = "handshake" => open = {}
    /\ phase \in {"online", "executing", "waiting"} => replays = {}

\* `send command` has no session: it never reaches the loop, keeps no heartbeat and
\* holds no results back.
SendHasNoSession ==
    mode = "send" => /\ phase # "online"
                     /\ ~heartbeat
                     /\ \A q \in RequestIds : batches[q] = {}

Inv ==
    /\ TypeOK
    /\ PhaseLeaves
    /\ SendHasNoSession
    /\ HeartbeatFollowsSession

\* The parts of the invariant, by the variables they speak of.
ConnPart ==
    /\ link \in {"none", "up", "broken"}
    /\ reader \in BOOLEAN
    /\ writer \in BOOLEAN
    /\ inbound \in Seq(Packets \cup {"initAck", "initError"})
    /\ server \in {"none", "registered", "accepted", "refused"}
    /\ toCome \in SUBSET Packets
    /\ (link = "none") => ~reader /\ ~writer /\ inbound = <<>> /\ server = "none"

ResultPart ==
    /\ batches \in [RequestIds -> SUBSET Results]
    /\ generation \in [RequestIds -> Nat]
    /\ timers \in SUBSET (RequestIds \X Nat)
    /\ shown \in SUBSET Results

ProcPart ==
    /\ mode \in {"session", "send"}
    /\ phase \in Phases
    /\ running \in SUBSET Commands
    /\ quit \in BOOLEAN
    /\ heartbeat \in BOOLEAN
    /\ open \in SUBSET Files
    /\ replays \in SUBSET Files
    /\ told \in SUBSET Files

Rules == PhaseLeaves /\ SendHasNoSession /\ HeartbeatFollowsSession

LEMMA Parts == Inv <=> ConnPart /\ ResultPart /\ ProcPart /\ Rules
BY DEF Inv, TypeOK, ConnPart, ResultPart, ProcPart, Rules

LEMMA PartsNext ==
    ASSUME ConnPart', ResultPart', ProcPart', Rules'
    PROVE  Inv'
BY DEF Inv, TypeOK, ConnPart, ResultPart, ProcPart, Rules

LEMMA ConnKept ==
    ASSUME ConnPart, UNCHANGED connVars
    PROVE  ConnPart'
BY DEF ConnPart, connVars

LEMMA ResultKept ==
    ASSUME ResultPart, UNCHANGED resultVars
    PROVE  ResultPart'
BY DEF ResultPart, resultVars

\* Taking the first packet keeps the queue a queue.
LEMMA TailType ==
    ASSUME ConnPart, inbound # <<>>
    PROVE  Tail(inbound) \in Seq(Packets \cup {"initAck", "initError"})
BY DEF ConnPart

LEMMA TakeKeeps ==
    ASSUME ConnPart, NEW packet, Take(packet),
           UNCHANGED <<link, reader, writer, server, toCome>>
    PROVE  ConnPart'
BY TailType DEF ConnPart, Take

LEMMA ArriveKeeps ==
    ASSUME ConnPart, NEW packet \in Packets \cup {"initAck", "initError"},
           Arrive(packet)
    PROVE  inbound' \in Seq(Packets \cup {"initAck", "initError"})
BY DEF ConnPart, Arrive

LEMMA DropKeeps ==
    ASSUME ConnPart, Drop, UNCHANGED toCome
    PROVE  ConnPart' /\ link' = "none" /\ ~writer'
<1>1. <<>> \in Seq(Packets \cup {"initAck", "initError"})
    OBVIOUS
<1>2. QED BY <1>1 DEF ConnPart, Drop

LEMMA RequestIdFacts ==
    \A r \in Results : RequestId(r) \in RequestIds
BY DEF RequestIds

\* A result that is merged.
LEMMA MergeKeeps ==
    ASSUME ResultPart, NEW r \in Results, Merge(r), shown' = shown
    PROVE  ResultPart'
<1> DEFINE q == RequestId(r)
<1>1. q \in RequestIds BY RequestIdFacts
<1>2. /\ generation' = [generation EXCEPT ![q] = generation[q] + 1]
      /\ batches' = [batches EXCEPT ![q] = batches[q] \cup {r}]
      /\ timers' = timers \cup {<<q, generation[q] + 1>>}
    BY DEF Merge
<1> HIDE DEF q
<1>3. QED BY <1>1, <1>2 DEF ResultPart

\* The batches are emptied.
LEMMA FlushFacts ==
    /\ NoBatches \in [RequestIds -> SUBSET Results]
    /\ NoGenerations \in [RequestIds -> Nat]
    /\ \A q \in RequestIds : NoBatches[q] = {}
BY DEF NoBatches, NoGenerations

LEMMA PendingType ==
    ASSUME ResultPart
    PROVE  Pending \subseteq Results
BY DEF ResultPart, Pending

-----------------------------------------------------------------------------
(* The invariant is inductive                                              *)

LEMMA InvInit == Init => Inv
<1> SUFFICES ASSUME Init PROVE Inv
    OBVIOUS
<1>1. ConnPart
    <2>1. <<>> \in Seq(Packets \cup {"initAck", "initError"}) OBVIOUS
    <2>2. QED BY <2>1 DEF Init, ConnPart
<1>2. ResultPart BY FlushFacts DEF Init, ResultPart
<1>3. ProcPart BY DEF Init, ProcPart, Phases
<1>4. Rules
    BY FlushFacts
       DEF Init, Rules, PhaseLeaves, SendHasNoSession, HeartbeatFollowsSession
<1>5. QED BY <1>1, <1>2, <1>3, <1>4, Parts

\* The connection: attempts, the reader, the writer, the server and the network.
LEMMA ConnectKeepsInv ==
    ASSUME Inv, Connect
    PROVE  Inv'
<1> USE Parts
<1>1. phase = "connecting" /\ link = "none" /\ mode' = mode
    BY DEF Connect, Rules, PhaseLeaves
<1>2. /\ batches' = NoBatches /\ generation' = NoGenerations /\ timers' = timers
      /\ shown' = shown /\ open' = {} /\ replays' = replays \cup open
      /\ UNCHANGED <<running, quit, toCome, heartbeat, told, inbound, server>>
    BY DEF Connect, ClearState
<1>3. \/ /\ phase' = "handshake"
         /\ link' = "up" /\ reader' = TRUE /\ writer' = TRUE
      \/ /\ phase' \in {"connecting", "ended"}
         /\ UNCHANGED <<link, reader, writer>>
    BY DEF Connect, GiveUpOrRetry
<1>4. ConnPart'
    <2>1. CASE link' = "up" /\ reader' = TRUE /\ writer' = TRUE
        BY <1>2, <2>1 DEF ConnPart
    <2>2. CASE UNCHANGED <<link, reader, writer>>
        BY <1>2, <2>2, ConnKept DEF connVars
    <2>3. QED BY <1>3, <2>1, <2>2
<1>5. ResultPart' BY <1>2, FlushFacts DEF ResultPart
<1>6. ProcPart' BY <1>1, <1>2, <1>3 DEF ProcPart, Phases
<1>7. Rules'
    <2>1. ~heartbeat BY <1>1 DEF Rules, HeartbeatFollowsSession
    <2>2. PhaseLeaves' BY <1>1, <1>2, <1>3 DEF PhaseLeaves
    <2>3. SendHasNoSession'
        BY <1>2, <1>3, <2>1, FlushFacts DEF SendHasNoSession
    <2>4. HeartbeatFollowsSession'
        BY <1>2, <1>3, <2>1 DEF HeartbeatFollowsSession
    <2>5. QED BY <2>2, <2>3, <2>4 DEF Rules
<1>8. QED BY <1>4, <1>5, <1>6, <1>7, PartsNext

LEMMA LinkKeepsInv ==
    ASSUME Inv, Network \/ ReaderEnds \/ WriterEnds \/ HeartbeatEnds
    PROVE  Inv'
<1> USE Parts
<1>1. /\ UNCHANGED <<procVars, fileVars, resultVars>>
      /\ heartbeat' = heartbeat \/ (~heartbeat' /\ ~writer /\ writer' = writer)
      /\ heartbeat' \in BOOLEAN
      /\ link' = link \/ (link # "none" /\ link' = "broken")
      /\ writer' => writer
    <2>1. heartbeat \in BOOLEAN BY DEF ProcPart
    <2>2. CASE Register \/ AnswerInit \/ \E packet \in Packets : Incoming(packet)
        BY <2>1, <2>2 DEF Register, AnswerInit, Incoming
    <2>3. CASE Break \/ ReaderEnds \/ WriterEnds
        BY <2>1, <2>3 DEF Break, ReaderEnds, WriterEnds
    <2>4. CASE HeartbeatEnds
        BY <2>4 DEF HeartbeatEnds, connVars
    <2>5. QED BY <2>2, <2>3, <2>4 DEF Network
<1>2. ConnPart'
    <2>1. CASE Register
        BY <2>1, ArriveKeeps DEF Register, ConnPart
    <2>2. CASE AnswerInit
        BY <2>2, ArriveKeeps DEF AnswerInit, ConnPart
    <2>3. ASSUME NEW packet \in Packets, Incoming(packet) PROVE ConnPart'
        BY <2>3, ArriveKeeps DEF Incoming, ConnPart
    <2>4. CASE Break \/ ReaderEnds \/ WriterEnds
        BY <2>4 DEF Break, ReaderEnds, WriterEnds, ConnPart
    <2>5. CASE HeartbeatEnds
        BY <2>5, ConnKept DEF HeartbeatEnds
    <2>6. QED BY <2>1, <2>2, <2>3, <2>4, <2>5 DEF Network
<1>3. ResultPart' BY <1>1, ResultKept
<1>4. ProcPart' BY <1>1 DEF ProcPart, procVars, fileVars
<1>5. Rules'
    <2>1. PhaseLeaves' BY <1>1 DEF Rules, PhaseLeaves, procVars, fileVars
    <2>2. SendHasNoSession'
        BY <1>1 DEF Rules, SendHasNoSession, procVars, resultVars
    <2>3. HeartbeatFollowsSession'
        BY <1>1 DEF Rules, HeartbeatFollowsSession, procVars, ProcPart, ConnPart
    <2>4. QED BY <2>1, <2>2, <2>3 DEF Rules
<1>6. QED BY <1>2, <1>3, <1>4, <1>5, PartsNext

LEMMA HandshakeKeepsInv ==
    ASSUME Inv, Handshake
    PROVE  Inv'
<1> USE Parts
<1>1. phase = "handshake" /\ ~heartbeat
    BY DEF Handshake, OnInitAck, OnEarlyPacket, HandshakeFails, Rules,
           HeartbeatFollowsSession
<1>2. CASE OnInitAck
    <2>1. /\ Take("initAck")
          /\ mode = "send" => phase' = "waiting"
          /\ mode # "send" => phase' = "online"
          /\ heartbeat' = (mode = "session")
          /\ told' = told \cup replays /\ replays' = {}
          /\ UNCHANGED <<mode, running, quit, link, reader, writer, server, toCome,
                         open, resultVars>>
        BY <1>2 DEF OnInitAck
    <2>2. ConnPart' BY <2>1, TakeKeeps
    <2>3. ResultPart' BY <2>1, ResultKept
    <2>4. ProcPart' BY <2>1 DEF ProcPart, Phases
    <2>5. Rules'
        BY <2>1 DEF Rules, PhaseLeaves, SendHasNoSession, HeartbeatFollowsSession,
                    ProcPart, resultVars
    <2>6. QED BY <2>2, <2>3, <2>4, <2>5, PartsNext
<1>3. CASE OnEarlyPacket
    <2>1. Take(Head(inbound)) BY <1>3 DEF OnEarlyPacket, Take
    <2>2. /\ UNCHANGED <<link, reader, writer, server, toCome>>
          /\ UNCHANGED <<procVars, heartbeat, fileVars, resultVars>>
        BY <1>3 DEF OnEarlyPacket
    <2>3. ConnPart' BY <2>1, <2>2, TakeKeeps
    <2>4. ResultPart' BY <2>2, ResultKept
    <2>5. ProcPart' BY <2>2 DEF ProcPart, procVars, fileVars
    <2>6. Rules'
        BY <2>2 DEF Rules, PhaseLeaves, SendHasNoSession, HeartbeatFollowsSession,
                    procVars, fileVars, resultVars
    <2>7. QED BY <2>3, <2>4, <2>5, <2>6, PartsNext
<1>4. CASE HandshakeFails
    <2>1. /\ Drop /\ phase' \in {"connecting", "ended"}
          /\ UNCHANGED <<mode, running, quit, toCome, heartbeat, fileVars, resultVars>>
        BY <1>4 DEF HandshakeFails, GiveUpOrRetry
    <2>2. ConnPart' /\ link' = "none" BY <2>1, DropKeeps
    <2>3. ResultPart' BY <2>1, ResultKept
    <2>4. ProcPart' BY <2>1 DEF ProcPart, Phases, fileVars
    <2>5. Rules'
        BY <1>1, <2>1, <2>2
           DEF Rules, PhaseLeaves, SendHasNoSession, HeartbeatFollowsSession,
               resultVars
    <2>6. QED BY <2>2, <2>3, <2>4, <2>5, PartsNext
<1>5. QED BY <1>2, <1>3, <1>4 DEF Handshake

\* The session loop and what the user does in it.
LEMMA LoopKeepsInv ==
    ASSUME Inv, SessionLoop
    PROVE  Inv'
<1> USE Parts
<1>1. ASSUME NEW c \in Commands, OnCommand(c) PROVE Inv'
    <2>1. /\ phase \in {"online", "waiting"} /\ (mode # "send" => phase = "online")
          /\ Take(c) /\ phase' = "executing" /\ running' = {c}
          /\ UNCHANGED <<link, reader, writer, server, toCome>>
          /\ UNCHANGED <<mode, quit, heartbeat, fileVars, resultVars>>
        BY <1>1 DEF OnCommand, Home
    <2>2. ConnPart' BY <2>1, TakeKeeps
    <2>3. ResultPart' BY <2>1, ResultKept
    <2>4. ProcPart' BY <2>1 DEF ProcPart, Phases, fileVars
    <2>5. Rules'
        BY <2>1 DEF Rules, PhaseLeaves, SendHasNoSession, HeartbeatFollowsSession,
                    fileVars, resultVars
    <2>6. QED BY <2>2, <2>3, <2>4, <2>5, PartsNext
<1>2. ASSUME NEW r \in Results, OnResult(r) PROVE Inv'
    <2>1. /\ phase = "online" /\ Take(r) /\ Merge(r) /\ shown' = shown
          /\ UNCHANGED <<link, reader, writer, server, toCome>>
          /\ UNCHANGED <<procVars, heartbeat, fileVars>>
        BY <1>2 DEF OnResult
    <2>2. ConnPart' BY <2>1, TakeKeeps
    <2>3. ResultPart' BY <2>1, MergeKeeps
    <2>4. ProcPart' BY <2>1 DEF ProcPart, procVars, fileVars
    <2>5. Rules'
        BY <2>1 DEF Rules, PhaseLeaves, SendHasNoSession, HeartbeatFollowsSession,
                    procVars, fileVars
    <2>6. QED BY <2>2, <2>3, <2>4, <2>5, PartsNext
<1>3. ASSUME NEW r \in Results, OnFirstResult(r) PROVE Inv'
    <2>1. /\ phase = "waiting" /\ Take(r) /\ phase' = "ended"
          /\ shown' = shown \cup Pending \cup {r}
          /\ batches' = NoBatches /\ generation' = NoGenerations
          /\ timers' = timers \cup {<<RequestId(r), generation[RequestId(r)] + 1>>}
          /\ UNCHANGED <<link, reader, writer, server, toCome>>
          /\ UNCHANGED <<mode, running, quit, heartbeat, fileVars>>
        BY <1>3 DEF OnFirstResult
    <2>2. ConnPart' BY <2>1, TakeKeeps
    <2>3. ResultPart'
        BY <2>1, FlushFacts, RequestIdFacts, PendingType DEF ResultPart
    <2>4. ProcPart' BY <2>1 DEF ProcPart, Phases, fileVars
    <2>5. Rules'
        BY <2>1, FlushFacts
           DEF Rules, PhaseLeaves, SendHasNoSession, HeartbeatFollowsSession, fileVars
    <2>6. QED BY <2>2, <2>3, <2>4, <2>5, PartsNext
<1>4. CASE Disconnected
    <2>1. /\ phase = "online" /\ Drop /\ heartbeat' = FALSE
          /\ phase' \in {"connecting", "ended"}
          /\ UNCHANGED <<mode, running, quit, toCome, fileVars, resultVars>>
        BY <1>4 DEF Disconnected, GiveUpOrRetry
    <2>2. ConnPart' /\ link' = "none" BY <2>1, DropKeeps
    <2>3. ResultPart' BY <2>1, ResultKept
    <2>4. ProcPart' BY <2>1 DEF ProcPart, Phases, fileVars
    <2>5. Rules'
        BY <2>1, <2>2
           DEF Rules, PhaseLeaves, SendHasNoSession, HeartbeatFollowsSession,
               resultVars
    <2>6. QED BY <2>2, <2>3, <2>4, <2>5, PartsNext
<1>5. QED BY <1>1, <1>2, <1>3, <1>4 DEF SessionLoop

\* Steps that leave the connection alone.
LEMMA LocalKeepsInv ==
    ASSUME Inv,
           \/ CommandDone \/ WaitEnds \/ UserQuits
           \/ \E f \in Files : UserSends(f)
           \/ \E t \in DebounceTimers : Debounced(t)
    PROVE  Inv'
<1> USE Parts
<1>1. CASE CommandDone
    <2>1. /\ phase = "executing" /\ running' = {}
          /\ phase' \in {"online", "waiting", "ended"}
          /\ mode = "send" => phase' # "online"
          /\ mode = "session" => phase' # "waiting"
          /\ UNCHANGED <<mode, quit, connVars, heartbeat, fileVars, resultVars>>
        BY <1>1 DEF CommandDone, Home
    <2>2. ConnPart' /\ ResultPart' BY <2>1, ConnKept, ResultKept
    <2>3. ProcPart' BY <2>1 DEF ProcPart, Phases, fileVars
    <2>4. Rules'
        BY <2>1 DEF Rules, PhaseLeaves, SendHasNoSession, HeartbeatFollowsSession,
                    fileVars, resultVars, connVars, ProcPart
    <2>5. QED BY <2>2, <2>3, <2>4, PartsNext
<1>2. CASE WaitEnds
    <2>1. /\ phase = "waiting" /\ phase' = "ended" /\ FlushAll /\ timers' = timers
          /\ UNCHANGED <<mode, running, quit, connVars, heartbeat, fileVars>>
        BY <1>2 DEF WaitEnds
    <2>2. ConnPart' BY <2>1, ConnKept
    <2>3. ResultPart' BY <2>1, FlushFacts, PendingType DEF FlushAll, ResultPart
    <2>4. ProcPart' BY <2>1 DEF ProcPart, Phases, fileVars
    <2>5. Rules'
        BY <2>1, FlushFacts
           DEF FlushAll, Rules, PhaseLeaves, SendHasNoSession,
               HeartbeatFollowsSession, fileVars
    <2>6. QED BY <2>2, <2>3, <2>4, <2>5, PartsNext
<1>3. CASE UserQuits
    <2>1. /\ phase = "online" /\ phase' = "ended" /\ quit' = TRUE
          /\ heartbeat' = FALSE
          /\ UNCHANGED <<mode, running, connVars, fileVars, resultVars>>
        BY <1>3 DEF UserQuits
    <2>2. ConnPart' /\ ResultPart' BY <2>1, ConnKept, ResultKept
    <2>3. ProcPart' BY <2>1 DEF ProcPart, Phases, fileVars
    <2>4. Rules'
        BY <2>1 DEF Rules, PhaseLeaves, SendHasNoSession, HeartbeatFollowsSession,
                    resultVars
    <2>5. QED BY <2>2, <2>3, <2>4, PartsNext
<1>4. ASSUME NEW f \in Files, UserSends(f) PROVE Inv'
    <2>1. /\ phase = "online"
          /\ \/ open' = open \cup {f} /\ phase' = "online"
             \/ phase' = "ended" /\ open' = open
          /\ UNCHANGED <<mode, running, quit, connVars, heartbeat, replays, told,
                         resultVars>>
        BY <1>4 DEF UserSends
    <2>2. ConnPart' /\ ResultPart' BY <2>1, ConnKept, ResultKept
    <2>3. ProcPart' BY <2>1 DEF ProcPart, Phases
    <2>4. Rules'
        BY <2>1 DEF Rules, PhaseLeaves, SendHasNoSession, HeartbeatFollowsSession,
                    resultVars, connVars
    <2>5. QED BY <2>2, <2>3, <2>4, PartsNext
<1>5. ASSUME NEW t \in DebounceTimers, Debounced(t) PROVE Inv'
    <2>1. /\ t[1] \in RequestIds
          /\ timers' = timers \ {t} /\ TakeIfCurrent(t[1], t[2])
          /\ UNCHANGED <<procVars, connVars, heartbeat, fileVars>>
        BY <1>5 DEF Debounced, DebounceTimers
    <2>2. ConnPart' BY <2>1, ConnKept
    <2>3. ResultPart' BY <2>1 DEF TakeIfCurrent, ResultPart
    <2>4. ProcPart' BY <2>1 DEF ProcPart, procVars, fileVars
    <2>5. \A q \in RequestIds : batches'[q] = {} \/ batches'[q] = batches[q]
        BY <2>1 DEF TakeIfCurrent, ResultPart
    <2>6. Rules'
        BY <2>1, <2>5
           DEF Rules, PhaseLeaves, SendHasNoSession, HeartbeatFollowsSession,
               procVars, fileVars, connVars
    <2>7. QED BY <2>2, <2>3, <2>4, <2>6, PartsNext
<1>6. QED BY <1>1, <1>2, <1>3, <1>4, <1>5

LEMMA InvNext == Inv /\ [Next]_vars => Inv'
<1> SUFFICES ASSUME Inv, [Next]_vars PROVE Inv'
    OBVIOUS
<1>1. ASSUME UNCHANGED vars PROVE Inv'
    <2>1. UNCHANGED <<procVars, connVars, heartbeat, fileVars, resultVars>>
        BY <1>1 DEF vars
    <2>2. ConnPart' /\ ResultPart' BY <2>1, Parts, ConnKept, ResultKept
    <2>3. ProcPart' BY <2>1, Parts DEF ProcPart, procVars, fileVars
    <2>4. Rules'
        BY <2>1, Parts
           DEF Rules, PhaseLeaves, SendHasNoSession, HeartbeatFollowsSession,
               procVars, connVars, fileVars, resultVars
    <2>5. QED BY <2>2, <2>3, <2>4, PartsNext
<1>2. QED
    BY <1>1, ConnectKeepsInv, HandshakeKeepsInv, LoopKeepsInv, LocalKeepsInv,
       LinkKeepsInv DEF Next, Ended

LEMMA InvAlways == Spec => []Inv
BY InvInit, InvNext, PTL DEF Spec

-----------------------------------------------------------------------------
(* Theorems                                                                *)

\* The client's tasks, queues and stores keep their types, and a client without a
\* socket has none of the tasks of a connection.
THEOREM ClientTypes == Spec => []TypeOK
<1>1. Inv => TypeOK BY DEF Inv
<1>2. QED BY <1>1, InvAlways, PTL

\* spawn_heartbeat_loop runs as long as the session can send, and is gone before
\* the next connection is tried.
THEOREM HeartbeatFollowsSessionAlways == Spec => []HeartbeatFollowsSession
<1>1. Inv => HeartbeatFollowsSession BY DEF Inv
<1>2. QED BY <1>1, InvAlways, PTL

\* clear_file_transfer_state and replay_after_reconnect: no transfer is carried
\* over to a new connection, and the user is told before the session goes on.
THEOREM LostTransfersToldAlways == Spec => []LostTransfersTold
<1>1. Inv => LostTransfersTold
    BY DEF Inv, PhaseLeaves, LostTransfersTold
<1>2. QED BY <1>1, InvAlways, PTL

\* wait_for_command_result leaves nothing to a debounce timer that will never run.
THEOREM SendFlushesAlways == Spec => []SendFlushes
<1>1. Inv => SendFlushes
    BY DEF Inv, SendHasNoSession, SendFlushes, Pending
<1>2. QED BY <1>1, InvAlways, PTL

=============================================================================
