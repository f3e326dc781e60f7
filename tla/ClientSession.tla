---------------------------- MODULE ClientSession ----------------------------
(***************************************************************************)
(* One y2m client process from its start to its end: connecting, the init  *)
(* handshake, the session loop of `y2m run` and `y2m chat` with its        *)
(* reconnects, the wait of `y2m send command`, commands run for others and *)
(* the results of its own gathered for the console (client-core core.rs    *)
(* and connection.rs; main.rs, cmd_run.rs, cmd_chat.rs, cmd_send.rs,       *)
(* plugin.rs, state/command.rs, state/command_results.rs).                 *)
(*                                                                         *)
(* The session loop does one thing at a time.  Beside it run the reader    *)
(* and the writer of the connection, the heartbeat loop and a timer for    *)
(* every result.  The server and the network are external.                 *)
(***************************************************************************)
EXTENDS Naturals, Sequences, FiniteSets

CONSTANTS
    Commands,   \* bound: commands other clients send to this one
    Results,    \* bound: command_result packets that come for this one
    Issued,     \* commands this client's user sends
    CommandOf,  \* CommandOf[r]: the command r is a result of
    Files,      \* bound: transfers that may be under way
    Reconnects  \* --reconnect-interval-sec is not 0

ASSUME ClientSessionAssumption ==
    /\ Commands \cap Results = {}
    /\ IsFiniteSet(Results)
    /\ {"initAck", "initError"} \cap (Commands \cup Results) = {}
    /\ CommandOf \in [Results -> Issued]
    /\ Reconnects \in BOOLEAN

VARIABLES
    mode,       \* "session" for run and chat, "send" for send command
    phase,      \* where the main task is
    running,    \* the command being executed, in a set
    quit,       \* the user has left the session
    link,       \* the socket: none, up or broken
    reader,     \* the reader task lives, the inbound queues are open
    writer,     \* the writer task lives, the outbound channel is open
    inbound,    \* inbound_rx
    server,     \* what the server has made of this socket
    toCome,     \* packets others have yet to send
    heartbeat,  \* the heartbeat loop lives
    open,       \* unfinished transfers in the local file store
    replays,    \* reconnect_replays: transfers whose failure is to be told
    told,       \* and those it has been told of
    batches,    \* CommandResultAggregator: the results under each request id
    generation, \* debounce_generation, 0 for none
    timers,     \* debounce timers: pairs of request id and generation
    shown       \* results printed

procVars == <<mode, phase, running, quit>>
connVars == <<link, reader, writer, inbound, server, toCome>>
fileVars == <<open, replays, told>>
resultVars == <<batches, generation, timers, shown>>
vars == <<procVars, connVars, heartbeat, fileVars, resultVars>>

\* build_event_packet gives every packet an id of its own, also a result: the id
\* of the command is only in its metadata, which is CommandOf.
RequestId(r) == r
RequestIds == {RequestId(r) : r \in Results}

\* A batch reaches at most one generation for every result.
DebounceTimers == RequestIds \X (1 .. Cardinality(Results))

Packets == Commands \cup Results

Phases == {"connecting", "handshake", "online", "waiting", "executing", "ended"}

TypeOK ==
    /\ mode \in {"session", "send"}
    /\ phase \in Phases
    /\ running \in SUBSET Commands
    /\ quit \in BOOLEAN
    /\ link \in {"none", "up", "broken"}
    /\ reader \in BOOLEAN
    /\ writer \in BOOLEAN
    /\ inbound \in Seq(Packets \cup {"initAck", "initError"})
    /\ server \in {"none", "registered", "accepted", "refused"}
    /\ toCome \in SUBSET Packets
    /\ heartbeat \in BOOLEAN
    /\ open \in SUBSET Files
    /\ replays \in SUBSET Files
    /\ told \in SUBSET Files
    /\ (link = "none") => ~reader /\ ~writer /\ inbound = <<>> /\ server = "none"
    /\ batches \in [RequestIds -> SUBSET Results]
    /\ generation \in [RequestIds -> Nat]
    /\ timers \in SUBSET (RequestIds \X Nat)
    /\ shown \in SUBSET Results

NoBatches == [q \in RequestIds |-> {}]
NoGenerations == [q \in RequestIds |-> 0]

Init ==
    /\ mode \in {"session", "send"}
    /\ phase = "connecting"
    /\ running = {}
    /\ quit = FALSE
    /\ link = "none"
    /\ reader = FALSE
    /\ writer = FALSE
    /\ inbound = <<>>
    /\ server = "none"
    /\ toCome = Packets
    /\ heartbeat = FALSE
    /\ open = {}
    /\ replays = {}
    /\ told = {}
    /\ batches = NoBatches
    /\ generation = NoGenerations
    /\ timers = {}
    /\ shown = {}

-----------------------------------------------------------------------------
(* CommandResultAggregator                                                 *)

\* merge_and_bump_generation, schedule_command_result_flush
Merge(r) ==
    LET q == RequestId(r)
    IN  /\ generation' = [generation EXCEPT ![q] = @ + 1]
        /\ batches' = [batches EXCEPT ![q] = @ \cup {r}]
        /\ timers' = timers \cup {<<q, generation[q] + 1>>}

\* Slip: the batch is taken out before its generation is looked at, which is then
\* no longer there.
TakeIfCurrentTooLate(q, gen) ==
    /\ batches' = [batches EXCEPT ![q] = {}]
    /\ generation' = [generation EXCEPT ![q] = 0]
    /\ shown' = IF generation'[q] = gen THEN shown \cup batches[q] ELSE shown

\* take_if_current: a timer that a later result has overtaken does nothing.
TakeIfCurrent(q, gen) ==
    IF generation[q] = gen
    THEN /\ shown' = shown \cup batches[q]
         /\ batches' = [batches EXCEPT ![q] = {}]
         /\ generation' = [generation EXCEPT ![q] = 0]
    ELSE UNCHANGED <<shown, batches, generation>>

Debounced(t) ==
    /\ t \in timers
    /\ phase # "ended"
    /\ timers' = timers \ {t}
    /\ TakeIfCurrent(t[1], t[2])
    /\ UNCHANGED <<procVars, connVars, heartbeat, fileVars>>

Pending == UNION {batches[q] : q \in RequestIds}

\* flush_all_pending_command_results
FlushAll ==
    /\ shown' = shown \cup Pending
    /\ batches' = NoBatches
    /\ generation' = NoGenerations

-----------------------------------------------------------------------------
(* The connection                                                          *)

\* Slip: what has not been taken is left to the next connection.
DropKeepInbound ==
    /\ link' = "none"
    /\ reader' = FALSE
    /\ writer' = FALSE
    /\ server' = "none"
    /\ UNCHANGED inbound

\* The runtime is dropped: nothing will be taken from its queues any more.
Drop ==
    /\ link' = "none"
    /\ reader' = FALSE
    /\ writer' = FALSE
    /\ inbound' = <<>>
    /\ server' = "none"

\* A failed attempt or a lost connection: again, or the end of the process.
GiveUpOrRetry ==
    phase' = IF mode = "session" /\ Reconnects THEN "connecting" ELSE "ended"

\* clear_file_transfer_state, before every attempt but the first one: no state to
\* clear exists then.  Timers go on and will find nothing.
ClearState ==
    /\ batches' = NoBatches
    /\ generation' = NoGenerations
    /\ open' = {}
    /\ replays' = replays \cup open

\* connect_with_console_plugin: the socket opens and init is sent, or not.
Connect ==
    /\ phase = "connecting"
    /\ ClearState
    /\ \/ /\ phase' = "handshake"
          /\ link' = "up" /\ reader' = TRUE /\ writer' = TRUE
          /\ UNCHANGED <<inbound, server>>
       \/ /\ GiveUpOrRetry
          /\ UNCHANGED <<link, reader, writer, inbound, server>>
    /\ UNCHANGED <<mode, running, quit, toCome, heartbeat, told, timers, shown>>

Arrive(packet) == inbound' = Append(inbound, packet)

\* External: the server registers the session, then answers its init.  Others may
\* send to the session as soon as it is registered.
Register ==
    /\ link = "up" /\ server = "none"
    /\ \/ server' = "registered" /\ UNCHANGED inbound
       \/ server' = "refused" /\ Arrive("initError")
    /\ UNCHANGED <<procVars, link, reader, writer, toCome, heartbeat, fileVars, resultVars>>

AnswerInit ==
    /\ link = "up" /\ server = "registered"
    /\ server' = "accepted"
    /\ Arrive("initAck")
    /\ UNCHANGED <<procVars, link, reader, writer, toCome, heartbeat, fileVars, resultVars>>

Incoming(packet) ==
    /\ link = "up"
    /\ server \in {"registered", "accepted"}
    /\ packet \in toCome
    /\ toCome' = toCome \ {packet}
    /\ Arrive(packet)
    /\ UNCHANGED <<procVars, link, reader, writer, server, heartbeat, fileVars, resultVars>>

\* External: the connection breaks, or the server closes it.
Break ==
    /\ link = "up"
    /\ link' = "broken"
    /\ UNCHANGED <<procVars, reader, writer, inbound, server, toCome, heartbeat,
                   fileVars, resultVars>>

\* The reader finds out and closes both inbound queues.
ReaderEnds ==
    /\ link = "broken" /\ reader
    /\ reader' = FALSE
    /\ UNCHANGED <<procVars, link, writer, inbound, server, toCome, heartbeat,
                   fileVars, resultVars>>

\* The writer finds out when it has something to write, a heartbeat, and closes
\* the outbound channel.
WriterEnds ==
    /\ link = "broken" /\ writer /\ heartbeat
    /\ writer' = FALSE
    /\ UNCHANGED <<procVars, link, reader, inbound, server, toCome, heartbeat,
                   fileVars, resultVars>>

\* spawn_heartbeat_loop ends with the outbound channel; acks are not looked at.
HeartbeatEnds ==
    /\ heartbeat /\ ~writer
    /\ heartbeat' = FALSE
    /\ UNCHANGED <<procVars, connVars, fileVars, resultVars>>

-----------------------------------------------------------------------------
(* wait_for_init_ack                                                       *)

Take(packet) ==
    /\ inbound # <<>> /\ Head(inbound) = packet
    /\ inbound' = Tail(inbound)

\* Slip: only the first connection looks for replays.
OnInitAckNoReplay ==
    /\ phase = "handshake"
    /\ Take("initAck")
    /\ phase' = IF mode = "send" THEN "waiting" ELSE "online"
    /\ heartbeat' = (mode = "session")
    /\ UNCHANGED <<mode, running, quit, link, reader, writer, server, toCome,
                   fileVars, resultVars>>

\* A session starts its heartbeats; after a reconnect it tells of the transfers
\* that were lost (replay_after_reconnect).  `send command` sends its command.
OnInitAck ==
    /\ phase = "handshake"
    /\ Take("initAck")
    /\ phase' = IF mode = "send" THEN "waiting" ELSE "online"
    /\ heartbeat' = (mode = "session")
    /\ told' = told \cup replays
    /\ replays' = {}
    /\ UNCHANGED <<mode, running, quit, link, reader, writer, server, toCome, open,
                   resultVars>>

\* Any other packet that comes before is thrown away.
OnEarlyPacket ==
    /\ phase = "handshake"
    /\ inbound # <<>> /\ Head(inbound) \in Packets
    /\ inbound' = Tail(inbound)
    /\ UNCHANGED <<procVars, link, reader, writer, server, toCome, heartbeat,
                   fileVars, resultVars>>

\* The server refuses, or the stream ends first.
HandshakeFails ==
    /\ phase = "handshake"
    /\ \/ inbound # <<>> /\ Head(inbound) = "initError"
       \/ inbound = <<>> /\ ~reader
    /\ Drop
    /\ GiveUpOrRetry
    /\ UNCHANGED <<mode, running, quit, toCome, heartbeat, fileVars, resultVars>>

-----------------------------------------------------------------------------
(* The session loop                                                        *)

\* Whatever the main task returns to between two packets.
Home == IF mode = "send" THEN "waiting" ELSE "online"

\* handle_command_event: nothing else is taken while the command runs.
OnCommand(c) ==
    /\ phase = Home
    /\ Take(c)
    /\ phase' = "executing"
    /\ running' = {c}
    /\ UNCHANGED <<mode, quit, link, reader, writer, server, toCome, heartbeat,
                   fileVars, resultVars>>

\* The command ends or times out, its result is sent.  On a closed outbound
\* channel that is an error, which ends the loop and the process with it.
CommandDone ==
    /\ phase = "executing"
    /\ phase' = IF writer THEN Home ELSE "ended"
    /\ running' = {}
    /\ UNCHANGED <<mode, quit, connVars, heartbeat, fileVars, resultVars>>

\* A result goes to the aggregator.
OnResult(r) ==
    /\ phase = "online"
    /\ Take(r)
    /\ Merge(r)
    /\ UNCHANGED <<procVars, link, reader, writer, server, toCome, heartbeat, fileVars, shown>>

\* A transfer begins; a line of the user is sent in the same way.  Again an error
\* of the connection ends the process.
UserSends(f) ==
    /\ phase = "online"
    /\ \/ writer /\ open' = open \cup {f} /\ UNCHANGED phase
       \/ ~writer /\ phase' = "ended" /\ UNCHANGED open
    /\ UNCHANGED <<mode, running, quit, connVars, heartbeat, replays, told, resultVars>>

UserQuits ==
    /\ phase = "online"
    /\ phase' = "ended"
    /\ quit' = TRUE
    /\ heartbeat' = FALSE
    /\ UNCHANGED <<mode, running, connVars, fileVars, resultVars>>

\* Slip: the heartbeats of the lost connection are not stopped.
DisconnectedKeepHeartbeat ==
    /\ phase = "online" /\ ~reader
    /\ Drop
    /\ GiveUpOrRetry
    /\ UNCHANGED <<mode, running, quit, toCome, heartbeat, fileVars, resultVars>>

\* Slip: only a heartbeat that cannot be sent tells of a lost connection.
DisconnectedByWriter ==
    /\ phase = "online" /\ ~writer
    /\ Drop
    /\ heartbeat' = FALSE
    /\ GiveUpOrRetry
    /\ UNCHANGED <<mode, running, quit, toCome, fileVars, resultVars>>

\* recv_next_message finds a closed queue; packets may still wait in the other.
Disconnected ==
    /\ phase = "online" /\ ~reader
    /\ Drop
    /\ heartbeat' = FALSE
    /\ GiveUpOrRetry
    /\ UNCHANGED <<mode, running, quit, toCome, fileVars, resultVars>>

-----------------------------------------------------------------------------
(* wait_for_command_result of `send command`                               *)

\* Slip: the result is left to the debounce timer.
OnFirstResultUnflushed(r) ==
    /\ phase = "waiting"
    /\ Take(r)
    /\ Merge(r)
    /\ phase' = "ended"
    /\ UNCHANGED <<mode, running, quit, link, reader, writer, server, toCome,
                   heartbeat, fileVars, shown>>

\* The first result, of whatever command and client, is merged like any other, all
\* is flushed, and the wait ends.
OnFirstResult(r) ==
    /\ phase = "waiting"
    /\ Take(r)
    /\ shown' = shown \cup Pending \cup {r}
    /\ batches' = NoBatches
    /\ generation' = NoGenerations
    /\ timers' = timers \cup {<<RequestId(r), generation[RequestId(r)] + 1>>}
    /\ phase' = "ended"
    /\ UNCHANGED <<mode, running, quit, link, reader, writer, server, toCome,
                   heartbeat, fileVars>>

\* The deadline passes, or the inbound queue is closed and empty.
WaitEnds ==
    /\ phase = "waiting"
    /\ phase' = "ended"
    /\ FlushAll
    /\ UNCHANGED <<mode, running, quit, connVars, heartbeat, fileVars, timers>>

-----------------------------------------------------------------------------

SessionLoop ==
    \/ \E c \in Commands : OnCommand(c)
    \/ \E r \in Results : OnResult(r) \/ OnFirstResult(r)
    \/ Disconnected

Handshake == OnInitAck \/ OnEarlyPacket \/ HandshakeFails

Network ==
    \/ Register \/ AnswerInit \/ Break
    \/ \E packet \in Packets : Incoming(packet)

Ended == phase = "ended" /\ UNCHANGED vars

Next ==
    \/ Connect \/ Handshake \/ SessionLoop \/ CommandDone \/ WaitEnds
    \/ ReaderEnds \/ WriterEnds \/ HeartbeatEnds
    \/ \E t \in DebounceTimers : Debounced(t)
    \/ \E f \in Files : UserSends(f)
    \/ UserQuits
    \/ Network
    \/ Ended

\* The runtime polls its tasks; timers run out, a command ends at its timeout and
\* a wait at its deadline.  Nothing is assumed of the server, of the network or of
\* the user.
Fairness ==
    /\ WF_vars(Connect) /\ WF_vars(Handshake)
    /\ WF_vars(SessionLoop) /\ WF_vars(CommandDone) /\ WF_vars(WaitEnds)
    /\ WF_vars(ReaderEnds) /\ WF_vars(HeartbeatEnds)
    /\ \A t \in DebounceTimers : WF_vars(Debounced(t))

Spec == Init /\ [][Next]_vars

FairSpec == Spec /\ Fairness

-----------------------------------------------------------------------------
(* Properties                                                              *)

\* "断线后会自动重新连接并重新 `init`": with a reconnect interval, only its user ends
\* a session.
OnlyTheUserEnds ==
    mode = "session" /\ Reconnects => (phase = "ended" => quit)

\* A connection that breaks is noticed, whatever the process is doing: it is
\* given up, or the process ends.
BreakIsNoticed == link = "broken" ~> link # "broken" \/ phase = "ended"

\* Heartbeats are sent while a session has a connection, and never by a
\* connection that has been given up.
HeartbeatFollowsSession ==
    /\ heartbeat => phase \in {"online", "executing", "ended"}
    /\ mode = "session" /\ phase \in {"online", "executing"} /\ writer => heartbeat

\* No transfer outlives its connection, and before a session goes on the user has
\* been told of every transfer that was lost.
LostTransfersTold ==
    /\ phase \in {"connecting", "handshake"} /\ link = "up" => open = {}
    /\ phase \in {"online", "executing"} => replays = {}

\* "按 `request_id` 防抖聚合": the results of one broadcast command that wait to be
\* printed are printed together.
GroupedByCommand ==
    [][\A r, s \in Results :
          /\ CommandOf[r] = CommandOf[s]
          /\ {r, s} \subseteq Pending
          /\ r \in shown' \ shown
          => s \in shown']_vars

\* A result the console has taken is printed.  Only a new connection, which empties
\* the buffer unprinted, or the end of the process may come before its timer.
ResultsArePrinted ==
    \A r \in Results : r \in Pending ~> r \in shown \/ phase \in {"connecting", "ended"}

\* "so output is not lost to debounce": `send command` prints what it has taken
\* before it exits.
SendFlushes == mode = "send" /\ phase = "ended" => Pending = {}

=============================================================================
