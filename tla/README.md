# Verification of y2m

y2m is a small messaging system in Rust (`src/y2m-rs`): a WebSocket server that
routes events between named clients, and a command-line client (`y2m chat`,
`y2m run`, `y2m send`). Beside it the repository has a management console in
Angular (`src/frontend-monorepo`) and a stub of an authentication service
(`src/auth-service`). This directory holds TLA+ models of the parts where the
difficulty lies, model-checked with TLC, and proofs checked with TLAPS.

1. Inventory
2. Modules, and how they correspond to the code
3. Runs, bounds, fairness
4. Disagreements found
5. Proofs
6. What is not modelled
7. Plan

## 1. Inventory

### Server (`crates/server`)

**Session store** (`session.rs`). State: `groups` (group -> client name ->
record) and `connections` (connection id -> record), the same records twice, each
map under its own `RwLock`. Operations: `register`, `touch_heartbeat`,
`remove_connection`, `expired_connection_ids`, and the lookups `resolve_*`. No
operation holds both locks, so every writer has a point in its middle where the
maps differ. Callers: one handler task per socket, and the sweeper. Correct when:
a name has one holder; whoever is found by id holds its own name; a removal never
takes away the name of somebody who came later; nothing is left behind by
sessions that are gone; silent sessions go.

**Connection handler and sweeper** (`ws.rs`, `init.rs`). `handle_socket` reads one
frame at a time: `init`, heartbeat, event, ack, binary chunk; when the socket ends
it removes the session and cleans up its transfers. The sweeper wakes up
periodically, removes what has expired, tells the client, closes its socket and
runs the same cleanup. It does not stop the handler: until the socket really ends
the handler goes on with a session that no longer exists (a *zombie*). Correct when:
each cleanup is done completely, each leg is reported once, and the zombie leaves
nothing behind.

**Router** (`router.rs`). Stateless: unicast, broadcast without the sender, or an
error. What it resolves may be out of date when it is used.

**Transfer registry** (`transfer.rs`). State: `legs` (file, receiver -> sender,
request id, accepted) and `by_request_id` (request id -> file), again with a lock
each. Operations: `create_offer`, `mark_accepted`, `accepted_sender_legs`,
`set_complete_request_id_for_file`, `remove_by_file_id`, `remove_by_request_id`,
`remove_by_connection`. Correct when: chunks reach only receivers that accepted,
and legs and ids go when a transfer ends, however it ends.

### Client (`src/`, `crates/client-core`)

**File transfer** (`file_store.rs`, `state/`). State: per file one of
PendingOffer, Receiving, WaitingAccept, Sending, WaitingAck. Operations: the user's
`/file /accept /reject /abort`, one handler per packet, and a background task per
file that sends the chunks. The session loop and the send task share the store.
Correct when: what the user is told of a file is true, chunks are put together in
order, and nobody waits for ever.

**Connection and session loop** (`client-core/connection.rs`, `core.rs`,
`plugin.rs`, `main.rs`, `cmd_run.rs`, `cmd_chat.rs`, `cmd_send.rs`). A reader task
splits what comes in into a queue of packets and a queue of chunks, a writer task
empties the outbound channel, a heartbeat loop feeds it. The main task connects,
waits for the answer to its `init` and then takes from the queues, one packet at a
time. `main.rs` begins again after a failure, if a reconnect interval is set. Correct
when: a lost connection is noticed whatever the process is doing, nothing of it
lives on, transfers lost with it are told of, and only the user ends a session.

**Command execution and result aggregation** (`state/command.rs`,
`state/command_results.rs`). The session loop waits while a command runs. Results of
the user's own commands are merged per request id; every one starts a debounce
timer, and only the timer of the last one prints the batch. Correct when: each result
that is taken is printed, once and in time.

**Blocking send** (`file_flow.rs`, `cmd_send.rs`). `y2m send file` does in one
function what a session spreads over its loop and a task: offer, wait, chunks,
`file_complete`, wait. Both waits have deadlines. It keeps nothing in the store, and
the process ends with it. Correct when: it tells the truth, and whatever ends it lets
the receiver go.

**Shell** (`cli.rs`, `cmd_init.rs`, printing, line editor, configuration).

### Management console and auth service

The console (`apps/y2-manage`) keeps an access token and its expiry in memory
(`auth-session.service.ts`). A request that meets a 401 waits for one refresh, shared
by all (`auth-api.service.ts`), and is sent once more
(`auth-http.interceptors.ts`); a scheduler refreshes before the token expires
(`session-renew.scheduler.ts`); guards decide between login page and shell. Everything
runs on one thread, but answers, timers, effects and navigations come in any order.
Correct when: there is one refresh at a time, no request is repeated twice or left
waiting, a session is always going to be renewed, and who has left stays out of the
shell. The auth service answers health and version requests only.

### How they interact

    user -> client loop -> outbound queue -> socket -> handler task of the server
                ^   |                                   |  session store
      packets / |   | store of files                    |  transfer registry
       chunks   |   v                                   v
             reader <- socket <- outbound channel of the connection <- any task

The hard behaviours are the windows between two locks (session store, registry),
records resolved before and used after other tasks have run (router, sweeper),
zombies, the two queues of a client, and two tasks on one store. `PROJECT.json`
lists them under `hazards`, each with its line and with the properties for it.

## 2. Modules

| module | models |
| --- | --- |
| `SessionDirectory` | the abstract session store: four stages per connection, one holder per name |
| `SessionStore` | `session.rs`, and the tasks of `ws.rs` that use it, one step per lock |
| `TransferRegistry` | `transfer.rs`, one operator per acquisition of a lock |
| `FileRelay` | the server's handlers and sweeper on the directory and the registry |
| `TransferPromise` | what the two sides of a transfer see of it, and nothing between them |
| `FileTransfer` | one file sent in a session, end to end: client stores, send task, two queues, server |
| `FileSend` | extends it by `y2m send file`, so that either may be the sender |
| `ClientSession` | a client process: connections, handshake, loop, reconnects, commands, results |
| `ManageAuth` | the console: session, shared refresh, retry, renewal timer, login page, router |
| `SessionStoreProofs`, `FileRelayProofs`, `FileSendProofs`, `ClientSessionProofs`, `ManageAuthProofs` | theorems about these modules |
| `FileOrderProofs` | about `FileSend` too: chunks stay in step |
| `FileSendRefinement` | and that it implements `TransferPromise` |
| `FileRelayAckProofs` | about `FileRelay` too: the ack of a unicast file cleans up |
| `MC...` | instances for TLC |

Definitions that end in something like `Unchecked` or `Keep...` and whose comment
begins with *Slip* are deliberately wrong versions of the definition below them,
one plausible mistake each. They are not part of any specification; each property
is tried against one to see that it can fail.

### SessionStore

`groups`, `openGroups` (the outer keys of `groups`) and `connections` are the maps.
`task[c]` is where the handler of socket `c` is, `session[c]` the record it keeps
for itself, `stamp[c]` the age of the time it has read but not yet stored.
`pending[p]` is what remover `p` (a handler or the sweeper) has taken out of
`connections` but not yet out of `groups`; `queue`, `victim` and `notified` belong to
the sweeper. `register` is `BuildRecord`, then `BeginRegister` or `RefuseRegister`
under the first lock, then `EndRegister`; `touch_heartbeat` is `ReadClock`,
`BeginTouch` or `TouchForgotten`, `EndTouch`; `remove_connection` is
`TakeConnection`, `FreeName`, inside the actions of its two callers.

Times are kept as ages, capped one above the timeout, as the code only compares an
age with the timeout; `Tick` makes everything a second older and may happen between
any two steps, in particular between reading the clock and storing the time. The
sweeper reads its clock in the step in which it takes the lock: a delay between the
two makes ages look smaller than they are, so it would only miss sessions that the
next round finds.

The connection id of socket `c` is `c`. Ids are fresh UUIDs; `Accept` reuses one
only when nothing in the server mentions it any more.

### SessionDirectory

Seen from outside a connection is absent, named (holds its name), online (found by
id as well) or retired (no longer found by id). `SessionStore` implements it
(`ImplementsDirectory`, refinement mapping `DirStage`, `DirSlot`); `FileRelay` is
built on it and so does not repeat the two maps, and is proved to keep to it
(`RelayKeepsToDirectory`).

### FileRelay

`job[p]` is the local state of each handler and of the sweeper: the step it is at
and the locals it keeps between steps (packet, resolved receivers, collected keys,
removed records). A packet is a pair of kind and file; `sent[c]` holds what the
client of `c` has sent, `heard[c]` what was put into the outbound channel of `c`.
Clients are an environment: they send what the y2m client can send once it has
heard what makes it do so, at any time. The send task looks at the store and sends
after it, so chunks and `file_complete` may follow an abort (`SendChunk`,
`SendComplete`; the code lets one frame through, the model any number). A sender notes
`"*"` (`Star`) as peer of a file it offered to everyone, as `start_outgoing_file` does.

Every lock taken is a step. `BeginSweep` may pick any online session in `Sweepable`:
whether a session has expired is the business of `SessionStore`.

### FileTransfer

`local[c]` is the state of the file in the store of `c`, `task` the send task,
`outcome[c]` the last thing the console of `c` said about the file (a history of what
the user was told). `uplink`, `packets` and `frames` are the wires: what a client has
sent travels in one FIFO; what it gets waits in one of two, `packets` and `frames`,
in which the connection to the server, the reader task and the queue behind it are
merged. `legs`, `ackExpected` and `online` are what the server knows. The server
handles a packet in one step; `FileRelay` takes those steps apart.

`target` is the receiver the offer names, or `Everyone`; `Addressed` are those it goes
to. The send task checks the store (`CheckOutgoing`), then sends a chunk or
`file_complete`, then notes which ack to wait for (`AwaitAck`), each a step of its
own, while the loop and the user go on. Failing reads and writes of files end the
session with an error and are a case of `Leave`, the loss of a connection, which
loses a part of what was under way and clears the local store, as happens before a
reconnect.

### FileSend

`flow` is where `send_file_flow` is, `"none"` if a session sends the file; `Init`
chooses. Receivers and server are those of `FileTransfer`: they cannot tell the
difference. `FirstAccept`, `Bail`, `FirstAck` and `Dispatch` are the arms of the two
waits, `Deadline` their timeouts. Every end of the flow is an `Exit`: the process ends
and its connection with it. `SendAll` puts all chunks and `file_complete` into the
outbound queue in one step: the code awaits nothing in between, and the queue is
unbounded.

Between offer and exit the flow sends no heartbeat, and how long it waits is its user's
choice: the server may sweep its session away at any point (`Sweep`). The sweeper
removes the connection, sends the error `heartbeat_timeout` and a Close, and cleans up the
transfer. The flow ends on *any* error of the server, whatever it is about (`Bail`). What
it then prints depends on the wait: before the chunks, that the server refused to send the
file (outcome `"unsent"`); after them, that the server reported an error (`"failed"`). A
sender that is swept hears the error before the end of its stream and so reports one of
these two, not a lost connection. `LoseConnection` is a connection that breaks by itself, or
the Close of the sweep; the socket's handler then ends the session once more
(`EndSession`) and finds nothing.

The sweeper is another task than the handler of the socket. What a handler does for one
packet has two parts that matter here, the change of the registry and the forwarding, and
a sweep in between makes a difference for an offer only: its legs are noted one by one and
delivered after it, so the sweep finds some of them, and its abort may be queued before the
offer (`SweepDuringOffer`). Any other packet of the sender finds all of it done or nothing;
the windows between the locks are in `FileRelay`.

### TransferPromise

The abstract transfer: `sender` is what the sender has been told (`idle`, `offered`, or
one of six ends), `view[r]` what receiver `r` has been asked or told, `got[r]` the
chunks it has counted. No queue, store, task or server is left in it, so it can only say
how the two sides depend on each other: `Deliver` needs a receiver that has saved the
file; `Refuse`, for a file with one receiver, that this receiver has nothing of it, and
`Ask` that it is not asked afterwards; `Withdraw` (the server refused to send the file)
that nobody has got a chunk, and `Get` that nobody gets one afterwards, though a receiver may
still be asked and agree. An end has no way out. `GiveUp` may come at any time: after an
abort, a lost connection or an error that follows the chunks the sender knows nothing of its
receivers, which may even have saved the file. `Broadcast` and the counting of chunks are kept because `Break` and `Save` depend on them.
`SenderView` and `ReceiverView` of `FileSend` read these states off the stores, `flow` and
the outcomes (`KeepsPromise`).

### ClientSession

`phase` is where the main task is; `link`, `reader`, `writer`, `heartbeat` say which of
the connection's parts live, each ending in a step of its own. `server` is what the
server has made of the socket: others may send as soon as it is `registered`, before
the answer to `init` (`AnswerInit`) is under way, so the handshake may meet, and throw
away, packets (`OnEarlyPacket`). `open`, `replays` and `told` follow the transfers
that a lost connection takes with it. `batches`, `generation` and `timers` are the
aggregator, `shown` the results printed.

Time is left out: a timer, a command's timeout or a deadline may come at any moment.
A second failure of the process itself is not modelled: `ended` is the end.
`mode` tells a session from `send command`, which shares everything up to its wait.

### ManageAuth

`token` stands for access token and expiry, which are set and cleared together;
`effectDue` says that the scheduler's effect has to run again, `timer` that its timer
is set, `renewing` that it waits for a refresh. `calls` counts refreshes on the wire,
`singleton` is the shared observable. `req[r]` is a business request: sent, waiting for
a refresh, sent again, or settled; `sends[r]` counts. `page`, `going`, `step` and `form`
are router and login page. An answer, a timer, an effect, a click and a decision of
the router are one action each. `RefreshDone` and `RefreshFailed` serve all
subscribers in one step, as the shared observable does.

## 3. Runs

| run | question | states |
| --- | --- | --- |
| `SessionStore` | do the two maps agree, are removals and notices right, does nothing leak, do silent and ended sessions go, does the store implement the directory? | 113 k |
| `SessionStoreSweep` | does the sweeper remove only what has expired? (no) | |
| `FileRelay` | after disconnects and sweeps, is the registry clean, is each leg reported once and the other end told? | 438 k |
| `FileRelayBroadcast` | do chunks reach only receivers that accepted? | 1.09 M |
| `FileRelayAck` | does an ack clean up a broadcast? (no) | |
| `FileSend` | is the sender told the truth, do chunks stay in step, are reports final, is the receiver let go, for one receiver or a group, session or command, swept or not? | 512 k |
| `FileSendSweep` | does a receiver learn of a sender swept in the middle of its offer? (no) | |
| `FileTransferOrder` | has a receiver that gets `file_complete` got all chunks? (no) | |
| `FileTransferAck` | does the sender learn how it ended? (no) | |
| `ClientSession` | is a lost connection noticed, told of and left behind, are results printed? | 92 k |
| `ClientSessionReconnect` | does only the user end a session that reconnects? (no) | |
| `ManageAuth` | one refresh, one repetition, always a renewal, nobody in the shell without a session? | 91 k |

Properties, by run:

- `SessionStore`: `TypeOK`; `PublishedOwnsName`, whoever is found by id holds its
  name; `RemovalEvictsOwner`, the entry a half-done removal is about to delete is
  its own; `NoLeak`, names and groups do not outlive sessions; `NoticeAfterRelease`,
  a client told of its timeout can come back at once; `OnlyInitBinds`, nothing but
  `init` brings a session into routing; `SilentSessionsSwept`,
  `EndedSocketsRelease`; `ImplementsDirectory`, its liveness included.
- `FileRelay`: `TypeOK`; `LegsDieWithSender`, zombies included; `AckCleansTransfer`,
  for a unicast file (the group is bob alone here); `NameReturned`, once a handler has
  finished its session's name is free, whether it or the sweeper has removed the session;
  `LegReportedOnce`, sweeper and handler never report the same leg, though both clean up
  after a swept session; `AbandonedPeerIsTold`.
- `FileRelayBroadcast`: `ChunksOnlyToAccepters`.
- `FileSend`: `FlowTypeOK`; `DeliveredMeansSaved`; `BrokenOnlyAtStart`, only a
  receiver that accepts a broadcast late loses step, and then at the first chunk;
  `RefusedMeansNotSaved`, a reported refusal of the one receiver is true and stays so;
  `UnsentMeansNotSaved`, a file the server refused to send reaches nobody, then or later;
  `ReceiverLearns`, the one receiver that has accepted does not wait for ever;
  `ReceiverLetsGo`, nor does it keep the file, accepted or not, once the sender has
  come to its end; `KeepsPromise`, nothing happens to the users but what
  `TransferPromise` allows.
- `ClientSession`: `TypeOK`; `HeartbeatFollowsSession`; `LostTransfersTold`;
  `SendFlushes`; `BreakIsNoticed`; `ResultsArePrinted`, only a new
  connection or the end of the process keeps a result that was taken from the console.
- `ManageAuth`: `TypeOK`; `SingleFlight`; `RetriedOnce`; `RenewalNeverStops`;
  `SignedOutStartsNoRefresh`; `RequestsSettle`; `ShellNeedsSession`.

### Bounds

- Two sockets and the sweeper in `SessionStore`: the windows are between two tasks
  (two registrations of a name, a registration and a removal, handler and sweeper on
  one session). Sockets are used again and again, so histories are not bounded. Three
  sockets in one group with the safety invariants have been checked once as well
  (3.4 million states). Two groups and one shared name are enough for a name in the
  wrong group, for an emptied group and for a refused registration in a group of its
  own; a blank name becomes the socket's own, so there are other names too.
- `Timeout = 1` is the least value with an age that is not expired after a tick.
- One file in `FileRelay` and `FileTransfer`: no operation of registry or store looks
  at two files except the cleanup after a connection, which treats each leg alike.
- Two chunks: a first, a last, and a mismatch between them.
- `Sweepable` and `Targets` (`FileRelay`), `Targets` and `MayLeave` (`FileTransfer`) say
  in each cfg whose heartbeats may fail, whom files are offered to and whose
  connections may break; any client may disconnect in `FileRelay`. A socket is used
  once there. In `FileSend` the file goes to bob, or to bob and carol; carol has a
  download directory, so one receiver asks its user and one does not.
- `Overtaken` (`FileSend`): the receivers whose offer the abort of a sweep may overtake.
  It is carol in `FileSend`: the safety properties hold whatever it is (the proofs leave
  it open), but `ReceiverLearns` and `ReceiverLetsGo`, which speak of the one receiver of a
  file, fail when it is that receiver. Run `FileSendSweep` shows the first of them.
- `FileRelayBroadcast` treats its two receivers as interchangeable (`SYMMETRY`). It
  checks safety only, and without the sweeper, which with three clients would make it too
  large. What a sweep adds is in `FileRelay` and in the theorem
  `ChunksOnlyToAcceptersAlways`.
- `ClientSession`: one command from elsewhere, one transfer, and three results of two
  commands, so that two results can meet in a batch and a third stays out of it. The
  process may connect any number of times.
- `ManageAuth`: two requests, enough for two subscribers of one refresh beside the
  scheduler, and for a late 401; they are issued again and again. `Visit` waits until
  router and login form are idle. `DevBypassAuth` is off; with it the guards let
  everyone in.

The runs of `FileRelay`, `FileTransfer` and `FileSend` set `CHECK_DEADLOCK FALSE`: a file
is sent once and clients may leave for good, after which nothing is left to happen. A
client process ends too, but `ClientSession` says so with an action (`Ended`).

### Fairness

Weak fairness, only of what the runtime drives by itself: a handler that has taken a
packet, the cleanup, the sweeper's rounds, the send task, the loop and the server on
a packet that has arrived, readers, timers and deadlines; in the console, that a
browser ends every call by an answer or an error and the router decides every
navigation. Tokio polls every task that can go on, its locks are fair and are held for
one step, and `select!` picks at random among the queues that are ready, so no queue
is starved. `FileSend` assumes less than that: only that some task that can go on does
(`Progress`), which is enough as a transfer has finitely many steps. `WriterEnds` is not
fair: `BreakIsNoticed` rests on the reader alone. Nothing is assumed of users, of other
clients' packets, of what servers answer, of sockets ending, of time passing, or of
sessions expiring: nothing makes the sweeper of `FileSend` come, either.

## 4. Disagreements found

Each is a run that ends in a counterexample; `PROJECT.json` quotes the texts.

1. *The sweeper may remove a session that has just been heard from*
   (`SweepsOnlyExpired`). Ids are collected under a lock that is released before the
   removals; the age is not looked at again. The heartbeat in between is even acked.
2. *In a broadcast, an ack may clean nothing up* (`AckCleansTransfer`). All legs carry
   the one id of `file_complete`; when one receiver disconnects, `remove_by_connection`
   drops that id, and the ack of the other finds nothing.
3. *A receiver may accept a file whose sender is gone, and wait for ever*
   (`FileSendSweep`, `ReceiverLearns`). The handler notes the legs of an offer before it
   delivers the offer. When the sweeper removes the sender in between, its abort is queued
   first; the receiver ignores it, then takes the offer, and its accept is answered with an
   error that it prints and forgets.
4. *`file_complete` may overtake chunks inside the client* (`CompleteComesLast`), as
   the loop selects between two queues: a complete file is then refused.
5. *An ack may come too early* (`SenderLearns`). The send task sends `file_complete`
   before it notes the id whose ack it waits for; an ack handled in between is dropped
   and the file stays in `/files` although the receiver has saved it.
6. *A session that should reconnect may end* (`OnlyTheUserEnds`). While a command runs
   nobody looks at the inbound queues; the writer may find the broken connection first.
   The result then meets a closed channel, and this error, like that of a typed line,
   passes `run_run` and ends the process.

Met on the way, without a run of their own:

- `docs/product/当前实现说明.md:263` says that `/abort` cancels an outgoing file. The abort of a
  file for everyone goes to a client named `*` (`file_handling.rs:195`), is refused, and all
  receivers keep waiting. `SenderAbortEndsTransfer` (`FileRelay`) states the documented
  behaviour; it is violated with `Targets = {Everyone}`.
- `y2m send file` prints "服务端拒绝文件发送" for every error of the server, a sweep of its
  own session among them (`file_flow.rs:143`), while its receiver may be about to accept; and
  "服务端返回错误" (`file_flow.rs:178`) when the receiver has saved the file and the ack
  crosses the sweep. The first is true of what reaches the receiver
  (`UnsentMeansNotSaved`), the second says nothing of it.
- The message after a lost connection announces a reconnect in some seconds
  (`cmd_run.rs:44`); the first attempt follows at once, and it empties the buffer of the
  results that wait for their 250 ms.
- `command_results.rs:11` and `docs/product/当前实现说明.md:244-245` say that results of
  one broadcast command are gathered by `request_id`. `plugin.rs:75` takes the id of the
  result packet, and `command_bus.rs:275` gives every packet a fresh one, so every batch
  has one result. `GroupedByCommand` (`ClientSession`) states the documented behaviour;
  it is violated when two results of one command are waiting.
- `apps/y2-manage/README.md:50` says "多请求并发只发起一次 refresh". One refresh at a time
  is right (`SingleFlight`), one for all concurrent requests is not: a 401 that comes
  after the refresh, for a request sent with the old token, starts another.
- `docs/product/y2-manage-框架搭建任务表.md:97` has logout clear the session in memory. A
  refresh on its way is not cancelled, and its answer brings the session back.
  `SignedOutStartsNoRefresh` is what remains true.
- Any failure of a repeated request, a lost network for instance, ends the session, as
  `catchError` stands behind the repetition (`OnSecondAnswer`).
- An `expiresIn` not above `refreshSkewSeconds` makes the renewal delay 0: refreshes then
  follow one another without a pause.

## 5. Proofs

The proofs hold for any number of sockets, names, groups, files, receivers, chunks,
requests, commands and results. Assumed is only what each module states by name:

- `SessionStoreAssumption`: the sweeper is not a socket, the default group is a group, a
  blank is not, absent entries are distinguishable, the timeout is a natural number;
- `FileRelayAssumption` and `FileTransferAssumption`: tasks, names and `Everyone` are told
  apart, a file has an owner, the sender is no receiver;
- `ClientSessionAssumption`, `ManageAuthAssumption`: packets are told apart, the results
  and requests are finitely many.

| theorem | states |
| --- | --- |
| `SessionStoreProofs!TypeCorrect` | `TypeOK` always |
| `PublishedOwnsNameAlways` | `PublishedOwnsName` always |
| `RemovalEvictsOwnerAlways` | `RemovalEvictsOwner` always, and `OneRemoverPerSession` |
| `NoLeakAlways` | `NoLeak` always |
| `NoticeAfterReleaseAlways` | `NoticeAfterRelease` always |
| `StoreImplementsDirectory` | the store implements the directory's safety part |
| `OnlyInitBindsAlways` | the action property `OnlyInitBinds` |
| `FileRelayProofs!RelayTypes` | `TypeOK` always |
| `ChunksOnlyToAcceptersAlways` | `ChunksOnlyToAccepters` always |
| `LegReportedOnceAlways` | `LegReportedOnce` always |
| `LegsDieWithSenderAlways` | `LegsDieWithSender` always |
| `DirectoryFitsAlways` | whatever a handler or the sweeper has begun in the directory it finds as it left it |
| `NameReturnedAlways` | `NameReturned` always |
| `RelayKeepsToDirectory` | every step of the relay is a step of `SessionDirectory` or leaves it alone |
| `FileRelayAckProofs!AckCleansUnicast` | `AckCleansTransfer` always, when no file is offered to everyone |
| `FileSendProofs!FlowTypes` | `FlowTypeOK` always |
| `DeliveredMeansSavedAlways` | `DeliveredMeansSaved` always |
| `FileOrderProofs!BrokenOnlyAtStartAlways` | `BrokenOnlyAtStart` always |
| `FileSendRefinement!KeepsPromiseAlways` | `FileSend` implements `TransferPromise` |
| `RefusedMeansNotSavedAlways` | `RefusedMeansNotSaved` always |
| `UnsentMeansNotSavedAlways` | `UnsentMeansNotSaved` always |
| `ReportsAreFinalAlways` | no console takes back what it said of the end of a file |
| `EmptyFileFailsAlways` | with `Chunks = 0`, no receiver saves and no sender reports a delivery |
| `ClientSessionProofs!ClientTypes` | `TypeOK` always |
| `HeartbeatFollowsSessionAlways` | `HeartbeatFollowsSession` always |
| `LostTransfersToldAlways` | `LostTransfersTold` always |
| `SendFlushesAlways` | `SendFlushes` always |
| `ManageAuthProofs!ConsoleTypes` | `TypeOK` always |
| `SingleFlightAlways` | `SingleFlight` always |
| `RetriedOnceAlways` | `RetriedOnce` always |
| `RenewalNeverStopsAlways` | `RenewalNeverStops` always |
| `SignedOutStartsNoRefreshAlways` | the action property `SignedOutStartsNoRefresh` |

Hardly any of these invariants is inductive as it stands. Each module has one inductive
invariant, which TLC has confirmed on the instances above, and a case for each action.

**SessionStore.** Why the entry a half-done removal deletes is its own depends on nobody
being able to replace an entry that is there, which depends on where each entry's
session is:

    OwnInv == TypeInv /\ NamesFollowSessions /\ PublishedOwns /\ RegisteringOwns
              /\ PendingOwns /\ SweptOwnsNothing /\ NoNameLeak /\ NoEmptyGroups

- `NamesFollowSessions`: each entry of `groups` agrees with the record its handler
  keeps, so a session has at most one name;
- `PublishedOwns`, `RegisteringOwns`, `PendingOwns`: whoever is found by id, is being
  registered, or is being removed owns its name, these three exclude each other, and
  a session is in the hands of one remover;
- `SweptOwnsNothing`: a session the sweeper is done with has nothing left.

Most actions move no name (`SameOwners`); taking a connection and freeing a name have
lemmas used for handler and sweeper alike (`TakeKeepsOwners`, `ReleaseKeepsOwners`). For
the refinement, `OwnInv` gives a simple reading of the mapping (`StageFacts`: the stage of
a connection can be read off its own task, its entry and the removers), and each action
either moves one connection one stage or changes no stage and no name.

**FileRelay.** The invariant follows a leg through its life: it is created once, by the
handler of the file's owner (`LegsFit`, `HandlersFit`); it is accepted only after its
receiver has sent an accept; it is removed by one task, which then holds its record,
while nobody can create it again (`RemovedOnce`); and a handler past its cleanup has no
legs (`LegsHaveSender`). `StepKeepsLegs` says what a step must do to a leg, a job and a
history for all this to stay, and each handler's step is shown to do so.

The second invariant of `FileRelayProofs`, `DirectoryFits`, is about the directory: a
session that is named is being registered by its own handler, one that is retired is
being removed by its handler or by the sweeper and never by both, and a handler past
`remove_connection` is not online. The guards of `Publish` and `Release` in
`SessionDirectory` therefore never keep a task of the relay waiting, names come back
(`NameReturned`), and with `StoreImplementsDirectory` the two halves meet: the store
implements the directory, and the relay asks no more of it.

**FileSend.** An ack is believed because it comes from a receiver whose outcome says
`saved`, and that outcome cannot change any more: a file would have to enter the
receiver's store again, for which it would have to be offered again. So the invariant
counts offers (`OfferOnce`: one at most on the wire to the server, none before the sender
has made it, one at most on the way to each receiver and only while its store has seen
nothing of the file) and follows acks back (`AcksAreTrue`). `UpKeeps`, `InKeeps`,
`StoresFollow` and `SenderFollows` are what all steps have in common but the offer and its
way through the server, which have proofs of their own (`OfferStep`, `RelayOfferStep`).

**The order of chunks** (`FileOrderProofs`). A chunk is on the sender's wire, in a
receiver's queue, or still to be sent by the task or the command. `OrderInv` says that
these three continue each other: the wire's chunks are consecutive and end before the
one that is sent next (`Wire`); a receiver that has begun finds in its queue, and then on
the wire, the chunk it expects and all that follow (`InStep`). Why a receiver has begun
before the first chunk passes it rests on the order of offer, accept and chunks
(`Begins`, `Waits`): in a unicast nothing is sent before the accept, and nothing is
queued before the file has arrived. Most steps send no chunk and take none
(`PlainStep`); the others have a lemma each. The facts about queues of frames are lemmas
about sequences, the only data of which the proofs need more than its type.

**The promise** (`FileSendRefinement`). Every step is a step of `TransferPromise` or one
the users do not see. For the steps that begin or end something the mapping is not enough;
three invariants beside `Inv` and `OrderInv` say why the abstract guard holds:

- `Holds`, `SenderDone`: what a store holds follows the one offer, and its end is the last
  step it takes part in;
- `Refusals`: once a reject, a rejected ack or an abort has left a receiver, that receiver
  is `Settled`: its file is gone unsaved, and no offer is left anywhere that could bring
  it back; once any refusal is on its way to the sender, its one receiver is settled.
  Nothing unsettles a receiver (`SettledStays`), so whatever the order in which answers
  arrive, a refusal is still true when it is read;
- `NothingSent`: while the command is held back (`HoldingBack`: it has not sent its chunks,
  or has ended as unsent), no chunk is on its wire or in a receiver's queue, and none has
  been counted. This is why `Withdraw` is allowed. Nothing is claimed of a command that ends
  as failed: its receiver may have saved the file or be receiving it.

A session prints an error of the server and goes on (`OnError`), unless it names the file,
which only the error about too large an offer does; nobody has been offered such a file, and
`Refusals` counts it among the refusals that are true.

`ServerKeeps` deals with all steps of the handlers at once (`RelayKeeps`), `SweepKeeps` and
`SweepDuringOfferKeeps` with those of the sweeper: the users see none of them. The receivers' steps change one store (`StoreKeeps`), the sender's none but its own
(`SenderKeeps`). `ReportsAreFinalAlways` and `EmptyFileFailsAlways` are then read off the abstract steps
alone.

**The ack of a unicast file** (`FileRelayAckProofs`). The assumption `Unicast`, that no
offer has the target `Everyone`, is needed: run `FileRelayAck` refutes the property for
a broadcast. A name has one holder (`OneHolder`), so such an offer has one receiver, and
the file one leg: present, about to be created, or just removed by a task that holds its
record (`OneLeg`). `CompletesFit` is the heart of the invariant: once `file_complete`
is on its way, its id leads to the file (`Indexed`), or the legs are gone, or the handler
of an ack is between its two locks and removes them next (`Settling`). Whoever takes the
id away keeps this: a reject or abort has dropped the legs first, and a cleanup that
holds a record with that id has removed the only leg the file had; in a broadcast this
last step fails. `AcksFit` then says that an ack is not forwarded before the legs are
settled, and at rest nobody is between two locks. `StepOf` is what all steps have in
common; `RestStep` deals with those that work on no packet, `WorkStep` with a handler
inside one.

**ClientSession.** `PhaseLeaves` (each phase of the main task leaves nothing of an earlier
connection to the next) and `SendHasNoSession` (`send command` never has heartbeats or a
batch) carry the three properties.

**ManageAuth.** `SingletonIsCall`: the shared observable is there exactly while one call
is on the wire; `Subscribed`: whoever waits, waits for it; `SendsFollowPhase`: how often a
request has been sent can be read off its phase; `TimerHasSession`: a timer without a
session is about to be taken away.

Only model-checked: everything about liveness (`SilentSessionsSwept`,
`EndedSocketsRelease`, the fairness part of `ImplementsDirectory`,
`AbandonedPeerIsTold`, `ReceiverLearns`, `ReceiverLetsGo`, `BreakIsNoticed`,
`ResultsArePrinted`, `RequestsSettle`, `ShellNeedsSession`), which is out of the
prover's reach. Every safety invariant of a passing run is proved, `AckCleansTransfer`
under the assumption `Unicast`.

## 6. What is not modelled

- Encodings, packet builders, sender envelopes, printing, configuration, argument
  parsing, the line editor: no state that outlives a call. A packet is its kind, a chunk
  its index.
- Text, json and command events on the server: it routes them and keeps nothing; they
  would only repeat the routing of `FileRelay`. On the client they are `ClientSession`'s
  packets.
- The router's checks of version and kind: the client sends only valid packets.
- `FileRelay` has clients in one group; routing between groups only differs in the
  set of names looked at.
- A refused init drops the runtime but not its reader task, so that every retry may leave a
  socket behind until the server closes it: `ClientSession` has one socket at a time.
- `ClientSession` and `FileTransfer` are separate: in the first a transfer is only open
  or lost, in the second a broken connection is the end of its client.
- Timing: `ManageAuth` lets a timer fire at any moment, `ClientSession` every timer and
  deadline. What depends on numbers (`expiresIn`, 280 ms of grace, heartbeat intervals)
  is left out, except for ages in `SessionStore`.
- The auth service: fixed answers, no state.
- The console's pages beside login and shell, the shapes of its answers, its mock
  answers for development.
- A receiver that rejects or aborts in a broadcast ends it for all others without
  their being told. The steps are in `FileTransfer`; `ReceiverLearns` is therefore
  stated for unicast files only.
- An empty file is announced with one chunk and sent with none, so that no receiver ever
  saves it (`EmptyFileFailsAlways`); no text promises otherwise.

## 7. Plan

Done: the session store with its abstract specification and refinement; registry and
relay; both ways of sending a file, end to end; the client process; the console; the
promise to the users of a transfer; proofs about each of them.

What could come next:

1. `ClientSession` against `SessionStore`: a client that reconnects while its former
   session is still held.
