---------------------------- MODULE SessionStore ----------------------------
(***************************************************************************)
(* The session store of the y2m server (crates/server/src/session.rs) and  *)
(* the tasks that work on it: one handler task per socket (ws.rs           *)
(* handle_socket) and the heartbeat sweeper (ws.rs                         *)
(* spawn_heartbeat_timeout_task).                                          *)
(*                                                                         *)
(* The store keeps the same records in two maps, each under a lock of its  *)
(* own, and no operation holds both: an operation that writes both maps is *)
(* two steps here, and the steps of other tasks may fall between them.     *)
(*                                                                         *)
(* Time is kept as the age of each stamp, the seconds since it was taken,  *)
(* capped one above the timeout: the code only asks whether an age exceeds *)
(* the timeout.                                                            *)
(***************************************************************************)
EXTENDS Naturals

CONSTANTS
    Conns,          \* sockets; also the connection id a socket registers under
    Sweeper,        \* the heartbeat sweeper, a remover like the handlers
    Groups,         \* group names
    DefaultGroup,   \* DEFAULT_GROUP_NAME
    Names,          \* client names a client may ask for
    Blank,          \* a missing or blank group or client name in `init`
    None,           \* an absent map entry
    Timeout         \* heartbeat_timeout_sec

\* A client without a name gets a fresh UUID; the UUID drawn on socket c is c.
ClientNames == Names \cup Conns

\* expired_connection_ids: heartbeat_timeout_sec.max(1)
Limit == IF Timeout < 1 THEN 1 ELSE Timeout

Ages == 0 .. Limit + 1

Older(age) == IF age > Limit THEN age ELSE age + 1

\* A clone of a record that a task keeps: its stamp is never read again.
Holder == [conn: Conns, group: Groups, client: ClientNames]

SessionRecord ==
    [conn: Conns, group: Groups, client: ClientNames, age: Ages]

HolderOf(r) == [conn |-> r.conn, group |-> r.group, client |-> r.client]

\* Slip: group and client name in the wrong order.
StampedSwapped(h, age) ==
    [conn |-> h.conn, group |-> h.client, client |-> h.group, age |-> age]

Stamped(h, age) ==
    [conn |-> h.conn, group |-> h.group, client |-> h.client, age |-> age]

ASSUME SessionStoreAssumption ==
    /\ Sweeper \notin Conns
    /\ DefaultGroup \in Groups
    /\ Blank \notin Groups
    /\ Timeout \in Nat
    /\ None \notin SessionRecord \cup Holder
    /\ None \notin Conns \cup (Groups \X ClientNames)

Removers == Conns \cup {Sweeper}

VARIABLES
    groups,         \* groups: group -> client -> record
    openGroups,     \* the keys of the outer map of groups
    connections,    \* connections: connection id -> record
    task,           \* where each socket's handler task is
    session,        \* the record register builds and the handler keeps for itself
    stamp,          \* age of the time register or touch_heartbeat took
    pending,        \* what a remover took out of connections, not yet out of groups
    queue,          \* connections the sweeper's scan found expired, still to do
    victim,         \* connection the sweeper has removed and not yet notified
    notified        \* sockets the sweeper sent HeartbeatTimeout and Close to

mapVars == <<groups, openGroups, connections>>
sweepVars == <<queue, victim, notified>>
vars == <<mapVars, task, session, stamp, pending, sweepVars>>

Tasks == {"open", "naming", "registering", "serving", "beating", "touching",
          "leaving", "releasing", "finished"}

TypeOK ==
    /\ groups \in [Groups -> [ClientNames -> SessionRecord \cup {None}]]
    /\ openGroups \in SUBSET Groups
    /\ connections \in [Conns -> SessionRecord \cup {None}]
    /\ task \in [Conns -> Tasks]
    /\ session \in [Conns -> Holder \cup {None}]
    /\ stamp \in [Conns -> Ages]
    /\ pending \in [Removers -> Holder \cup {None}]
    /\ queue \in SUBSET Conns
    /\ victim \in Conns \cup {None}
    /\ notified \in SUBSET Conns

Init ==
    /\ groups = [g \in Groups |-> [n \in ClientNames |-> None]]
    /\ openGroups = {}
    /\ connections = [c \in Conns |-> None]
    /\ task = [c \in Conns |-> "open"]
    /\ session = [c \in Conns |-> None]
    /\ stamp = [c \in Conns |-> 0]
    /\ pending = [p \in Removers |-> None]
    /\ queue = {}
    /\ victim = None
    /\ notified = {}

-----------------------------------------------------------------------------
(* register                                                                *)

GroupFor(group) == IF group = Blank THEN DefaultGroup ELSE group

ClientFor(c, client) == IF client = Blank THEN c ELSE client

\* handle_init_packet of a socket without a session: register builds the record,
\* and takes its time, before it asks for a lock.
BuildRecord(c, group, client) ==
    /\ task[c] = "open"
    /\ session' = [session EXCEPT ![c] =
                        [conn |-> c, group |-> GroupFor(group),
                         client |-> ClientFor(c, client)]]
    /\ stamp' = [stamp EXCEPT ![c] = 0]
    /\ task' = [task EXCEPT ![c] = "naming"]
    /\ UNCHANGED <<mapVars, pending, sweepVars>>

\* Slip: no look at contains_key, the insert replaces the holder of the name.
BeginRegisterUnchecked(c) ==
    LET g == session[c].group
        n == session[c].client
    IN  /\ task[c] = "naming"
        /\ groups' = [groups EXCEPT ![g][n] = Stamped(session[c], stamp[c])]
        /\ openGroups' = openGroups \cup {g}
        /\ task' = [task EXCEPT ![c] = "registering"]
        /\ UNCHANGED <<connections, session, stamp, pending, sweepVars>>

\* register under the lock of groups.
BeginRegister(c) ==
    LET g == session[c].group
        n == session[c].client
    IN  /\ task[c] = "naming"
        /\ groups[g][n] = None
        /\ groups' = [groups EXCEPT ![g][n] = Stamped(session[c], stamp[c])]
        /\ openGroups' = openGroups \cup {g}
        /\ task' = [task EXCEPT ![c] = "registering"]
        /\ UNCHANGED <<connections, session, stamp, pending, sweepVars>>

\* DuplicateClientName; the outer entry has been created by then.  The socket
\* stays open and may try again.
RefuseRegister(c) ==
    /\ task[c] = "naming"
    /\ groups[session[c].group][session[c].client] # None
    /\ openGroups' = openGroups \cup {session[c].group}
    /\ session' = [session EXCEPT ![c] = None]
    /\ stamp' = [stamp EXCEPT ![c] = 0]
    /\ task' = [task EXCEPT ![c] = "open"]
    /\ UNCHANGED <<groups, connections, pending, sweepVars>>

\* register under the lock of connections; `init_ack` follows.
EndRegister(c) ==
    /\ task[c] = "registering"
    /\ connections' = [connections EXCEPT ![c] = Stamped(session[c], stamp[c])]
    /\ task' = [task EXCEPT ![c] = "serving"]
    /\ stamp' = [stamp EXCEPT ![c] = 0]
    /\ UNCHANGED <<groups, openGroups, session, pending, sweepVars>>

-----------------------------------------------------------------------------
(* touch_heartbeat                                                         *)

\* The time is taken before the lock of connections is asked for.
ReadClock(c) ==
    /\ task[c] = "serving"
    /\ stamp' = [stamp EXCEPT ![c] = 0]
    /\ task' = [task EXCEPT ![c] = "beating"]
    /\ UNCHANGED <<mapVars, session, pending, sweepVars>>

\* A heartbeat on a session the sweeper has removed returns early, and is
\* acknowledged all the same.
TouchForgotten(c) ==
    /\ task[c] = "beating"
    /\ connections[c] = None
    /\ stamp' = [stamp EXCEPT ![c] = 0]
    /\ task' = [task EXCEPT ![c] = "serving"]
    /\ UNCHANGED <<mapVars, session, pending, sweepVars>>

BeginTouch(c) ==
    /\ task[c] = "beating"
    /\ connections[c] # None
    /\ connections' = [connections EXCEPT ![c].age = stamp[c]]
    /\ task' = [task EXCEPT ![c] = "touching"]
    /\ UNCHANGED <<groups, openGroups, session, stamp, pending, sweepVars>>

\* Slip: insert instead of get_mut.
EndTouchInsert(c) ==
    /\ task[c] = "touching"
    /\ groups' = [groups EXCEPT ![session[c].group][session[c].client] =
                        Stamped(session[c], stamp[c])]
    /\ openGroups' = openGroups \cup {session[c].group}
    /\ stamp' = [stamp EXCEPT ![c] = 0]
    /\ task' = [task EXCEPT ![c] = "serving"]
    /\ UNCHANGED <<connections, session, pending, sweepVars>>

\* The copy under the session's name is stamped, whoever holds the name by now.
EndTouch(c) ==
    LET g == session[c].group
        n == session[c].client
    IN  /\ task[c] = "touching"
        /\ groups' = IF groups[g][n] # None
                     THEN [groups EXCEPT ![g][n].age = stamp[c]]
                     ELSE groups
        /\ stamp' = [stamp EXCEPT ![c] = 0]
        /\ task' = [task EXCEPT ![c] = "serving"]
        /\ UNCHANGED <<openGroups, connections, session, pending, sweepVars>>

-----------------------------------------------------------------------------
(* remove_connection, by remover p                                         *)

\* Slip: the record is looked up but stays in connections.
TakeConnectionCopy(p, c) ==
    /\ UNCHANGED connections
    /\ pending' = [pending EXCEPT ![p] = HolderOf(connections[c])]

\* Under the lock of connections; the caller of a failed removal goes on
\* without touching groups.
TakeConnection(p, c) ==
    /\ connections' = [connections EXCEPT ![c] = None]
    /\ pending' = [pending EXCEPT ![p] = HolderOf(connections[c])]

\* Slip: an empty group is kept.
FreeNameKeepGroup(p) ==
    /\ groups' = [groups EXCEPT ![pending[p].group][pending[p].client] = None]
    /\ UNCHANGED openGroups
    /\ pending' = [pending EXCEPT ![p] = None]

\* Slip: the whole group is removed with the client.
FreeNameDropGroup(p) ==
    /\ groups' = [groups EXCEPT ![pending[p].group] =
                        [n \in ClientNames |-> None]]
    /\ openGroups' = openGroups \ {pending[p].group}
    /\ pending' = [pending EXCEPT ![p] = None]

\* Under the lock of groups: whatever record the name leads to is removed, and
\* with the last client of a group the group.
FreeName(p) ==
    LET g == pending[p].group
        n == pending[p].client
    IN  /\ groups' = [groups EXCEPT ![g][n] = None]
        /\ openGroups' = IF \A m \in ClientNames : groups'[g][m] = None
                         THEN openGroups \ {g} ELSE openGroups
        /\ pending' = [pending EXCEPT ![p] = None]

-----------------------------------------------------------------------------
(* The end of a socket: handle_socket after its receive loop               *)

\* The peer closes, the connection breaks, or the server's own Close is answered.
SocketEnds(c) ==
    /\ \/ task[c] = "open" /\ task' = [task EXCEPT ![c] = "finished"]
       \/ task[c] = "serving" /\ task' = [task EXCEPT ![c] = "leaving"]
    /\ UNCHANGED <<mapVars, session, stamp, pending, sweepVars>>

\* Slip: the removal is left to the sweeper.
BeginLeaveToSweeper(c) ==
    /\ task[c] = "leaving"
    /\ task' = [task EXCEPT ![c] = "finished"]
    /\ UNCHANGED <<mapVars, session, stamp, pending, sweepVars>>

\* cleanup_disconnected_session calls remove_connection.
BeginLeave(c) ==
    /\ task[c] = "leaving"
    /\ IF connections[c] = None
       THEN /\ task' = [task EXCEPT ![c] = "finished"]
            /\ UNCHANGED <<connections, pending>>
       ELSE /\ TakeConnection(c, c)
            /\ task' = [task EXCEPT ![c] = "releasing"]
    /\ UNCHANGED <<groups, openGroups, session, stamp, sweepVars>>

EndLeave(c) ==
    /\ task[c] = "releasing"
    /\ FreeName(c)
    /\ task' = [task EXCEPT ![c] = "finished"]
    /\ UNCHANGED <<connections, session, stamp, sweepVars>>

\* A new socket.  Its connection id will be a fresh UUID, so an id may serve
\* again once nothing in the server mentions it.
Forgotten(c) ==
    /\ connections[c] = None
    /\ \A g \in Groups, n \in ClientNames :
          groups[g][n] # None => groups[g][n].conn # c
    /\ \A p \in Removers : pending[p] # None => pending[p].conn # c
    /\ c \notin queue /\ victim # c

Accept(c) ==
    /\ task[c] = "finished"
    /\ Forgotten(c)
    /\ task' = [task EXCEPT ![c] = "open"]
    /\ session' = [session EXCEPT ![c] = None]
    /\ notified' = notified \ {c}
    /\ UNCHANGED <<mapVars, stamp, pending, queue, victim>>

-----------------------------------------------------------------------------
(* The heartbeat sweeper                                                   *)

Expired(c) == connections[c] # None /\ connections[c].age > Limit

SweeperIdle == queue = {} /\ pending[Sweeper] = None /\ victim = None

\* Slip: one second too many before a session counts as expired.
ScanLate ==
    /\ SweeperIdle
    /\ queue' = {c \in Conns : Expired(c) /\ connections[c].age > Limit + 1}
    /\ UNCHANGED <<mapVars, task, session, stamp, pending, victim, notified>>

\* ticker.tick, then expired_connection_ids under the lock of connections.
Scan ==
    /\ SweeperIdle
    /\ queue' = {c \in Conns : Expired(c)}
    /\ UNCHANGED <<mapVars, task, session, stamp, pending, victim, notified>>

\* Slip: the client is told before the name is given back.
BeginSweepNotify(c) ==
    /\ c \in queue
    /\ pending[Sweeper] = None /\ victim = None
    /\ queue' = queue \ {c}
    /\ IF connections[c] = None
       THEN UNCHANGED <<connections, pending, notified>>
       ELSE TakeConnection(Sweeper, c) /\ notified' = notified \cup {c}
    /\ UNCHANGED <<groups, openGroups, task, session, stamp, victim>>

\* remove_connection of the next id of the scan, without a second look at its
\* age; an id that is gone by now is skipped.
BeginSweep(c) ==
    /\ c \in queue
    /\ pending[Sweeper] = None /\ victim = None
    /\ queue' = queue \ {c}
    /\ IF connections[c] = None
       THEN UNCHANGED <<connections, pending>>
       ELSE TakeConnection(Sweeper, c)
    /\ UNCHANGED <<groups, openGroups, task, session, stamp, victim, notified>>

EndSweep ==
    /\ pending[Sweeper] # None
    /\ FreeName(Sweeper)
    /\ victim' = pending[Sweeper].conn
    /\ UNCHANGED <<connections, task, session, stamp, queue, notified>>

\* HeartbeatTimeout and Close into the outbound channel of the session.
Notify ==
    /\ victim # None
    /\ notified' = notified \cup {victim}
    /\ victim' = None
    /\ UNCHANGED <<mapVars, task, session, stamp, pending, queue>>

-----------------------------------------------------------------------------

\* A second passes.
OlderRecord(r) == IF r = None THEN None ELSE [r EXCEPT !.age = Older(@)]

Tick ==
    /\ groups' = [g \in Groups |->
                    [n \in ClientNames |-> OlderRecord(groups[g][n])]]
    /\ connections' = [c \in Conns |-> OlderRecord(connections[c])]
    /\ stamp' = [c \in Conns |->
                    IF task[c] \in {"naming", "registering", "beating", "touching"}
                    THEN Older(stamp[c]) ELSE stamp[c]]
    /\ UNCHANGED <<openGroups, task, session, pending, sweepVars>>

Handler(c) ==
    \/ \E group \in Groups \cup {Blank}, client \in Names \cup {Blank} :
          BuildRecord(c, group, client)
    \/ BeginRegister(c)
    \/ RefuseRegister(c)
    \/ EndRegister(c)
    \/ ReadClock(c)
    \/ TouchForgotten(c)
    \/ BeginTouch(c)
    \/ EndTouch(c)
    \/ SocketEnds(c)
    \/ BeginLeave(c)
    \/ EndLeave(c)
    \/ Accept(c)

Sweep == Scan \/ (\E c \in Conns : BeginSweep(c)) \/ EndSweep \/ Notify

Next == (\E c \in Conns : Handler(c)) \/ Sweep \/ Tick

\* A task of the runtime that is not waiting for its peer keeps running, and
\* the locks are only ever held for one step.  Nothing is assumed of clients.
Fairness ==
    /\ WF_vars(Sweep)
    /\ \A c \in Conns :
          /\ WF_vars(BeginRegister(c) \/ RefuseRegister(c))
          /\ WF_vars(EndRegister(c))
          /\ WF_vars(TouchForgotten(c) \/ BeginTouch(c))
          /\ WF_vars(EndTouch(c))
          /\ WF_vars(BeginLeave(c))
          /\ WF_vars(EndLeave(c))

Spec == Init /\ [][Next]_vars

FairSpec == Spec /\ Fairness

-----------------------------------------------------------------------------
(* Properties                                                              *)

\* The holder of a name, None when it is free.
Owner(g, n) == IF groups[g][n] = None THEN None ELSE groups[g][n].conn

\* c holds some name.
Named(c) == \E g \in Groups, n \in ClientNames : Owner(g, n) = c

\* Whoever can be found by connection id is found under its own name too: an
\* event addressed to the name reaches exactly this session (the two maps of
\* SessionStore agree although no operation locks both).
PublishedOwnsName ==
    \A c \in Conns :
        connections[c] # None =>
            /\ connections[c].conn = c
            /\ Owner(connections[c].group, connections[c].client) = c

\* remove_connection deletes from groups by name, with the lock released since
\* it took the record out of connections.  The entry it is about to delete is
\* still the one of the session being removed, never that of a session that
\* has taken the name meanwhile.
RemovalEvictsOwner ==
    \A p \in Removers :
        pending[p] # None =>
            Owner(pending[p].group, pending[p].client) = pending[p].conn

\* The handler and the sweeper may both set out to remove a session; only one
\* of them gets hold of it, and nobody can find it by id any more.
OneRemoverPerSession ==
    \A p \in Removers :
        pending[p] # None =>
            /\ connections[pending[p].conn] = None
            /\ \A q \in Removers \ {p} :
                  pending[q] # None => pending[q].conn # pending[p].conn

\* A name is held only by a session that is being registered, is published or
\* is on its way out, and a group exists only while a name in it is held: no
\* name stays taken after its session, and a group that has emptied answers
\* GroupNotFound.
NoNameLeak ==
    \A g \in Groups, n \in ClientNames :
        groups[g][n] # None =>
            LET c == groups[g][n].conn
            IN  \/ task[c] = "registering"
                \/ connections[c] # None
                \/ \E p \in Removers : pending[p] # None /\ pending[p].conn = c

NoEmptyGroups ==
    openGroups = {g \in Groups : \E n \in ClientNames : groups[g][n] # None}

NoLeak == NoNameLeak /\ NoEmptyGroups

\* Once the sweeper has told a client HeartbeatTimeout and closed its socket,
\* that session holds neither its name nor its id: a client that reconnects on
\* the notice cannot be refused because of its own former session.
NoticeAfterRelease ==
    \A c \in notified : connections[c] = None /\ ~Named(c)

\* Only `init` on a socket without a session brings a connection into the
\* routing map: no heartbeat, removal or sweep resurrects a removed session.
OnlyInitBinds ==
    [][\A c \in Conns : ~Named(c) /\ Named(c)' => task[c] = "naming"]_vars

\* A session whose heartbeats have stopped is removed, or heard from again.
SilentSessionsSwept ==
    \A c \in Conns : Expired(c) ~> ~Expired(c)

\* A name held for a socket that has ended becomes free for a reconnecting
\* client.
EndedSocketsRelease ==
    \A c \in Conns : task[c] = "leaving" ~> ~Named(c)

\* "`heartbeat timeout` 后自动清理过期连接": what the sweeper removes has missed
\* its heartbeats.
SweepsOnlyExpired ==
    [][\A c \in Conns : BeginSweep(c) /\ connections[c] # None => Expired(c)]_vars

-----------------------------------------------------------------------------
(* The store implements the directory the rest of the server relies on.    *)

DirStage(c) ==
    IF ~Named(c) THEN "absent"
    ELSE IF connections[c] # None THEN "online"
    ELSE IF \E p \in Removers : pending[p] # None /\ pending[p].conn = c
         THEN "retired"
    ELSE "named"

DirSlot(c) ==
    IF Named(c) THEN <<session[c].group, session[c].client>> ELSE None

Directory == INSTANCE SessionDirectory WITH
    Slots <- Groups \X ClientNames,
    NoSlot <- None,
    stage <- [c \in Conns |-> DirStage(c)],
    slot <- [c \in Conns |-> DirSlot(c)]

\* Every step of the two-lock store is a step of the directory or none of its
\* business; registrations and removals that begin are finished.
ImplementsDirectory == Directory!DirSpec

=============================================================================
