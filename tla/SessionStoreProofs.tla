------------------------- MODULE SessionStoreProofs -------------------------
(***************************************************************************)
(* Theorems about SessionStore, for any number of connections, groups and  *)
(* names and any timeout.                                                  *)
(***************************************************************************)
EXTENDS SessionStore, TLAPS

-----------------------------------------------------------------------------
(* Types                                                                   *)

LEMMA AgeFacts ==
    /\ Limit \in Nat
    /\ 0 \in Ages
    /\ \A a \in Ages : Older(a) \in Ages
BY SessionStoreAssumption DEF Limit, Ages, Older

LEMMA StampedType ==
    ASSUME NEW h \in Holder, NEW a \in Ages
    PROVE  Stamped(h, a) \in SessionRecord
BY DEF Stamped, Holder, SessionRecord

LEMMA HolderOfType ==
    ASSUME NEW r \in SessionRecord
    PROVE  HolderOf(r) \in Holder
BY DEF HolderOf, Holder, SessionRecord

LEMMA OlderRecordType ==
    ASSUME NEW r \in SessionRecord \cup {None}
    PROVE  OlderRecord(r) \in SessionRecord \cup {None}
<1>1. CASE r = None
    BY <1>1 DEF OlderRecord
<1>2. CASE r # None
    <2>1. r \in SessionRecord /\ Older(r.age) \in Ages
        BY <1>2, AgeFacts DEF SessionRecord
    <2>2. QED BY <1>2, <2>1 DEF OlderRecord, SessionRecord
<1>3. QED BY <1>1, <1>2

\* TypeOK is not inductive: a handler that has built its record has a session, and
\* one that is releasing a name knows which.
Registered == {"naming", "registering", "serving", "beating", "touching",
               "leaving", "releasing"}

TypeInv ==
    /\ TypeOK
    /\ \A c \in Conns :
          /\ task[c] \in Registered => session[c] \in Holder
          /\ task[c] = "releasing" => pending[c] \in Holder

LEMMA TypeInvInit == Init => TypeInv
BY AgeFacts DEF Init, TypeInv, TypeOK, Tasks, Removers, Registered

LEMMA TypeInvNext == TypeInv /\ [Next]_vars => TypeInv'
<1> SUFFICES ASSUME TypeInv, [Next]_vars PROVE TypeInv'
    OBVIOUS
<1> USE DEF TypeInv, TypeOK
<1>1. ASSUME NEW c \in Conns, NEW group \in Groups \cup {Blank},
             NEW client \in Names \cup {Blank}, BuildRecord(c, group, client)
      PROVE  TypeInv'
    <2>1. /\ GroupFor(group) \in Groups
          /\ ClientFor(c, client) \in ClientNames
        BY SessionStoreAssumption DEF GroupFor, ClientFor, ClientNames
    <2>2. [conn |-> c, group |-> GroupFor(group), client |-> ClientFor(c, client)]
              \in Holder
        BY <2>1 DEF Holder
    <2>3. QED
        BY <1>1, <2>2, AgeFacts
           DEF BuildRecord, Tasks, mapVars, sweepVars, Registered
<1>2. ASSUME NEW c \in Conns, BeginRegister(c) PROVE TypeInv'
    <2>1. /\ session[c] \in Holder
          /\ session[c].group \in Groups /\ session[c].client \in ClientNames
        BY <1>2 DEF BeginRegister, Registered, Holder
    <2>2. Stamped(session[c], stamp[c]) \in SessionRecord
        BY <2>1, StampedType
    <2>3. groups' = [groups EXCEPT ![session[c].group][session[c].client]
                        = Stamped(session[c], stamp[c])]
        BY <1>2 DEF BeginRegister
    <2>4. groups' \in [Groups -> [ClientNames -> SessionRecord \cup {None}]]
        BY <2>1, <2>2, <2>3
    <2>5. QED
        BY <1>2, <2>1, <2>4 DEF BeginRegister, Tasks, sweepVars, Registered
<1>3. ASSUME NEW c \in Conns, RefuseRegister(c) PROVE TypeInv'
    <2>1. session[c] \in Holder /\ session[c].group \in Groups
        BY <1>3 DEF RefuseRegister, Registered, Holder
    <2>2. QED
        BY <1>3, <2>1, AgeFacts DEF RefuseRegister, Tasks, sweepVars, Registered
<1>4. ASSUME NEW c \in Conns, EndRegister(c) PROVE TypeInv'
    <2>1. Stamped(session[c], stamp[c]) \in SessionRecord
        BY <1>4, StampedType DEF EndRegister, Registered
    <2>2. QED
        BY <1>4, <2>1, AgeFacts DEF EndRegister, Tasks, sweepVars, Registered
<1>5. ASSUME NEW c \in Conns, ReadClock(c) PROVE TypeInv'
    BY <1>5, AgeFacts DEF ReadClock, Tasks, mapVars, sweepVars, Registered
<1>6. ASSUME NEW c \in Conns, TouchForgotten(c) PROVE TypeInv'
    BY <1>6, AgeFacts DEF TouchForgotten, Tasks, mapVars, sweepVars, Registered
<1>7. ASSUME NEW c \in Conns, BeginTouch(c) PROVE TypeInv'
    <2>1. connections' \in [Conns -> SessionRecord \cup {None}]
        BY <1>7 DEF BeginTouch, SessionRecord
    <2>2. QED
        BY <1>7, <2>1 DEF BeginTouch, Tasks, sweepVars, Registered
<1>8. ASSUME NEW c \in Conns, EndTouch(c) PROVE TypeInv'
    <2>1. session[c] \in Holder
        BY <1>8 DEF EndTouch, Registered
    <2>2. groups' \in [Groups -> [ClientNames -> SessionRecord \cup {None}]]
        BY <1>8, <2>1 DEF EndTouch, SessionRecord, Holder
    <2>3. QED
        BY <1>8, <2>2, AgeFacts DEF EndTouch, Tasks, sweepVars, Registered
<1>9. ASSUME NEW c \in Conns, SocketEnds(c) PROVE TypeInv'
    BY <1>9 DEF SocketEnds, Tasks, mapVars, sweepVars, Registered
<1>10. ASSUME NEW p \in Removers, NEW c \in Conns, connections[c] # None,
             TakeConnection(p, c)
      PROVE  /\ connections' \in [Conns -> SessionRecord \cup {None}]
             /\ pending' \in [Removers -> Holder \cup {None}]
             /\ pending'[p] \in Holder
             /\ \A q \in Removers : q # p => pending'[q] = pending[q]
    BY <1>10, HolderOfType DEF TakeConnection
<1>11. ASSUME NEW p \in Removers, pending[p] \in Holder, FreeName(p)
      PROVE  /\ groups' \in [Groups -> [ClientNames -> SessionRecord \cup {None}]]
             /\ openGroups' \in SUBSET Groups
             /\ pending' \in [Removers -> Holder \cup {None}]
             /\ \A q \in Removers : q # p => pending'[q] = pending[q]
    BY <1>11 DEF FreeName, Holder
<1>12. ASSUME NEW c \in Conns, BeginLeave(c) PROVE TypeInv'
    <2>1. CASE connections[c] = None
        BY <1>12, <2>1 DEF BeginLeave, Tasks, sweepVars, Registered
    <2>2. CASE connections[c] # None
        BY <1>12, <2>2, <1>10
           DEF BeginLeave, Tasks, sweepVars, Registered, Removers
    <2>3. QED BY <2>1, <2>2
<1>13. ASSUME NEW c \in Conns, EndLeave(c) PROVE TypeInv'
    <2>1. c \in Removers /\ FreeName(c) /\ pending[c] \in Holder
        BY <1>13 DEF EndLeave, Removers
    <2>2. QED
        BY <1>13, <2>1, <1>11
           DEF EndLeave, Tasks, sweepVars, Registered, Removers
<1>14. ASSUME NEW c \in Conns, Accept(c) PROVE TypeInv'
    BY <1>14 DEF Accept, Tasks, mapVars, Registered
<1>15. CASE Scan
    BY <1>15 DEF Scan, mapVars
<1>16. ASSUME NEW c \in Conns, BeginSweep(c) PROVE TypeInv'
    <2>1. CASE connections[c] = None
        BY <1>16, <2>1 DEF BeginSweep
    <2>2. CASE connections[c] # None
        BY <1>16, <2>2, <1>10, SessionStoreAssumption DEF BeginSweep, Removers
    <2>3. QED BY <2>1, <2>2
<1>17. CASE EndSweep
    <2>1. Sweeper \in Removers /\ FreeName(Sweeper) /\ pending[Sweeper] \in Holder
        BY <1>17 DEF EndSweep, Removers
    <2>2. pending[Sweeper].conn \in Conns
        BY <2>1 DEF Holder
    <2>3. QED
        BY <1>17, <2>1, <2>2, <1>11, SessionStoreAssumption DEF EndSweep, Removers
<1>18. CASE Notify
    BY <1>18 DEF Notify, mapVars
<1>19. CASE Tick
    <2>1. groups' \in [Groups -> [ClientNames -> SessionRecord \cup {None}]]
        BY <1>19, OlderRecordType DEF Tick
    <2>2. connections' \in [Conns -> SessionRecord \cup {None}]
        BY <1>19, OlderRecordType DEF Tick
    <2>3. stamp' \in [Conns -> Ages]
        BY <1>19, AgeFacts DEF Tick
    <2>4. QED BY <1>19, <2>1, <2>2, <2>3 DEF Tick, sweepVars
<1>20. CASE UNCHANGED vars
    BY <1>20 DEF vars, mapVars, sweepVars
<1>21. QED
    BY <1>1, <1>2, <1>3, <1>4, <1>5, <1>6, <1>7, <1>8, <1>9, <1>12, <1>13, <1>14, <1>15,
       <1>16, <1>17, <1>18, <1>19, <1>20 DEF Next, Handler, Sweep

\* The store and the locals of its callers always have their types.
THEOREM TypeCorrect == Spec => []TypeOK
<1>1. TypeInv => TypeOK
    BY DEF TypeInv
<1>2. QED BY <1>1, TypeInvInit, TypeInvNext, PTL DEF Spec

-----------------------------------------------------------------------------
(* Ownership of names                                                      *)

\* The name in the record a handler keeps leads to c.
Owns(c) ==
    /\ groups[session[c].group][session[c].client] # None
    /\ groups[session[c].group][session[c].client].conn = c

\* An entry of groups is the copy of the record its handler keeps, under the
\* name in that record: no session has two names.
NamesFollowSessions ==
    \A g \in Groups, n \in ClientNames :
        groups[g][n] # None =>
            LET c == groups[g][n].conn
            IN  /\ session[c].conn = c
                /\ session[c].group = g
                /\ session[c].client = n
                /\ task[c] \notin {"open", "naming"}

\* A session found by id owns its name, and so does one that is being registered.
PublishedOwns ==
    \A c \in Conns :
        connections[c] # None =>
            /\ session[c] = HolderOf(connections[c])
            /\ session[c].conn = c
            /\ Owns(c)
            /\ task[c] \in {"serving", "beating", "touching", "leaving"}

RegisteringOwns ==
    \A c \in Conns :
        /\ task[c] \in {"naming", "registering"} => session[c].conn = c
        /\ task[c] = "registering" => Owns(c) /\ connections[c] = None

\* What a remover holds is a session that still owns its name and that nobody
\* else can take.
PendingOwns ==
    \A p \in Removers :
        pending[p] # None =>
            LET c == pending[p].conn
            IN  /\ session[c] = pending[p]
                /\ Owns(c)
                /\ connections[c] = None
                /\ task[c] \notin {"open", "naming", "registering"}
                /\ p \in Conns => p = c /\ task[c] = "releasing"
                /\ \A q \in Removers \ {p} :
                      pending[q] # None => pending[q].conn # c

\* A session the sweeper is done with has nothing left.
SweptOwnsNothing ==
    \A c \in Conns :
        c = victim \/ c \in notified =>
            /\ connections[c] = None
            /\ task[c] \notin {"open", "naming", "registering"}
            /\ \A g \in Groups, n \in ClientNames :
                  groups[g][n] # None => groups[g][n].conn # c

OwnInv ==
    /\ TypeInv
    /\ NamesFollowSessions
    /\ PublishedOwns
    /\ RegisteringOwns
    /\ PendingOwns
    /\ SweptOwnsNothing
    /\ NoNameLeak
    /\ NoEmptyGroups

LEMMA OwnInvInit == Init => OwnInv
<1> SUFFICES ASSUME Init PROVE OwnInv
    OBVIOUS
<1>1. TypeInv
    BY TypeInvInit
<1>2. QED
    BY <1>1, SessionStoreAssumption
       DEF Init, OwnInv, NamesFollowSessions, PublishedOwns, RegisteringOwns,
           PendingOwns, SweptOwnsNothing, NoNameLeak, NoEmptyGroups

\* A step that leaves every name and id with the session that has it, and moves
\* no task into or out of a registration or a removal, preserves OwnInv; a task
\* that has no name yet may change its record.
LEMMA SameOwners ==
    ASSUME OwnInv, TypeInv',
           \A g \in Groups, n \in ClientNames :
              /\ groups'[g][n] = None <=> groups[g][n] = None
              /\ groups[g][n] # None => groups'[g][n].conn = groups[g][n].conn,
           \A c \in Conns :
              /\ connections'[c] = None <=> connections[c] = None
              /\ connections[c] # None
                    => HolderOf(connections'[c]) = HolderOf(connections[c]),
           openGroups' = openGroups, pending' = pending,
           victim' = victim, notified' = notified,
           \A c \in Conns :
              \/ session'[c] = session[c]
              \/ /\ task[c] \in {"open", "naming"}
                 /\ task'[c] = "naming" => session'[c].conn = c,
           \A c \in Conns :
              \/ task'[c] = task[c]
              \/ /\ task[c] \in {"open", "naming"}
                 /\ \/ task'[c] = "open"
                    \/ task'[c] = "naming" /\ session'[c].conn = c
              \/ /\ task[c] \in {"serving", "beating", "touching"}
                 /\ task'[c] \in {"serving", "beating", "touching", "leaving"}
              \/ /\ task[c] \in {"open", "leaving"} /\ connections[c] = None
                 /\ task'[c] = "finished"
    PROVE  OwnInv'
<1> USE DEF OwnInv
<1>1. \A g \in Groups, n \in ClientNames :
          groups'[g][n] # None =>
              /\ groups[g][n] # None
              /\ groups'[g][n].conn = groups[g][n].conn
              /\ groups[g][n].conn \in Conns
    BY DEF TypeInv, TypeOK, SessionRecord
<1> HIDE DEF OwnInv
<1>2. NamesFollowSessions'
    BY <1>1 DEF NamesFollowSessions, OwnInv
<1> USE DEF OwnInv
<1>3. \A c \in Conns :
          session[c] \in Holder /\ task[c] \notin {"open", "naming"} /\ Owns(c)
              => Owns(c)'
    BY DEF Owns, Holder
<1>4. \A c \in Conns : task[c] \in Registered => session[c] \in Holder
    BY DEF TypeInv
<1>5. PublishedOwns'
    BY <1>3, <1>4 DEF PublishedOwns, Registered
<1>6. RegisteringOwns'
    BY <1>3, <1>4 DEF RegisteringOwns, Registered
<1>7. \A q \in Removers : pending[q] # None =>
          pending[q] \in Holder /\ pending[q].conn \in Conns
    BY DEF TypeInv, TypeOK, Holder
<1>8. PendingOwns'
    BY <1>3, <1>7 DEF PendingOwns, Removers
<1>9. SweptOwnsNothing'
    BY DEF SweptOwnsNothing
<1>10. NoNameLeak'
    BY <1>1 DEF NoNameLeak
<1>11. NoEmptyGroups'
    BY DEF NoEmptyGroups
<1>12. QED BY <1>2, <1>5, <1>6, <1>8, <1>9, <1>10, <1>11

\* Taking a session out of connections.
LEMMA TakeKeepsOwners ==
    ASSUME OwnInv, TypeInv', NEW p \in Removers, NEW c \in Conns,
           connections[c] # None, pending[p] = None, TakeConnection(p, c),
           groups' = groups, openGroups' = openGroups, session' = session,
           victim' = victim, notified' = notified,
           \/ p = Sweeper /\ task' = task
           \/ p = c /\ task' = [task EXCEPT ![c] = "releasing"]
    PROVE  OwnInv'
<1> USE DEF OwnInv
<1>1. /\ connections \in [Conns -> SessionRecord \cup {None}]
      /\ pending \in [Removers -> Holder \cup {None}]
      /\ task \in [Conns -> Tasks]
      /\ groups \in [Groups -> [ClientNames -> SessionRecord \cup {None}]]
    BY DEF TypeInv, TypeOK
<1>2. HolderOf(connections[c]) \in Holder
    BY <1>1, HolderOfType
<1>3. /\ connections' = [connections EXCEPT ![c] = None]
      /\ pending' = [pending EXCEPT ![p] = session[c]]
      /\ session[c] # None /\ session[c].conn = c
      /\ Owns(c)
      /\ task[c] \in {"serving", "beating", "touching", "leaving"}
    BY <1>2, SessionStoreAssumption DEF TakeConnection, PublishedOwns
<1>4. \A d \in Conns : Owns(d)' = Owns(d)
    BY DEF Owns
<1>5. \A q \in Removers : pending[q] # None => pending[q].conn # c
    BY DEF PendingOwns
<1>6. NamesFollowSessions'
    BY <1>3, <1>1 DEF NamesFollowSessions, SessionRecord
<1>7. PublishedOwns'
    BY <1>3, <1>1, <1>4 DEF PublishedOwns
<1>8. RegisteringOwns'
    BY <1>3, <1>1, <1>4 DEF RegisteringOwns
<1>9. PendingOwns'
    <2>1. \A q \in Removers : pending'[q] # None =>
              \/ q = p /\ pending'[q] = session[c]
              \/ /\ q # p /\ pending'[q] = pending[q] /\ pending[q] # None
                 /\ pending[q].conn \in Conns \ {c}
        BY <1>3, <1>1, <1>5 DEF Holder
    <2>2. \A d \in Conns \ {c} :
              task'[d] = task[d] /\ connections'[d] = connections[d]
        BY <1>3, <1>1
    <2>3. task'[c] \notin {"open", "naming", "registering"} /\ connections'[c] = None
        BY <1>3, <1>1
    <2>4. \A q \in Removers : pending'[q] # None /\ q = p =>
              /\ session'[c] = pending'[q] /\ pending'[q].conn = c
              /\ q \in Conns => q = c /\ task'[c] = "releasing"
              /\ \A r \in Removers \ {q} :
                    pending'[r] # None => pending'[r].conn # c
        BY <1>3, <1>1, <2>1, SessionStoreAssumption
    <2>5. \A q \in Removers : pending'[q] # None /\ q # p =>
              /\ session'[pending[q].conn] = pending'[q]
              /\ pending'[q] = pending[q]
              /\ pending[q].conn \in Conns \ {c}
              /\ Owns(pending[q].conn)
              /\ connections'[pending[q].conn] = None
              /\ task'[pending[q].conn] \notin {"open", "naming", "registering"}
              /\ q \in Conns => q = pending[q].conn /\ task'[q] = "releasing"
              /\ \A r \in Removers \ {q} :
                    pending'[r] # None => pending'[r].conn # pending[q].conn
        BY <1>3, <2>1, <2>2 DEF PendingOwns
    <2>6. QED BY <1>3, <1>4, <2>3, <2>4, <2>5 DEF PendingOwns
<1>10. SweptOwnsNothing'
    BY <1>3, <1>1 DEF SweptOwnsNothing
<1>11. NoNameLeak'
    <2> SUFFICES ASSUME NEW g \in Groups, NEW n \in ClientNames,
                        groups[g][n] # None
                 PROVE  LET d == groups[g][n].conn
                        IN  \/ task'[d] = "registering"
                            \/ connections'[d] # None
                            \/ \E q \in Removers :
                                  pending'[q] # None /\ pending'[q].conn = d
        BY DEF NoNameLeak
    <2>1. CASE groups[g][n].conn = c
        BY <2>1, <1>3, <1>1
    <2>2. CASE groups[g][n].conn # c
        BY <2>2, <1>3, <1>1 DEF NoNameLeak, TypeInv, TypeOK, SessionRecord
    <2>3. QED BY <2>1, <2>2
<1>12. NoEmptyGroups'
    BY DEF NoEmptyGroups
<1>13. QED BY <1>6, <1>7, <1>8, <1>9, <1>10, <1>11, <1>12

\* Giving its name back.
LEMMA ReleaseKeepsOwners ==
    ASSUME OwnInv, TypeInv', NEW p \in Removers, pending[p] # None, FreeName(p),
           connections' = connections, session' = session,
           notified' = notified,
           \/ victim' = victim
           \/ victim' = pending[p].conn,
           \/ p = Sweeper /\ task' = task
           \/ p \in Conns /\ task' = [task EXCEPT ![p] = "finished"]
    PROVE  OwnInv'
<1> USE DEF OwnInv
<1> DEFINE c == pending[p].conn
           g == pending[p].group
           n == pending[p].client
<1>1. /\ c \in Conns /\ g \in Groups /\ n \in ClientNames
      /\ groups \in [Groups -> [ClientNames -> SessionRecord \cup {None}]]
      /\ pending \in [Removers -> Holder \cup {None}]
      /\ task \in [Conns -> Tasks]
    BY DEF TypeInv, TypeOK, Holder
<1>2. /\ session[c] = pending[p] /\ Owns(c) /\ connections[c] = None
      /\ task[c] \notin {"open", "naming", "registering"}
      /\ p \in Conns => p = c
      /\ \A q \in Removers \ {p} : pending[q] # None => pending[q].conn # c
    BY DEF PendingOwns
<1>3. \A h \in Groups, m \in ClientNames :
          groups'[h][m] = IF h = g /\ m = n THEN None ELSE groups[h][m]
    BY <1>1 DEF FreeName
<1>4. pending' = [pending EXCEPT ![p] = None]
    BY DEF FreeName
<1>5. \A h \in Groups, m \in ClientNames :
          groups'[h][m] # None => groups[h][m].conn # c /\ groups'[h][m].conn # c
    BY <1>1, <1>2, <1>3 DEF NamesFollowSessions
<1>6. \A d \in Conns \ {c} : task'[d] = task[d]
    BY <1>1, <1>2
<1>7. \A d \in Conns \ {c} : session[d] \in Holder /\ Owns(d) => Owns(d)'
    BY <1>1, <1>2, <1>3 DEF Owns, Holder
<1>8. task'[c] \notin {"open", "naming", "registering"}
    BY <1>1, <1>2
<1> HIDE DEF c, g, n
<1>9. NamesFollowSessions'
    BY <1>1, <1>3, <1>5, <1>6 DEF NamesFollowSessions, SessionRecord
<1>10. \A d \in Conns : task[d] \in Registered => session[d] \in Holder
    BY DEF TypeInv
<1>11. PublishedOwns'
    BY <1>1, <1>2, <1>6, <1>7, <1>10 DEF PublishedOwns, Registered
<1>12. RegisteringOwns'
    BY <1>1, <1>6, <1>7, <1>8, <1>10 DEF RegisteringOwns, Registered
<1>13. PendingOwns'
    <2>1. \A q \in Removers : pending'[q] # None =>
              /\ q # p /\ pending'[q] = pending[q] /\ pending[q] # None
              /\ pending[q] \in Holder /\ pending[q].conn \in Conns \ {c}
        BY <1>1, <1>2, <1>4 DEF Holder
    <2>2. QED BY <2>1, <1>6, <1>7 DEF PendingOwns
<1>14. SweptOwnsNothing'
    <2>1. victim' \in {victim, c}
        BY DEF c
    <2>2. QED BY <2>1, <1>1, <1>2, <1>3, <1>5, <1>6, <1>8 DEF SweptOwnsNothing
<1>15. NoNameLeak'
    <2> SUFFICES ASSUME NEW h \in Groups, NEW m \in ClientNames,
                        groups'[h][m] # None
                 PROVE  LET d == groups'[h][m].conn
                        IN  \/ task'[d] = "registering"
                            \/ connections'[d] # None
                            \/ \E q \in Removers :
                                  pending'[q] # None /\ pending'[q].conn = d
        BY DEF NoNameLeak
    <2>1. /\ groups[h][m] # None /\ groups'[h][m] = groups[h][m]
          /\ groups[h][m].conn \in Conns \ {c}
        BY <1>1, <1>3, <1>5 DEF SessionRecord
    <2>2. \A q \in Removers :
              pending[q] # None /\ pending[q].conn # c => pending'[q] = pending[q]
        BY <1>1, <1>4 DEF c
    <2>3. QED BY <2>1, <2>2, <1>6 DEF NoNameLeak
<1>16. NoEmptyGroups'
    <2>1. openGroups' = IF \A m \in ClientNames : groups'[g][m] = None
                        THEN openGroups \ {g} ELSE openGroups
        BY DEF FreeName, g
    <2>2. \A h \in Groups \ {g}, m \in ClientNames : groups'[h][m] = groups[h][m]
        BY <1>3
    <2>3. groups[g][n] # None
        BY <1>2 DEF Owns, g, n
    <2>4. QED BY <2>1, <2>2, <2>3, <1>1 DEF NoEmptyGroups
<1>17. QED
    BY <1>9, <1>11, <1>12, <1>13, <1>14, <1>15, <1>16

LEMMA OwnInvNext == OwnInv /\ [Next]_vars => OwnInv'
<1> SUFFICES ASSUME OwnInv, [Next]_vars PROVE OwnInv'
    OBVIOUS
<1>1. /\ TypeInv
      /\ TypeInv'
    BY TypeInvNext DEF OwnInv
<1>2. /\ groups \in [Groups -> [ClientNames -> SessionRecord \cup {None}]]
      /\ connections \in [Conns -> SessionRecord \cup {None}]
      /\ task \in [Conns -> Tasks]
      /\ session \in [Conns -> Holder \cup {None}]
      /\ pending \in [Removers -> Holder \cup {None}]
      /\ \A c \in Conns : task[c] \in Registered => session[c] \in Holder
      /\ \A c \in Conns : task[c] = "releasing" => pending[c] \in Holder
    BY <1>1 DEF TypeInv, TypeOK
<1>3. ASSUME NEW c \in Conns, NEW group \in Groups \cup {Blank},
              NEW client \in Names \cup {Blank}, BuildRecord(c, group, client)
       PROVE  OwnInv'
    <2>1. \A d \in Conns :
              \/ task'[d] = task[d] /\ session'[d] = session[d]
              \/ task[d] = "open" /\ task'[d] = "naming" /\ session'[d].conn = d
        BY <1>2, <1>3 DEF BuildRecord
    <2>2. QED
        BY <1>1, <1>3, <2>1, SameOwners DEF BuildRecord, mapVars, sweepVars
<1>4. ASSUME NEW c \in Conns, BeginRegister(c) PROVE OwnInv'
    <2> DEFINE h == session[c]
               G == h.group
               N == h.client
               r == Stamped(h, stamp[c])
    <2>1. h \in Holder /\ G \in Groups /\ N \in ClientNames
        BY <1>2, <1>4 DEF BeginRegister, Registered, Holder
    <2>2. /\ task[c] = "naming" /\ groups[G][N] = None
          /\ openGroups' = openGroups \cup {G}
          /\ task' = [task EXCEPT ![c] = "registering"]
          /\ session' = session
          /\ connections' = connections /\ pending' = pending
          /\ victim' = victim /\ notified' = notified
        BY <1>4 DEF BeginRegister, sweepVars
    <2>3. \A g \in Groups, n \in ClientNames :
              groups'[g][n] = IF g = G /\ n = N THEN r ELSE groups[g][n]
        BY <1>2, <1>4, <2>1 DEF BeginRegister
    <2>4. /\ h.conn = c /\ h.group = G /\ h.client = N
          /\ r.conn = c
          /\ r # None
        <3>1. h.conn = c
            BY <2>2 DEF OwnInv, RegisteringOwns
        <3>2. stamp[c] \in Ages
            BY <1>1 DEF TypeInv, TypeOK
        <3>3. r \in SessionRecord
            BY <2>1, <3>2, StampedType
        <3>4. QED BY <3>1, <3>3, SessionStoreAssumption DEF Stamped
    <2> HIDE DEF G, N, h, r
    <2>5. \A g \in Groups, n \in ClientNames :
              groups[g][n] # None =>
                  groups[g][n].conn \in Conns \ {c} /\ (g # G \/ n # N)
        BY <1>2, <2>2 DEF OwnInv, NamesFollowSessions, SessionRecord
    <2>6. connections[c] = None
        BY <2>2 DEF OwnInv, PublishedOwns
    <2>7. \A p \in Removers : pending[p] # None =>
              pending[p] \in Holder /\ pending[p].conn \in Conns \ {c}
        BY <1>2, <2>2 DEF OwnInv, PendingOwns, Holder
    <2>8. \A d \in Conns \ {c} :
              /\ task'[d] = task[d] /\ session'[d] = session[d]
              /\ session[d] \in Holder /\ Owns(d) => Owns(d)'
        BY <1>2, <2>2, <2>3, <2>5 DEF Owns, Holder
    <2>9. /\ task'[c] = "registering" /\ session'[c] = h
          /\ Owns(c)'
        BY <1>2, <2>1, <2>2, <2>3, <2>4 DEF Owns, h, G, N
    <2>10. NamesFollowSessions'
        BY <2>3, <2>4, <2>5, <2>8, <2>9 DEF OwnInv, NamesFollowSessions
    <2>11. PublishedOwns'
        BY <1>2, <2>2, <2>6, <2>8 DEF OwnInv, PublishedOwns, Registered
    <2>12. RegisteringOwns'
        BY <1>2, <2>2, <2>4, <2>6, <2>8, <2>9
           DEF OwnInv, RegisteringOwns, Registered
    <2>13. PendingOwns'
        BY <2>2, <2>7, <2>8 DEF OwnInv, PendingOwns, Removers
    <2>14. SweptOwnsNothing'
        BY <2>2, <2>3, <2>4, <2>8 DEF OwnInv, SweptOwnsNothing
    <2>15. NoNameLeak'
        BY <2>2, <2>3, <2>4, <2>5, <2>8, <2>9 DEF OwnInv, NoNameLeak
    <2>16. NoEmptyGroups'
        BY <2>1, <2>2, <2>3, <2>4 DEF OwnInv, NoEmptyGroups
    <2>17. QED
        BY <1>1, <2>10, <2>11, <2>12, <2>13, <2>14, <2>15, <2>16 DEF OwnInv
<1>5. ASSUME NEW c \in Conns, RefuseRegister(c) PROVE OwnInv'
    <2>1. session[c].group \in Groups /\ session[c].client \in ClientNames
        BY <1>2, <1>5 DEF RefuseRegister, Registered, Holder
    <2>2. openGroups' = openGroups
        BY <1>5, <2>1 DEF RefuseRegister, OwnInv, NoEmptyGroups
    <2>3. \A d \in Conns :
              \/ task'[d] = task[d] /\ session'[d] = session[d]
              \/ task[d] = "naming" /\ task'[d] = "open"
        BY <1>2, <1>5 DEF RefuseRegister
    <2>4. QED
        BY <1>1, <1>5, <2>2, <2>3, SameOwners DEF RefuseRegister, sweepVars
<1>6. ASSUME NEW c \in Conns, EndRegister(c) PROVE OwnInv'
    <2>1. /\ task[c] = "registering"
          /\ session[c] \in Holder /\ session[c].conn = c /\ Owns(c)
          /\ task' = [task EXCEPT ![c] = "serving"]
          /\ connections' = [connections EXCEPT ![c] = Stamped(session[c], stamp[c])]
          /\ groups' = groups /\ openGroups' = openGroups /\ session' = session
          /\ pending' = pending /\ victim' = victim /\ notified' = notified
        BY <1>2, <1>6
           DEF EndRegister, sweepVars, OwnInv, RegisteringOwns, Registered
    <2>2. /\ Stamped(session[c], stamp[c]) # None
          /\ HolderOf(Stamped(session[c], stamp[c])) = session[c]
        <3>1. stamp[c] \in Ages
            BY <1>1 DEF TypeInv, TypeOK
        <3>2. Stamped(session[c], stamp[c]) \in SessionRecord
            BY <2>1, <3>1, StampedType
        <3>3. QED
            BY <2>1, <3>2, SessionStoreAssumption DEF Stamped, HolderOf, Holder
    <2>3. \A d \in Conns : Owns(d)' = Owns(d)
        BY <2>1 DEF Owns
    <2>4. \A p \in Removers : pending[p] # None =>
              pending[p].conn \in Conns \ {c}
        BY <1>2, <2>1 DEF OwnInv, PendingOwns, Holder
    <2>5. \A d \in Conns \ {c} :
              task'[d] = task[d] /\ connections'[d] = connections[d]
        BY <1>2, <2>1
    <2>6. task'[c] = "serving" /\ connections'[c] = Stamped(session[c], stamp[c])
        BY <1>2, <2>1
    <2>7. \A g \in Groups, n \in ClientNames :
              groups[g][n] # None => groups[g][n].conn \in Conns
        BY <1>2 DEF SessionRecord
    <2>8. NamesFollowSessions'
        BY <2>1, <2>5, <2>6, <2>7 DEF OwnInv, NamesFollowSessions
    <2>9. PublishedOwns'
        BY <2>1, <2>2, <2>3, <2>5, <2>6 DEF OwnInv, PublishedOwns
    <2>10. RegisteringOwns'
        BY <2>1, <2>3, <2>5, <2>6 DEF OwnInv, RegisteringOwns
    <2>11. PendingOwns'
        BY <2>1, <2>3, <2>4, <2>5 DEF OwnInv, PendingOwns, Removers
    <2>12. SweptOwnsNothing'
        BY <2>1, <2>5 DEF OwnInv, SweptOwnsNothing
    <2>13. NoNameLeak'
        BY <2>1, <2>2, <2>5, <2>6, <2>7 DEF OwnInv, NoNameLeak
    <2>14. NoEmptyGroups'
        BY <2>1 DEF OwnInv, NoEmptyGroups
    <2>15. QED
        BY <1>1, <2>8, <2>9, <2>10, <2>11, <2>12, <2>13, <2>14 DEF OwnInv
<1>7. ASSUME NEW c \in Conns, ReadClock(c) PROVE OwnInv'
    <2>1. \A d \in Conns :
              \/ task'[d] = task[d]
              \/ task[d] = "serving" /\ task'[d] = "beating"
        BY <1>2, <1>7 DEF ReadClock
    <2>2. QED
        BY <1>1, <1>7, <2>1, SameOwners DEF ReadClock, mapVars, sweepVars
<1>8. ASSUME NEW c \in Conns, TouchForgotten(c) PROVE OwnInv'
    <2>1. \A d \in Conns :
              \/ task'[d] = task[d]
              \/ task[d] = "beating" /\ task'[d] = "serving"
        BY <1>2, <1>8 DEF TouchForgotten
    <2>2. QED
        BY <1>1, <1>8, <2>1, SameOwners DEF TouchForgotten, mapVars, sweepVars
<1>9. ASSUME NEW c \in Conns, BeginTouch(c) PROVE OwnInv'
    <2>1. connections[c] \in SessionRecord /\ connections'[c] # None
          /\ HolderOf(connections'[c]) = HolderOf(connections[c])
        BY <1>1, <1>2, <1>9, SessionStoreAssumption
           DEF BeginTouch, HolderOf, TypeInv, TypeOK, SessionRecord
    <2>2. \A d \in Conns \ {c} :
              connections'[d] = connections[d] /\ task'[d] = task[d]
        BY <1>2, <1>9 DEF BeginTouch
    <2>3. task[c] = "beating" /\ task'[c] = "touching" /\ connections[c] # None
        BY <1>2, <1>9 DEF BeginTouch
    <2>4. QED
        BY <1>1, <1>9, <2>1, <2>2, <2>3, SameOwners DEF BeginTouch, sweepVars
<1>10. ASSUME NEW c \in Conns, EndTouch(c) PROVE OwnInv'
    <2>1. session[c].group \in Groups /\ session[c].client \in ClientNames
        BY <1>2, <1>10 DEF EndTouch, Registered, Holder
    <2>2. \A g \in Groups, n \in ClientNames :
              /\ groups'[g][n] = None <=> groups[g][n] = None
              /\ groups[g][n] # None => groups'[g][n].conn = groups[g][n].conn
        BY <1>1, <1>2, <1>10, <2>1, SessionStoreAssumption
           DEF EndTouch, TypeInv, TypeOK, SessionRecord
    <2>3. \A d \in Conns :
              \/ task'[d] = task[d]
              \/ task[d] = "touching" /\ task'[d] = "serving"
        BY <1>2, <1>10 DEF EndTouch
    <2>4. QED
        BY <1>1, <1>10, <2>2, <2>3, SameOwners DEF EndTouch, sweepVars
<1>11. ASSUME NEW c \in Conns, SocketEnds(c) PROVE OwnInv'
    <2>1. \A d \in Conns :
              \/ task'[d] = task[d]
              \/ task[d] = "serving" /\ task'[d] = "leaving"
              \/ task[d] = "open" /\ connections[d] = None /\ task'[d] = "finished"
        BY <1>2, <1>11 DEF SocketEnds, OwnInv, PublishedOwns
    <2>2. QED
        BY <1>1, <1>11, <2>1, SameOwners DEF SocketEnds, mapVars, sweepVars
<1>12. ASSUME NEW c \in Conns, BeginLeave(c) PROVE OwnInv'
    <2>1. CASE connections[c] = None
        <3>1. \A d \in Conns :
                 \/ task'[d] = task[d]
                 \/ /\ task[d] = "leaving" /\ connections[d] = None
                    /\ task'[d] = "finished"
            BY <1>2, <1>12, <2>1 DEF BeginLeave
        <3>2. QED
            BY <1>1, <1>12, <2>1, <3>1, SameOwners DEF BeginLeave, sweepVars
    <2>2. CASE connections[c] # None
        <3>1. pending[c] = None
            BY <1>12 DEF BeginLeave, OwnInv, PendingOwns, Removers
        <3>2. QED
            BY <1>1, <1>12, <2>2, <3>1, TakeKeepsOwners
               DEF BeginLeave, sweepVars, Removers
    <2>3. QED BY <2>1, <2>2
<1>13. ASSUME NEW c \in Conns, EndLeave(c) PROVE OwnInv'
    <2>1. pending[c] # None
        BY <1>2, <1>13, SessionStoreAssumption DEF EndLeave
    <2>2. QED
        BY <1>1, <1>13, <2>1, ReleaseKeepsOwners DEF EndLeave, sweepVars, Removers
<1>14. ASSUME NEW c \in Conns, Accept(c) PROVE OwnInv'
    <2>1. /\ connections[c] = None /\ victim # c
          /\ \A g \in Groups, n \in ClientNames :
                groups[g][n] # None => groups[g][n].conn \in Conns \ {c}
          /\ \A p \in Removers : pending[p] # None =>
                pending[p].conn \in Conns \ {c}
        BY <1>2, <1>14 DEF Accept, Forgotten, SessionRecord, Holder
    <2>2. /\ groups' = groups /\ openGroups' = openGroups
          /\ connections' = connections /\ pending' = pending /\ victim' = victim
          /\ notified' = notified \ {c}
          /\ task' = [task EXCEPT ![c] = "open"]
          /\ session' = [session EXCEPT ![c] = None]
        BY <1>14 DEF Accept, mapVars
    <2>3. \A d \in Conns \ {c} :
              /\ task'[d] = task[d] /\ session'[d] = session[d]
              /\ Owns(d)' = Owns(d)
        BY <1>2, <2>2 DEF Owns
    <2>4. task'[c] = "open"
        BY <1>2, <2>2
    <2>5. NamesFollowSessions'
        BY <2>1, <2>2, <2>3 DEF OwnInv, NamesFollowSessions
    <2>6. PublishedOwns'
        BY <2>1, <2>2, <2>3 DEF OwnInv, PublishedOwns
    <2>7. RegisteringOwns'
        BY <2>2, <2>3, <2>4 DEF OwnInv, RegisteringOwns
    <2>8. PendingOwns'
        BY <2>1, <2>2, <2>3 DEF OwnInv, PendingOwns, Removers
    <2>9. SweptOwnsNothing'
        BY <2>1, <2>2, <2>3 DEF OwnInv, SweptOwnsNothing
    <2>10. NoNameLeak'
        BY <2>1, <2>2, <2>3 DEF OwnInv, NoNameLeak
    <2>11. NoEmptyGroups'
        BY <2>2 DEF OwnInv, NoEmptyGroups
    <2>12. QED
        BY <1>1, <2>5, <2>6, <2>7, <2>8, <2>9, <2>10, <2>11 DEF OwnInv
<1>15. CASE Scan
    BY <1>1, <1>15, SameOwners DEF Scan, mapVars
<1>16. ASSUME NEW c \in Conns, BeginSweep(c) PROVE OwnInv'
    <2>1. CASE connections[c] = None
        BY <1>1, <1>16, <2>1, SameOwners DEF BeginSweep
    <2>2. CASE connections[c] # None
        BY <1>1, <1>16, <2>2, TakeKeepsOwners DEF BeginSweep, Removers
    <2>3. QED BY <2>1, <2>2
<1>17. CASE EndSweep
    BY <1>1, <1>17, ReleaseKeepsOwners DEF EndSweep, Removers
<1>18. CASE Notify
    <2>1. /\ groups' = groups /\ openGroups' = openGroups
          /\ connections' = connections /\ pending' = pending /\ task' = task
          /\ session' = session
          /\ notified' = notified \cup {victim} /\ victim' = None
        BY <1>18 DEF Notify, mapVars
    <2>2. SweptOwnsNothing'
        BY <2>1, SessionStoreAssumption DEF OwnInv, SweptOwnsNothing
    <2>3. QED
        BY <1>1, <2>1, <2>2
           DEF OwnInv, NamesFollowSessions, PublishedOwns, RegisteringOwns,
               PendingOwns, NoNameLeak, NoEmptyGroups, Owns
<1>19. CASE Tick
    <2>1. \A r \in SessionRecord \cup {None} :
              /\ OlderRecord(r) = None <=> r = None
              /\ r # None => /\ OlderRecord(r).conn = r.conn
                             /\ HolderOf(OlderRecord(r)) = HolderOf(r)
        <3> TAKE r \in SessionRecord \cup {None}
        <3>1. CASE r = None
            BY <3>1 DEF OlderRecord
        <3>2. CASE r # None
            <4>1. r \in SessionRecord /\ Older(r.age) \in Ages
                BY <3>2, AgeFacts DEF SessionRecord
            <4>2. OlderRecord(r) = [r EXCEPT !.age = Older(r.age)]
                BY <3>2, <4>1 DEF OlderRecord, SessionRecord
            <4>3. OlderRecord(r) \in SessionRecord
                BY <4>1, <4>2 DEF SessionRecord
            <4>4. QED
                BY <3>2, <4>1, <4>2, <4>3, SessionStoreAssumption
                   DEF SessionRecord, HolderOf
        <3>3. QED BY <3>1, <3>2
    <2>2. \A g \in Groups, n \in ClientNames :
              groups'[g][n] = OlderRecord(groups[g][n])
        BY <1>19 DEF Tick
    <2>3. \A c \in Conns : connections'[c] = OlderRecord(connections[c])
        BY <1>19 DEF Tick
    <2>4. QED
        BY <1>1, <1>2, <1>19, <2>1, <2>2, <2>3, SameOwners DEF Tick, sweepVars
<1>20. CASE UNCHANGED vars
    BY <1>1, <1>20, SameOwners DEF vars, mapVars, sweepVars
<1>21. QED
    BY <1>4, <1>5, <1>6, <1>8, <1>9, <1>10, <1>11, <1>12, <1>13, <1>14, <1>15,
       <1>3, <1>7, <1>16, <1>17, <1>18, <1>19, <1>20 DEF Next, Handler, Sweep

LEMMA OwnInvAlways == Spec => []OwnInv
BY OwnInvInit, OwnInvNext, PTL DEF Spec

\* Whoever is found by connection id is found by name.
THEOREM PublishedOwnsNameAlways == Spec => []PublishedOwnsName
<1>1. OwnInv => PublishedOwnsName
    <2> SUFFICES ASSUME OwnInv, NEW c \in Conns, connections[c] # None
                 PROVE  /\ connections[c].conn = c
                        /\ Owner(connections[c].group, connections[c].client) = c
        BY DEF PublishedOwnsName
    <2>1. connections[c] \in SessionRecord
        BY DEF OwnInv, TypeInv, TypeOK
    <2>2. /\ session[c].conn = c
          /\ session[c] = HolderOf(connections[c])
          /\ Owns(c)
        BY DEF OwnInv, PublishedOwns
    <2>3. QED BY <2>1, <2>2 DEF Owns, Owner, HolderOf, SessionRecord
<1>2. QED BY <1>1, OwnInvAlways, PTL

\* A removal never evicts a session that has taken the name meanwhile, whichever
\* tasks remove which sessions.
THEOREM RemovalEvictsOwnerAlways ==
    Spec => [](RemovalEvictsOwner /\ OneRemoverPerSession)
<1>1. OwnInv => RemovalEvictsOwner /\ OneRemoverPerSession
    <2> SUFFICES ASSUME OwnInv, NEW p \in Removers, pending[p] # None
                 PROVE  /\ Owner(pending[p].group, pending[p].client)
                                = pending[p].conn
                        /\ connections[pending[p].conn] = None
                        /\ \A q \in Removers \ {p} :
                              pending[q] # None => pending[q].conn # pending[p].conn
        BY DEF RemovalEvictsOwner, OneRemoverPerSession
    <2>1. QED BY DEF OwnInv, PendingOwns, Owns, Owner
<1>2. QED BY <1>1, OwnInvAlways, PTL

\* No name outlives its session and no empty group its last client.
THEOREM NoLeakAlways == Spec => []NoLeak
<1>1. OwnInv => NoLeak
    BY DEF OwnInv, NoLeak
<1>2. QED BY <1>1, OwnInvAlways, PTL

\* A client told HeartbeatTimeout has nothing left in the store.
THEOREM NoticeAfterReleaseAlways == Spec => []NoticeAfterRelease
<1>1. OwnInv => NoticeAfterRelease
    <2> SUFFICES ASSUME OwnInv, NEW c \in notified
                 PROVE  connections[c] = None /\ ~Named(c)
        BY DEF NoticeAfterRelease
    <2>1. c \in Conns
        BY DEF OwnInv, TypeInv, TypeOK
    <2>2. QED
        BY <2>1, SessionStoreAssumption
           DEF OwnInv, SweptOwnsNothing, Named, Owner
<1>2. QED BY <1>1, OwnInvAlways, PTL

-----------------------------------------------------------------------------
(* The directory                                                           *)
(*                                                                         *)
(* SessionStore implements the safety part of SessionDirectory: whatever   *)
(* the tasks do between the locks, from outside every connection walks     *)
(* through absent, named, online and retired, and names have one holder.   *)

Pending(c) == \E p \in Removers : pending[p] # None /\ pending[p].conn = c

\* The stage of a connection, read off what its handler and the removers do.
StageOf(c) ==
    IF connections[c] # None THEN "online"
    ELSE IF Pending(c) THEN "retired"
    ELSE IF task[c] = "registering" THEN "named"
    ELSE "absent"

SlotOf(c) ==
    IF StageOf(c) = "absent" THEN None
                             ELSE <<session[c].group, session[c].client>>

LEMMA NamedFacts ==
    ASSUME OwnInv, NEW c \in Conns
    PROVE  /\ Named(c) <=> StageOf(c) # "absent"
           /\ Named(c) => /\ session[c].group \in Groups
                          /\ session[c].client \in ClientNames
                          /\ Owns(c)
           /\ connections[c] # None => ~Pending(c)
           /\ task[c] = "registering" => connections[c] = None /\ ~Pending(c)
           /\ task[c] \in {"open", "naming"} => StageOf(c) = "absent"
<1> USE DEF OwnInv
<1>1. /\ connections[c] # None => Owns(c) /\ task[c] \in Registered
      /\ Pending(c) => Owns(c) /\ connections[c] = None
                       /\ session[c] \in Holder
      /\ task[c] = "registering" => Owns(c) /\ connections[c] = None
      /\ task[c] \in {"open", "naming", "registering"} => ~Pending(c)
      /\ task[c] \in {"open", "naming"} => connections[c] = None
    BY DEF Pending, PublishedOwns, PendingOwns, RegisteringOwns, Registered,
           TypeInv, TypeOK
<1>2. task[c] \in Registered => session[c] \in Holder
    BY DEF TypeInv
<1>3. Owns(c) /\ session[c] \in Holder => Named(c)
    BY DEF Owns, Named, Owner, Holder
<1>4. ASSUME NEW g \in Groups, NEW n \in ClientNames, Owner(g, n) = c
      PROVE  /\ session[c].group = g /\ session[c].client = n
             /\ Owns(c)
             /\ StageOf(c) # "absent"
    <2>1. groups[g][n] # None /\ groups[g][n].conn = c
        BY <1>4, SessionStoreAssumption DEF Owner
    <2>2. session[c].group = g /\ session[c].client = n
        BY <2>1 DEF NamesFollowSessions
    <2>3. task[c] = "registering" \/ connections[c] # None \/ Pending(c)
        BY <2>1 DEF NoNameLeak, Pending
    <2>4. QED BY <2>1, <2>2, <2>3 DEF Owns, StageOf
<1>5. StageOf(c) # "absent" => Named(c)
    BY <1>1, <1>2, <1>3 DEF StageOf, Registered
<1>6. QED
    BY <1>1, <1>4, <1>5 DEF Named, StageOf

StagesRead == \A c \in Conns : DirStage(c) = StageOf(c) /\ DirSlot(c) = SlotOf(c)

LEMMA StageFacts == OwnInv => StagesRead
BY NamedFacts DEF DirStage, DirSlot, StageOf, SlotOf, Pending, StagesRead

-----------------------------------------------------------------------------
(* What a step does to the directory                                       *)

StageMap == [c \in Conns |-> DirStage(c)]
SlotMap == [c \in Conns |-> DirSlot(c)]

\* A connection whose stage and slot are what they were.
Still(d) == StageOf(d)' = StageOf(d) /\ SlotOf(d)' = SlotOf(d)

LEMMA StillFacts ==
    ASSUME NEW d \in Conns,
           connections'[d] = None <=> connections[d] = None,
           Pending(d)' <=> Pending(d),
           task'[d] = "registering" <=> task[d] = "registering",
           session'[d] = session[d] \/ StageOf(d) = "absent"
    PROVE  Still(d)
BY DEF Still, StageOf, SlotOf

LEMMA AllStill ==
    ASSUME OwnInv, OwnInv', \A d \in Conns : Still(d)
    PROVE  StageMap' = StageMap /\ SlotMap' = SlotMap
<1>1. StagesRead /\ StagesRead'
    BY StageFacts, PTL
<1>2. QED BY <1>1 DEF StagesRead, Still, StageMap, SlotMap

LEMMA OneMoves ==
    ASSUME OwnInv, OwnInv', NEW c \in Conns, \A d \in Conns \ {c} : Still(d)
    PROVE  /\ StageMap[c] = StageOf(c) /\ SlotMap[c] = SlotOf(c)
           /\ StageMap' = [StageMap EXCEPT ![c] = StageOf(c)']
           /\ SlotMap' = [SlotMap EXCEPT ![c] = SlotOf(c)']
<1>1. StagesRead /\ StagesRead'
    BY StageFacts, PTL
<1>2. QED BY <1>1 DEF StagesRead, Still, StageMap, SlotMap

LEMMA OneMovesInPlace ==
    ASSUME OwnInv, OwnInv', NEW c \in Conns, \A d \in Conns \ {c} : Still(d),
           SlotOf(c)' = SlotOf(c)
    PROVE  /\ StageMap[c] = StageOf(c)
           /\ StageMap' = [StageMap EXCEPT ![c] = StageOf(c)']
           /\ SlotMap' = SlotMap
<1>1. /\ StageMap[c] = StageOf(c) /\ SlotMap[c] = SlotOf(c)
      /\ StageMap' = [StageMap EXCEPT ![c] = StageOf(c)']
      /\ SlotMap' = [SlotMap EXCEPT ![c] = SlotOf(c)']
    BY OneMoves
<1>2. [SlotMap EXCEPT ![c] = SlotMap[c]] = SlotMap
    BY DEF SlotMap
<1>3. QED BY <1>1, <1>2

LEMMA BeginRegisterBinds ==
    ASSUME OwnInv, OwnInv', NEW c \in Conns, BeginRegister(c)
    PROVE  \E s \in Groups \X ClientNames : Directory!Bind(c, s)
<1> DEFINE s == <<session[c].group, session[c].client>>
<1>1. /\ task[c] = "naming" /\ task' = [task EXCEPT ![c] = "registering"]
      /\ groups[session[c].group][session[c].client] = None
      /\ session' = session /\ connections' = connections /\ pending' = pending
    BY DEF BeginRegister, sweepVars
<1>2. task \in [Conns -> Tasks] /\ session[c] \in Holder
    BY <1>1 DEF OwnInv, TypeInv, TypeOK, Registered
<1>3. s \in Groups \X ClientNames
    BY <1>2 DEF Holder
<1>4. \A d \in Conns \ {c} : Still(d)
    BY <1>1, <1>2, StillFacts DEF Pending
<1>5. StageOf(c) = "absent" /\ connections[c] = None /\ ~Pending(c)
    BY <1>1, NamedFacts DEF StageOf
<1>6. StageOf(c)' = "named" /\ SlotOf(c)' = s
    BY <1>1, <1>2, <1>5 DEF StageOf, SlotOf, Pending
<1>7. \A d \in Conns : SlotOf(d) # s
    BY <1>1, <1>3, NamedFacts, SessionStoreAssumption DEF SlotOf, Owns
<1>8. \A d \in Conns : SlotMap[d] # s
    BY <1>7, StageFacts DEF StagesRead, SlotMap
<1>9. Directory!Bind(c, s)
    BY <1>4, <1>5, <1>6, <1>8, OneMoves
       DEF Directory!Bind, Directory!Holders, StageMap, SlotMap
<1>10. QED BY <1>3, <1>9

LEMMA EndRegisterPublishes ==
    ASSUME OwnInv, OwnInv', NEW c \in Conns, EndRegister(c)
    PROVE  Directory!Publish(c)
<1>1. /\ task[c] = "registering" /\ task' = [task EXCEPT ![c] = "serving"]
      /\ connections' = [connections EXCEPT ![c] = Stamped(session[c], stamp[c])]
      /\ session' = session /\ pending' = pending
    BY DEF EndRegister, sweepVars
<1>2. /\ task \in [Conns -> Tasks] /\ session[c] \in Holder /\ stamp[c] \in Ages
      /\ connections \in [Conns -> SessionRecord \cup {None}]
    BY <1>1 DEF OwnInv, TypeInv, TypeOK, Registered
<1>3. Stamped(session[c], stamp[c]) # None
    BY <1>2, StampedType, SessionStoreAssumption
<1>4. \A d \in Conns \ {c} : Still(d)
    BY <1>1, <1>2, StillFacts DEF Pending
<1>5. StageOf(c) = "named"
    BY <1>1, NamedFacts DEF StageOf
<1>6. StageOf(c)' = "online" /\ SlotOf(c)' = SlotOf(c)
    BY <1>1, <1>2, <1>3, <1>5 DEF StageOf, SlotOf
<1>7. /\ StageMap[c] = StageOf(c)
      /\ StageMap' = [StageMap EXCEPT ![c] = StageOf(c)'] /\ SlotMap' = SlotMap
    BY <1>4, <1>6, OneMovesInPlace
<1>8. /\ StageMap[c] = "named"
      /\ StageMap' = [StageMap EXCEPT ![c] = "online"] /\ SlotMap' = SlotMap
    BY <1>5, <1>6, <1>7
<1>9. QED
    BY <1>8 DEF Directory!Publish, StageMap, SlotMap

LEMMA TakeRetires ==
    ASSUME OwnInv, OwnInv', NEW p \in Removers, NEW c \in Conns,
           connections[c] # None, TakeConnection(p, c), pending[p] = None,
           session' = session,
           \A d \in Conns : task'[d] = "registering" <=> task[d] = "registering"
    PROVE  Directory!Retire(c)
<1>1. /\ connections' = [connections EXCEPT ![c] = None]
      /\ pending' = [pending EXCEPT ![p] = HolderOf(connections[c])]
      /\ connections \in [Conns -> SessionRecord \cup {None}]
      /\ pending \in [Removers -> Holder \cup {None}]
    BY DEF TakeConnection, OwnInv, TypeInv, TypeOK
<1>2. /\ HolderOf(connections[c]) \in Holder
      /\ HolderOf(connections[c]).conn = c
    BY <1>1, HolderOfType DEF OwnInv, PublishedOwns
<1>3. /\ pending'[p] # None /\ pending'[p].conn = c
      /\ \A q \in Removers \ {p} : pending'[q] = pending[q]
    BY <1>1, <1>2, SessionStoreAssumption
<1>4. \A d \in Conns \ {c} : Pending(d)' <=> Pending(d)
    BY <1>3 DEF Pending
<1>5. \A d \in Conns \ {c} : Still(d)
    BY <1>1, <1>4, StillFacts
<1>6. StageOf(c) = "online"
    BY DEF StageOf
<1>7. StageOf(c)' = "retired" /\ SlotOf(c)' = SlotOf(c)
    BY <1>1, <1>3, <1>6 DEF StageOf, SlotOf, Pending
<1>8. /\ StageMap[c] = StageOf(c)
      /\ StageMap' = [StageMap EXCEPT ![c] = StageOf(c)'] /\ SlotMap' = SlotMap
    BY <1>5, <1>7, OneMovesInPlace
<1>9. /\ StageMap[c] = "online"
      /\ StageMap' = [StageMap EXCEPT ![c] = "retired"] /\ SlotMap' = SlotMap
    BY <1>6, <1>7, <1>8
<1>10. QED
    BY <1>9 DEF Directory!Retire, StageMap, SlotMap

LEMMA FreeReleases ==
    ASSUME OwnInv, OwnInv', NEW p \in Removers, NEW c \in Conns,
           pending[p] # None, pending[p].conn = c, FreeName(p),
           session' = session, connections' = connections,
           \A d \in Conns : task'[d] = "registering" <=> task[d] = "registering"
    PROVE  Directory!Release(c)
<1>1. /\ pending' = [pending EXCEPT ![p] = None]
      /\ pending \in [Removers -> Holder \cup {None}]
    BY DEF FreeName, OwnInv, TypeInv, TypeOK
<1>2. /\ connections[c] = None /\ task[c] # "registering"
      /\ \A q \in Removers \ {p} : pending[q] # None => pending[q].conn # c
    BY <1>1 DEF OwnInv, PendingOwns, Holder
<1>3. Pending(c)
    BY DEF Pending
<1>4. /\ \A q \in Removers \ {p} : pending'[q] = pending[q]
      /\ pending'[p] = None
    BY <1>1
<1>5. \A d \in Conns \ {c} : Pending(d)' <=> Pending(d)
    BY <1>4 DEF Pending
<1>6. ~Pending(c)'
    BY <1>2, <1>4 DEF Pending
<1>7. \A d \in Conns \ {c} : Still(d)
    BY <1>5, StillFacts
<1>8. StageOf(c) = "retired"
    BY <1>2, <1>3 DEF StageOf
<1>9. StageOf(c)' = "absent" /\ SlotOf(c)' = None
    BY <1>2, <1>6 DEF StageOf, SlotOf
<1>10. /\ StageMap' = [StageMap EXCEPT ![c] = "absent"]
       /\ SlotMap' = [SlotMap EXCEPT ![c] = None]
       /\ StageMap[c] = "retired"
    BY <1>2, <1>7, <1>8, <1>9, OneMoves
<1>11. QED
    BY <1>10 DEF Directory!Release, StageMap, SlotMap

\* Steps that neither register nor remove anybody do not show in the directory.
LEMMA QuietStep ==
    ASSUME OwnInv, OwnInv', pending' = pending,
           \A d \in Conns :
              /\ connections'[d] = None <=> connections[d] = None
              /\ task'[d] = "registering" <=> task[d] = "registering"
              /\ session'[d] = session[d] \/ StageOf(d) = "absent"
    PROVE  UNCHANGED Directory!dirVars
<1>1. \A d \in Conns : Still(d)
    BY StillFacts DEF Pending
<1>2. QED
    BY <1>1, AllStill DEF Directory!dirVars, StageMap, SlotMap

LEMMA StepImplements ==
    OwnInv /\ OwnInv' /\ [Next]_vars
        => [Directory!DirNext]_(Directory!dirVars)
<1> SUFFICES ASSUME OwnInv, OwnInv', [Next]_vars
             PROVE  Directory!DirNext \/ UNCHANGED Directory!dirVars
    OBVIOUS
<1>1. /\ task \in [Conns -> Tasks]
      /\ connections \in [Conns -> SessionRecord \cup {None}]
      /\ pending \in [Removers -> Holder \cup {None}]
      /\ connections' \in [Conns -> SessionRecord \cup {None}]
    BY DEF OwnInv, TypeInv, TypeOK
<1>2. \A d \in Conns :
          task[d] \in {"open", "naming"} => StageOf(d) = "absent"
    BY NamedFacts
<1>3. ASSUME NEW c \in Conns, NEW group \in Groups \cup {Blank},
             NEW client \in Names \cup {Blank}, BuildRecord(c, group, client)
      PROVE  UNCHANGED Directory!dirVars
    BY <1>1, <1>2, <1>3, QuietStep DEF BuildRecord, mapVars
<1>4. ASSUME NEW c \in Conns, BeginRegister(c) PROVE Directory!DirNext
    BY <1>4, BeginRegisterBinds DEF Directory!DirNext
<1>5. ASSUME NEW c \in Conns, RefuseRegister(c)
      PROVE  UNCHANGED Directory!dirVars
    BY <1>1, <1>2, <1>5, QuietStep DEF RefuseRegister
<1>6. ASSUME NEW c \in Conns, EndRegister(c) PROVE Directory!DirNext
    BY <1>6, EndRegisterPublishes DEF Directory!DirNext
<1>7. ASSUME NEW c \in Conns, ReadClock(c) PROVE UNCHANGED Directory!dirVars
    BY <1>1, <1>7, QuietStep DEF ReadClock, mapVars
<1>8. ASSUME NEW c \in Conns, TouchForgotten(c)
      PROVE  UNCHANGED Directory!dirVars
    BY <1>1, <1>8, QuietStep DEF TouchForgotten, mapVars
<1>9. ASSUME NEW c \in Conns, BeginTouch(c) PROVE UNCHANGED Directory!dirVars
    <2>1. connections'[c] # None
        <3>1. connections[c] \in SessionRecord /\ stamp[c] \in Ages
            BY <1>1, <1>9 DEF BeginTouch, OwnInv, TypeInv, TypeOK
        <3>2. connections'[c] \in SessionRecord
            BY <1>1, <1>9, <3>1 DEF BeginTouch, SessionRecord
        <3>3. QED BY <3>2, SessionStoreAssumption
    <2>2. \A d \in Conns : connections'[d] = None <=> connections[d] = None
        BY <1>1, <1>9, <2>1 DEF BeginTouch
    <2>3. QED BY <1>1, <1>9, <2>2, QuietStep DEF BeginTouch
<1>10. ASSUME NEW c \in Conns, EndTouch(c) PROVE UNCHANGED Directory!dirVars
    BY <1>1, <1>10, QuietStep DEF EndTouch
<1>11. ASSUME NEW c \in Conns, SocketEnds(c) PROVE UNCHANGED Directory!dirVars
    BY <1>1, <1>11, QuietStep DEF SocketEnds, mapVars
<1>12. ASSUME NEW c \in Conns, BeginLeave(c)
       PROVE  Directory!DirNext \/ UNCHANGED Directory!dirVars
    <2>1. CASE connections[c] = None
        BY <1>1, <1>12, <2>1, QuietStep DEF BeginLeave
    <2>2. CASE connections[c] # None
        <3>1. c \in Removers /\ pending[c] = None
            BY <1>12 DEF BeginLeave, OwnInv, PendingOwns, Removers
        <3>2. Directory!Retire(c)
            BY <1>1, <1>12, <2>2, <3>1, TakeRetires DEF BeginLeave
        <3>3. QED BY <3>2 DEF Directory!DirNext
    <2>3. QED BY <2>1, <2>2
<1>13. ASSUME NEW p \in Removers, pending[p] # None, FreeName(p),
              session' = session, connections' = connections,
              \A d \in Conns :
                  task'[d] = "registering" <=> task[d] = "registering"
       PROVE  Directory!DirNext
    <2>1. PICK c \in Conns : pending[p].conn = c
        BY <1>1, <1>13 DEF Holder
    <2>2. Directory!Release(c)
        BY <1>13, <2>1, FreeReleases
    <2>3. QED BY <2>2 DEF Directory!DirNext
<1>14. ASSUME NEW c \in Conns, EndLeave(c) PROVE Directory!DirNext
    <2>1. c \in Removers /\ pending[c] # None
        BY <1>14, SessionStoreAssumption
           DEF EndLeave, OwnInv, TypeInv, Removers
    <2>2. QED BY <1>1, <1>13, <1>14, <2>1 DEF EndLeave
<1>15. ASSUME NEW c \in Conns, Accept(c) PROVE UNCHANGED Directory!dirVars
    <2>1. StageOf(c) = "absent" /\ task'[c] = "open" /\ task[c] = "finished"
        BY <1>1, <1>15 DEF Accept, Forgotten, StageOf, Pending
    <2>2. QED BY <1>1, <1>15, <2>1, QuietStep DEF Accept, mapVars
<1>16. CASE Scan
    BY <1>16, QuietStep DEF Scan, mapVars
<1>17. ASSUME NEW c \in Conns, BeginSweep(c)
       PROVE  Directory!DirNext \/ UNCHANGED Directory!dirVars
    <2>1. CASE connections[c] = None
        BY <1>17, <2>1, QuietStep DEF BeginSweep
    <2>2. CASE connections[c] # None
        <3>1. Directory!Retire(c)
            BY <1>17, <2>2, TakeRetires DEF BeginSweep, Removers
        <3>2. QED BY <3>1 DEF Directory!DirNext
    <2>3. QED BY <2>1, <2>2
<1>18. CASE EndSweep
    BY <1>13, <1>18 DEF EndSweep, Removers
<1>19. CASE Notify
    BY <1>19, QuietStep DEF Notify, mapVars
<1>20. CASE Tick
    <2>1. \A d \in Conns : connections'[d] = OlderRecord(connections[d])
        BY <1>20 DEF Tick
    <2>2. \A d \in Conns : connections'[d] = None <=> connections[d] = None
        <3> TAKE d \in Conns
        <3>1. CASE connections[d] = None
            BY <2>1, <3>1 DEF OlderRecord
        <3>2. CASE connections[d] # None
            <4>1. /\ connections[d] \in SessionRecord
                  /\ Older(connections[d].age) \in Ages
                BY <1>1, <3>2, AgeFacts DEF SessionRecord
            <4>2. connections'[d] =
                      [connections[d] EXCEPT !.age = Older(connections[d].age)]
                BY <2>1, <3>2, <4>1 DEF OlderRecord, SessionRecord
            <4>3. connections'[d] \in SessionRecord
                BY <4>1, <4>2 DEF SessionRecord
            <4>4. QED BY <3>2, <4>3, SessionStoreAssumption
        <3>3. QED BY <3>1, <3>2
    <2>3. QED BY <1>20, <2>2, QuietStep DEF Tick
<1>21. CASE UNCHANGED vars
    BY <1>21, QuietStep DEF vars, mapVars
<1>22. QED
    BY <1>3, <1>4, <1>5, <1>6, <1>7, <1>8, <1>9, <1>10, <1>11, <1>12, <1>14,
       <1>15, <1>16, <1>17, <1>18, <1>19, <1>20, <1>21 DEF Next, Handler, Sweep

LEMMA InitImplements == Init => Directory!DirInit
<1> SUFFICES ASSUME Init PROVE Directory!DirInit
    OBVIOUS
<1>1. StagesRead
    BY OwnInvInit, StageFacts
<1>2. \A c \in Conns : StageOf(c) = "absent" /\ SlotOf(c) = None
    BY DEF Init, StageOf, SlotOf, Pending
<1>3. QED
    BY <1>1, <1>2 DEF StagesRead, Directory!DirInit

\* Every behaviour of the two-lock store is one of the directory FileRelay and
\* the routing are built on.
THEOREM StoreImplementsDirectory == Spec => Directory!DirSafety
<1>1. Spec => []OwnInv
    BY OwnInvAlways
<1>2. QED
    BY <1>1, InitImplements, StepImplements, PTL DEF Spec, Directory!DirSafety

-----------------------------------------------------------------------------
(* Nothing but `init` brings a connection in                               *)

NamedRead == \A c \in Conns : Named(c) <=> StageOf(c) # "absent"

\* No step but the one that takes a name for d ends the absence of d.
LEMMA AbsentStays ==
    ASSUME OwnInv, [Next]_vars, NEW d \in Conns, StageOf(d) = "absent",
           ~BeginRegister(d)
    PROVE  StageOf(d)' = "absent"
<1> USE DEF OwnInv
<1>1. connections[d] = None /\ ~Pending(d) /\ task[d] # "registering"
    BY DEF StageOf
<1>2. /\ task \in [Conns -> Tasks]
      /\ connections \in [Conns -> SessionRecord \cup {None}]
      /\ pending \in [Removers -> Holder \cup {None}]
    BY DEF TypeInv, TypeOK
<1>3. SUFFICES /\ connections'[d] = None
               /\ task'[d] # "registering"
               /\ \A p \in Removers :
                     \/ pending'[p] = pending[p]
                     \/ pending'[p] = None
                     \/ pending'[p].conn # d
    BY <1>1 DEF StageOf, Pending
<1>4. ASSUME NEW p \in Removers, NEW c \in Conns, connections[c] # None,
             TakeConnection(p, c)
      PROVE  /\ connections'[d] = None
             /\ pending'[p].conn # d
             /\ \A q \in Removers \ {p} : pending'[q] = pending[q]
    <2>1. HolderOf(connections[c]).conn = c
        BY <1>2, <1>4 DEF PublishedOwns
    <2>2. QED BY <1>1, <1>2, <1>4, <2>1 DEF TakeConnection
<1>5. ASSUME NEW c \in Conns, Handler(c)
      PROVE  /\ connections'[d] = None
             /\ task'[d] # "registering"
             /\ \A p \in Removers :
                   \/ pending'[p] = pending[p]
                   \/ pending'[p] = None
                   \/ pending'[p].conn # d
    <2>1. CASE BeginLeave(c)
        <3>1. CASE connections[c] = None
            BY <1>1, <1>2, <2>1, <3>1 DEF BeginLeave
        <3>2. CASE connections[c] # None
            BY <1>1, <1>2, <1>4, <2>1, <3>2 DEF BeginLeave, Removers
        <3>3. QED BY <3>1, <3>2
    <2>2. CASE EndLeave(c)
        BY <1>1, <1>2, <2>2 DEF EndLeave, FreeName
    <2>3. CASE BeginRegister(c)
        BY <1>1, <1>2, <2>3 DEF BeginRegister
    <2>4. CASE EndRegister(c)
        BY <1>1, <1>2, <2>4 DEF EndRegister
    <2>5. CASE \E group \in Groups \cup {Blank}, client \in Names \cup {Blank} :
                  BuildRecord(c, group, client)
        BY <1>1, <1>2, <2>5 DEF BuildRecord, mapVars
    <2>6. CASE RefuseRegister(c)
        BY <1>1, <1>2, <2>6 DEF RefuseRegister
    <2>7. CASE ReadClock(c) \/ TouchForgotten(c) \/ SocketEnds(c)
        BY <1>1, <1>2, <2>7 DEF ReadClock, TouchForgotten, SocketEnds, mapVars
    <2>8. CASE BeginTouch(c) \/ EndTouch(c)
        BY <1>1, <1>2, <2>8 DEF BeginTouch, EndTouch
    <2>9. CASE Accept(c)
        BY <1>1, <1>2, <2>9 DEF Accept, mapVars
    <2>10. QED
        BY <1>5, <2>1, <2>2, <2>3, <2>4, <2>5, <2>6, <2>7, <2>8, <2>9 DEF Handler
<1>6. ASSUME NEW c \in Conns, BeginSweep(c)
      PROVE  /\ connections'[d] = None
             /\ task'[d] # "registering"
             /\ \A p \in Removers :
                   pending'[p] = pending[p] \/ pending'[p].conn # d
    <2>1. CASE connections[c] = None
        BY <1>1, <1>6, <2>1 DEF BeginSweep
    <2>2. CASE connections[c] # None
        BY <1>1, <1>4, <1>6, <2>2 DEF BeginSweep, Removers
    <2>3. QED BY <2>1, <2>2
<1>7. CASE Scan \/ EndSweep \/ Notify
    BY <1>1, <1>2, <1>7 DEF Scan, EndSweep, Notify, FreeName, mapVars
<1>8. CASE Tick
    BY <1>1, <1>8 DEF Tick, OlderRecord
<1>9. CASE UNCHANGED vars
    BY <1>1, <1>9 DEF vars, mapVars
<1>10. QED
    BY <1>5, <1>6, <1>7, <1>8, <1>9 DEF Next, Sweep

\* No heartbeat, removal or sweep brings a session back.
THEOREM OnlyInitBindsAlways == Spec => OnlyInitBinds
<1>1. OwnInv => NamedRead
    BY NamedFacts DEF NamedRead
<1>2. OwnInv /\ OwnInv' /\ [Next]_vars
          => [\A c \in Conns : ~Named(c) /\ Named(c)' => task[c] = "naming"]_vars
    <2> SUFFICES ASSUME OwnInv, OwnInv', [Next]_vars,
                        NEW c \in Conns, ~Named(c), Named(c)'
                 PROVE  task[c] = "naming"
        OBVIOUS
    <2>1. NamedRead /\ NamedRead'
        BY <1>1, PTL
    <2>2. StageOf(c) = "absent" /\ StageOf(c)' # "absent"
        BY <2>1 DEF NamedRead
    <2>3. BeginRegister(c)
        BY <2>2, AbsentStays
    <2>4. QED BY <2>3 DEF BeginRegister
<1>3. QED
    BY <1>2, OwnInvAlways, PTL DEF Spec, OnlyInitBinds

=============================================================================
