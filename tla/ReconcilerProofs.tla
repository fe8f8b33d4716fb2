--------------------------- MODULE ReconcilerProofs ---------------------------
(***************************************************************************)
(* Safety of Reconciler for any set of agents and any bounds.              *)
(*                                                                         *)
(* Five inductive parts over a common typing: what the copy that Reconcile *)
(* holds can differ from the stored object in (StatusInv), where an agent  *)
(* is scheduled (ScheduleInv), who holds a client (ClientInv), which       *)
(* managers can run (OwnerInv) and how many are made (CountInv).           *)
(***************************************************************************)
EXTENDS Reconciler, TLAPS

Cleaning == {"cleanup", "stopping", "removing"}
Place == Cleaning \cup {"idle", "client", "clientLock", "uid", "manager", "ready",
                        "sync", "snapshot", "heartbeat", "counts", "write"}

Types ==
    /\ object \in [Agents -> Object]
    /\ cache \in [Agents -> Object]
    /\ pc \in Place
    /\ key \in Agents \cup {NoAgent}
    /\ (key = NoAgent) <=> (pc = "idle")
    /\ copy \in Object
    /\ copyFresh \in BOOLEAN
    /\ manager \in [Agents -> Nat]
    /\ made \in [Agents -> Nat]
    /\ mgr \in [Agents -> [Id -> MgrState]]
    /\ created \in [Agents -> 0..MaxObjects]

\* What the steps need not know of each other.
MoreTypes ==
    /\ fresh \subseteq Agents /\ queue \subseteq Agents /\ delayed \subseteq Agents
    /\ clients \subseteq Agents /\ accepted \subseteq Agents
    /\ payload \in {"none", "partial", "complete"}
    /\ probe \in [Probes -> {"idle", "waiting", "reading"}]
    /\ edits \in 0..MaxUpsets /\ restarts \in 0..MaxUpsets
    /\ orphaned \subseteq Agents \X Id

\* A status that has gone through Reconcile as far as it claims.
WellFormed(o) ==
    /\ o.available <=> o.lastSnapshotTime
    /\ o.lastSnapshotTime => o.clusterUID

\* While the copy is of the stored version it differs from the stored object at
\* most by what this call of Reconcile has done.
StatusInv ==
    /\ \A a \in Agents :
        /\ WellFormed(object[a]) /\ WellFormed(cache[a])
        /\ object[a].lastSnapshotTime => a \in accepted
        /\ object[a].clusterUID \/ a \in accepted => object[a].exists
        /\ a \in fresh => cache[a] = object[a]
    /\ WellFormed(copy)
    /\ pc \notin Cleaning \cup {"idle"} => copy.exists
    /\ pc \in {"manager", "ready", "sync", "snapshot", "heartbeat"} => copy.clusterUID
    /\ pc = "heartbeat" => copy.lastSnapshotTime
    /\ copyFresh => /\ pc # "idle"
                    /\ object[key].exists = copy.exists
                    /\ object[key].clusterUID => copy.clusterUID
                    /\ object[key].lastSnapshotTime => copy.lastSnapshotTime
                    /\ copy.lastSnapshotTime => key \in accepted

\* An agent that appears while its cleanup is under way is already queued again.
ScheduleInv ==
    /\ AlwaysRescheduled
    /\ pc \in Cleaning => (cache[key].exists => key \in queue \cup delayed)

\* Reconcile works on a client that is in the map, and removes one under the lock.
ClientInv ==
    /\ pc \in {"uid", "manager", "ready", "sync", "snapshot", "heartbeat"} => key \in clients
    /\ \A a \in Agents : a \notin clients => manager[a] = 0
    /\ LockHeld => NoReader

\* ManagersOwned, also for managers whose Start has not run yet, and what remains of
\* it when the client has been stopped and is about to go.
Alive == Running \cup {"created"}
OwnerInv ==
    /\ \A a \in Agents, n \in Id :
        mgr[a][n] \in Alive => (a \in clients /\ manager[a] = n) \/ <<a, n>> \in orphaned
    /\ pc = "removing" => \A n \in Id : mgr[key][n] \in Alive => <<key, n>> \in orphaned
    /\ \A a \in Agents, n \in Id : n > made[a] => mgr[a][n] = "none"

\* No more managers than objects.  An agent without a manager, or about to lose it,
\* has one to spare when the cache, or the object behind the cache, would make
\* Reconcile create one; Reconcile itself may be working on an even older object.
Gone(a) == manager[a] = 0 \/ (key = a /\ pc \in Cleaning)
Hidden(a) == ~cache[a].exists /\ object[a].exists
CountOf(a) ==
    /\ manager[a] <= made[a] /\ made[a] <= created[a]
    /\ object[a].exists \/ cache[a].exists => created[a] > 0
    /\ Hidden(a) => made[a] < created[a]
    /\ Gone(a) /\ cache[a].exists => made[a] < created[a]
    /\ key = a /\ manager[a] = 0 /\ copy.exists
        => made[a] + (IF Hidden(a) THEN 2 ELSE 1) <= created[a]
CountInv ==
    /\ \A a \in Agents : CountOf(a)
    /\ pc \in Cleaning => ~copy.exists

IInv == Types /\ MoreTypes /\ StatusInv /\ ScheduleInv /\ ClientInv /\ OwnerInv /\ CountInv
-----------------------------------------------------------------------------
(* Types *)

LEMMA TypesInductive ==
    Types /\ [Next]_vars => Types'
  <1> SUFFICES ASSUME Types, [Next]_vars PROVE Types'
    OBVIOUS
  <1> USE ReconcilerAssumption DEF Goto, Return, Requeue, Changed, SetMgr, Cleaning, apiVars,
          workVars, clientVars, historyVars, Types, Place, Object, NoObject, MgrState,
          Started, Id
  <1>1. CASE Cleanup
    BY <1>1 DEF Cleanup
  <1>1a. CASE CleanupLocks
    BY <1>1a DEF CleanupLocks
  <1>1b. CASE CleanupStops
    BY <1>1b DEF CleanupStops
  <1>1c. CASE CleanupStopped
    BY <1>1c DEF CleanupStopped
  <1>2. CASE GetClient
    BY <1>2 DEF GetClient
  <1>2a. CASE CreateClient
    BY <1>2a DEF CreateClient
  <1>3. CASE GetClientFails
    BY <1>3 DEF GetClientFails
  <1>4. CASE GetClusterUID
    BY <1>4 DEF GetClusterUID
  <1>5. CASE GetClusterUIDFails
    BY <1>5 DEF GetClusterUIDFails
  <1>6. CASE StartIngestionManager
    <2>1. key \in Agents /\ made[key] + 1 \in Nat
      BY <1>6 DEF StartIngestionManager
    <2>2. \A f \in [Id -> MgrState], n \in Nat : [f EXCEPT ![n] = "created"] \in [Id -> MgrState]
      OBVIOUS
    <2>3. mgr' = [mgr EXCEPT ![key] = [mgr[key] EXCEPT ![made[key] + 1] = "created"]]
      BY <1>6 DEF StartIngestionManager
    <2>4. mgr' \in [Agents -> [Id -> MgrState]]
      BY <2>1, <2>2, <2>3
    <2>5. made' \in [Agents -> Nat] /\ manager' \in [Agents -> Nat]
      BY <1>6, <2>1 DEF StartIngestionManager
    <2>6. QED
      BY <1>6, <2>4, <2>5 DEF StartIngestionManager
  <1>7. CASE HasManager
    BY <1>7 DEF HasManager
  <1>8. CASE ManagerReady
    BY <1>8 DEF ManagerReady
  <1>9. CASE ManagerNotReady
    BY <1>9 DEF ManagerNotReady
  <1>10. CASE BuildSnapshot
    BY <1>10 DEF BuildSnapshot
  <1>11. CASE BuildSnapshotFails
    BY <1>11 DEF BuildSnapshotFails
  <1>12. CASE SnapshotAccepted
    BY <1>12 DEF SnapshotAccepted
  <1>13. CASE SnapshotFails
    BY <1>13 DEF SnapshotFails
  <1>14. CASE GetResourceCounts
    BY <1>14 DEF GetResourceCounts
  <1>15. CASE HeartbeatAccepted
    BY <1>15 DEF HeartbeatAccepted
  <1>16. CASE HeartbeatFails
    BY <1>16 DEF HeartbeatFails
  <1>17. CASE WriteStatus
    BY <1>17 DEF WriteStatus, VersionMatches
  <1>18. CASE WriteStatusFails
    BY <1>18 DEF WriteStatusFails
  <1>19. ASSUME NEW a \in Agents, Fetch(a) PROVE Types'
    BY <1>19 DEF Fetch
  <1>19a. ASSUME NEW a \in Agents, FetchFails(a) PROVE Types'
    BY <1>19a DEF FetchFails
  <1>20. ASSUME NEW a \in Agents, CreateAgent(a) PROVE Types'
    <2>1. created[a] + 1 \in 0..MaxObjects
      BY <1>20 DEF CreateAgent
    <2>2. created' \in [Agents -> 0..MaxObjects]
      BY <1>20, <2>1 DEF CreateAgent
    <2>3. QED
      BY <1>20, <2>2 DEF CreateAgent
  <1>21. ASSUME NEW a \in Agents, DeleteAgent(a) PROVE Types'
    BY <1>21 DEF DeleteAgent
  <1>22. ASSUME NEW a \in Agents, EditAgent(a) PROVE Types'
    BY <1>22 DEF EditAgent
  <1>23. ASSUME NEW a \in Agents, Deliver(a) PROVE Types'
    BY <1>23 DEF Deliver
  <1>24. ASSUME NEW a \in Agents, TimerFires(a) PROVE Types'
    BY <1>24 DEF TimerFires
  <1>25. ASSUME NEW a \in Agents, NEW n \in Id, ManagerStart(a, n) PROVE Types'
    BY <1>25 DEF ManagerStart
  <1>26. ASSUME NEW a \in Agents, NEW n \in Id, ManagerStartFails(a, n) PROVE Types'
    BY <1>26 DEF ManagerStartFails
  <1>27. ASSUME NEW a \in Agents, NEW n \in Id, CachesSync(a, n) PROVE Types'
    BY <1>27 DEF CachesSync
  <1>28. ASSUME NEW a \in Agents, NEW n \in Id, CachesTimeout(a, n) PROVE Types'
    BY <1>28 DEF CachesTimeout
  <1>28b. ASSUME NEW a \in Agents, NEW n \in Id, ManagerEnds(a, n) PROVE Types'
    BY <1>28b DEF ManagerEnds
  <1>28a. ASSUME NEW p \in Probes, ProbeArrives(p) \/ ProbeReads(p) \/ ProbeAnswers(p) PROVE Types'
    BY <1>28a DEF ProbeArrives, ProbeReads, ProbeAnswers, SetProbe
  <1>29. CASE ResourceChanged
    BY <1>29 DEF ResourceChanged
  <1>30. CASE Restart
    BY <1>30 DEF Restart, EmptyProcess
  <1>31. CASE UNCHANGED vars
    BY <1>31 DEF vars, historyVars
  <1>32. QED
    BY <1>1, <1>1a, <1>1b, <1>1c, <1>2, <1>2a, <1>3, <1>4, <1>5, <1>6, <1>7, <1>8, <1>9, <1>10, <1>11, <1>12,
    <1>13, <1>14, <1>15, <1>16, <1>17, <1>18, <1>19, <1>19a, <1>20, <1>21, <1>22, <1>23,
    <1>24, <1>25, <1>26, <1>27, <1>28, <1>28b, <1>28a, <1>29, <1>30, <1>31
    DEF Next, Worker, Goroutine

LEMMA MoreTypesInductive ==
    Types /\ MoreTypes /\ CountInv /\ [Next]_vars => MoreTypes'
  <1> SUFFICES ASSUME Types, MoreTypes, CountInv, [Next]_vars PROVE MoreTypes'
    OBVIOUS
  <1> USE ReconcilerAssumption DEF Goto, Return, Requeue, Changed, SetMgr, Cleaning, apiVars,
          workVars, clientVars, historyVars, Types, Place, MoreTypes, Id
  <1>1. CASE Cleanup
    BY <1>1 DEF Cleanup
  <1>1a. CASE CleanupLocks
    BY <1>1a DEF CleanupLocks
  <1>1b. CASE CleanupStops
    BY <1>1b DEF CleanupStops
  <1>1c. CASE CleanupStopped
    <2>1. manager[key] \in 0..MaxObjects
      BY <1>1c DEF CleanupStopped, CountInv, CountOf
    <2>2. QED
      BY <1>1c, <2>1 DEF CleanupStopped, MgrIs
  <1>2. CASE GetClient
    BY <1>2 DEF GetClient
  <1>2a. CASE CreateClient
    BY <1>2a DEF CreateClient
  <1>3. CASE GetClientFails
    BY <1>3 DEF GetClientFails
  <1>4. CASE GetClusterUID
    BY <1>4 DEF GetClusterUID
  <1>5. CASE GetClusterUIDFails
    BY <1>5 DEF GetClusterUIDFails
  <1>6. CASE StartIngestionManager
    BY <1>6 DEF StartIngestionManager, NeedsManager
  <1>7. CASE HasManager
    BY <1>7 DEF HasManager
  <1>8. CASE ManagerReady
    BY <1>8 DEF ManagerReady
  <1>9. CASE ManagerNotReady
    BY <1>9 DEF ManagerNotReady
  <1>10. CASE BuildSnapshot
    BY <1>10 DEF BuildSnapshot
  <1>11. CASE BuildSnapshotFails
    BY <1>11 DEF BuildSnapshotFails
  <1>12. CASE SnapshotAccepted
    BY <1>12 DEF SnapshotAccepted
  <1>13. CASE SnapshotFails
    BY <1>13 DEF SnapshotFails
  <1>14. CASE GetResourceCounts
    BY <1>14 DEF GetResourceCounts
  <1>15. CASE HeartbeatAccepted
    BY <1>15 DEF HeartbeatAccepted
  <1>16. CASE HeartbeatFails
    BY <1>16 DEF HeartbeatFails
  <1>17. CASE WriteStatus
    BY <1>17 DEF WriteStatus, VersionMatches
  <1>18. CASE WriteStatusFails
    BY <1>18 DEF WriteStatusFails
  <1>19. ASSUME NEW a \in Agents, Fetch(a) PROVE MoreTypes'
    BY <1>19 DEF Fetch
  <1>19a. ASSUME NEW a \in Agents, FetchFails(a) PROVE MoreTypes'
    BY <1>19a DEF FetchFails
  <1>20. ASSUME NEW a \in Agents, CreateAgent(a) PROVE MoreTypes'
    BY <1>20 DEF CreateAgent
  <1>21. ASSUME NEW a \in Agents, DeleteAgent(a) PROVE MoreTypes'
    BY <1>21 DEF DeleteAgent
  <1>22. ASSUME NEW a \in Agents, EditAgent(a) PROVE MoreTypes'
    BY <1>22 DEF EditAgent
  <1>23. ASSUME NEW a \in Agents, Deliver(a) PROVE MoreTypes'
    BY <1>23 DEF Deliver
  <1>24. ASSUME NEW a \in Agents, TimerFires(a) PROVE MoreTypes'
    BY <1>24 DEF TimerFires
  <1>25. ASSUME NEW a \in Agents, NEW n \in Id, ManagerStart(a, n) PROVE MoreTypes'
    BY <1>25 DEF ManagerStart
  <1>26. ASSUME NEW a \in Agents, NEW n \in Id, ManagerStartFails(a, n) PROVE MoreTypes'
    BY <1>26 DEF ManagerStartFails
  <1>27. ASSUME NEW a \in Agents, NEW n \in Id, CachesSync(a, n) PROVE MoreTypes'
    BY <1>27 DEF CachesSync
  <1>28. ASSUME NEW a \in Agents, NEW n \in Id, CachesTimeout(a, n) PROVE MoreTypes'
    BY <1>28 DEF CachesTimeout
  <1>28b. ASSUME NEW a \in Agents, NEW n \in Id, ManagerEnds(a, n) PROVE MoreTypes'
    BY <1>28b DEF ManagerEnds
  <1>28a. ASSUME NEW p \in Probes, ProbeArrives(p) \/ ProbeReads(p) \/ ProbeAnswers(p) PROVE MoreTypes'
    BY <1>28a DEF ProbeArrives, ProbeReads, ProbeAnswers, SetProbe
  <1>29. CASE ResourceChanged
    BY <1>29 DEF ResourceChanged
  <1>30. CASE Restart
    BY <1>30 DEF Restart, EmptyProcess
  <1>31. CASE UNCHANGED vars
    BY <1>31 DEF vars, historyVars
  <1>32. QED
    BY <1>1, <1>1a, <1>1b, <1>1c, <1>2, <1>2a, <1>3, <1>4, <1>5, <1>6, <1>7, <1>8, <1>9, <1>10, <1>11, <1>12,
    <1>13, <1>14, <1>15, <1>16, <1>17, <1>18, <1>19, <1>19a, <1>20, <1>21, <1>22, <1>23,
    <1>24, <1>25, <1>26, <1>27, <1>28, <1>28b, <1>28a, <1>29, <1>30, <1>31
    DEF Next, Worker, Goroutine

-----------------------------------------------------------------------------
(* The status *)

LEMMA StatusInductive ==
    Types /\ StatusInv /\ [Next]_vars => StatusInv'
  <1> SUFFICES ASSUME Types, StatusInv, [Next]_vars PROVE StatusInv'
    OBVIOUS
  <1> USE ReconcilerAssumption DEF Goto, Return, Requeue, Changed, SetMgr, Cleaning, apiVars,
          workVars, clientVars, historyVars, Types, Place, Object, NoObject, StatusInv,
          WellFormed
  <1>1. CASE Cleanup
    BY <1>1 DEF Cleanup
  <1>1a. CASE CleanupLocks
    BY <1>1a DEF CleanupLocks
  <1>1b. CASE CleanupStops
    BY <1>1b DEF CleanupStops
  <1>1c. CASE CleanupStopped
    BY <1>1c DEF CleanupStopped
  <1>2. CASE GetClient
    BY <1>2 DEF GetClient
  <1>2a. CASE CreateClient
    BY <1>2a DEF CreateClient
  <1>3. CASE GetClientFails
    BY <1>3 DEF GetClientFails
  <1>4. CASE GetClusterUID
    BY <1>4 DEF GetClusterUID
  <1>5. CASE GetClusterUIDFails
    BY <1>5 DEF GetClusterUIDFails
  <1>6. CASE StartIngestionManager
    BY <1>6 DEF StartIngestionManager, NeedsManager
  <1>7. CASE HasManager
    BY <1>7 DEF HasManager
  <1>8. CASE ManagerReady
    BY <1>8 DEF ManagerReady
  <1>9. CASE ManagerNotReady
    BY <1>9 DEF ManagerNotReady
  <1>10. CASE BuildSnapshot
    BY <1>10 DEF BuildSnapshot
  <1>11. CASE BuildSnapshotFails
    BY <1>11 DEF BuildSnapshotFails
  <1>12. CASE SnapshotAccepted
    BY <1>12 DEF SnapshotAccepted
  <1>13. CASE SnapshotFails
    BY <1>13 DEF SnapshotFails
  <1>14. CASE GetResourceCounts
    BY <1>14 DEF GetResourceCounts
  <1>15. CASE HeartbeatAccepted
    BY <1>15 DEF HeartbeatAccepted
  <1>16. CASE HeartbeatFails
    BY <1>16 DEF HeartbeatFails
  <1>17. CASE WriteStatus
    BY <1>17 DEF WriteStatus, VersionMatches
  <1>18. CASE WriteStatusFails
    BY <1>18 DEF WriteStatusFails
  <1>19. ASSUME NEW a \in Agents, Fetch(a) PROVE StatusInv'
    BY <1>19 DEF Fetch
  <1>19a. ASSUME NEW a \in Agents, FetchFails(a) PROVE StatusInv'
    BY <1>19a DEF FetchFails
  <1>20. ASSUME NEW a \in Agents, CreateAgent(a) PROVE StatusInv'
    BY <1>20 DEF CreateAgent
  <1>21. ASSUME NEW a \in Agents, DeleteAgent(a) PROVE StatusInv'
    BY <1>21 DEF DeleteAgent
  <1>22. ASSUME NEW a \in Agents, EditAgent(a) PROVE StatusInv'
    BY <1>22 DEF EditAgent
  <1>23. ASSUME NEW a \in Agents, Deliver(a) PROVE StatusInv'
    BY <1>23 DEF Deliver
  <1>24. ASSUME NEW a \in Agents, TimerFires(a) PROVE StatusInv'
    BY <1>24 DEF TimerFires
  <1>25. ASSUME NEW a \in Agents, NEW n \in Id, ManagerStart(a, n) PROVE StatusInv'
    BY <1>25 DEF ManagerStart
  <1>26. ASSUME NEW a \in Agents, NEW n \in Id, ManagerStartFails(a, n) PROVE StatusInv'
    BY <1>26 DEF ManagerStartFails
  <1>27. ASSUME NEW a \in Agents, NEW n \in Id, CachesSync(a, n) PROVE StatusInv'
    BY <1>27 DEF CachesSync
  <1>28. ASSUME NEW a \in Agents, NEW n \in Id, CachesTimeout(a, n) PROVE StatusInv'
    BY <1>28 DEF CachesTimeout
  <1>28b. ASSUME NEW a \in Agents, NEW n \in Id, ManagerEnds(a, n) PROVE StatusInv'
    BY <1>28b DEF ManagerEnds
  <1>28a. ASSUME NEW p \in Probes, ProbeArrives(p) \/ ProbeReads(p) \/ ProbeAnswers(p) PROVE StatusInv'
    BY <1>28a DEF ProbeArrives, ProbeReads, ProbeAnswers, SetProbe
  <1>29. CASE ResourceChanged
    BY <1>29 DEF ResourceChanged
  <1>30. CASE Restart
    BY <1>30 DEF Restart, EmptyProcess
  <1>31. CASE UNCHANGED vars
    BY <1>31 DEF vars, historyVars
  <1>32. QED
    BY <1>1, <1>1a, <1>1b, <1>1c, <1>2, <1>2a, <1>3, <1>4, <1>5, <1>6, <1>7, <1>8, <1>9, <1>10, <1>11, <1>12,
    <1>13, <1>14, <1>15, <1>16, <1>17, <1>18, <1>19, <1>19a, <1>20, <1>21, <1>22, <1>23,
    <1>24, <1>25, <1>26, <1>27, <1>28, <1>28b, <1>28a, <1>29, <1>30, <1>31
    DEF Next, Worker, Goroutine

-----------------------------------------------------------------------------
(* The schedule *)

LEMMA ScheduleInductive ==
    Types /\ ScheduleInv /\ [Next]_vars => ScheduleInv'
  <1> SUFFICES ASSUME Types, ScheduleInv, [Next]_vars PROVE ScheduleInv'
    OBVIOUS
  <1> USE ReconcilerAssumption DEF Goto, Return, Requeue, Changed, SetMgr, Cleaning, apiVars,
          workVars, clientVars, historyVars, Types, Place, Object, NoObject,
          ScheduleInv, AlwaysRescheduled
  <1>1. CASE Cleanup
    BY <1>1 DEF Cleanup
  <1>1a. CASE CleanupLocks
    BY <1>1a DEF CleanupLocks
  <1>1b. CASE CleanupStops
    BY <1>1b DEF CleanupStops
  <1>1c. CASE CleanupStopped
    BY <1>1c DEF CleanupStopped
  <1>2. CASE GetClient
    BY <1>2 DEF GetClient
  <1>2a. CASE CreateClient
    BY <1>2a DEF CreateClient
  <1>3. CASE GetClientFails
    BY <1>3 DEF GetClientFails
  <1>4. CASE GetClusterUID
    BY <1>4 DEF GetClusterUID
  <1>5. CASE GetClusterUIDFails
    BY <1>5 DEF GetClusterUIDFails
  <1>6. CASE StartIngestionManager
    BY <1>6 DEF StartIngestionManager, NeedsManager
  <1>7. CASE HasManager
    BY <1>7 DEF HasManager
  <1>8. CASE ManagerReady
    BY <1>8 DEF ManagerReady
  <1>9. CASE ManagerNotReady
    BY <1>9 DEF ManagerNotReady
  <1>10. CASE BuildSnapshot
    BY <1>10 DEF BuildSnapshot
  <1>11. CASE BuildSnapshotFails
    BY <1>11 DEF BuildSnapshotFails
  <1>12. CASE SnapshotAccepted
    BY <1>12 DEF SnapshotAccepted
  <1>13. CASE SnapshotFails
    BY <1>13 DEF SnapshotFails
  <1>14. CASE GetResourceCounts
    BY <1>14 DEF GetResourceCounts
  <1>15. CASE HeartbeatAccepted
    BY <1>15 DEF HeartbeatAccepted
  <1>16. CASE HeartbeatFails
    BY <1>16 DEF HeartbeatFails
  <1>17. CASE WriteStatus
    BY <1>17 DEF WriteStatus, VersionMatches
  <1>18. CASE WriteStatusFails
    BY <1>18 DEF WriteStatusFails
  <1>19. ASSUME NEW a \in Agents, Fetch(a) PROVE ScheduleInv'
    BY <1>19 DEF Fetch
  <1>19a. ASSUME NEW a \in Agents, FetchFails(a) PROVE ScheduleInv'
    BY <1>19a DEF FetchFails
  <1>20. ASSUME NEW a \in Agents, CreateAgent(a) PROVE ScheduleInv'
    BY <1>20 DEF CreateAgent
  <1>21. ASSUME NEW a \in Agents, DeleteAgent(a) PROVE ScheduleInv'
    BY <1>21 DEF DeleteAgent
  <1>22. ASSUME NEW a \in Agents, EditAgent(a) PROVE ScheduleInv'
    BY <1>22 DEF EditAgent
  <1>23. ASSUME NEW a \in Agents, Deliver(a) PROVE ScheduleInv'
    BY <1>23 DEF Deliver
  <1>24. ASSUME NEW a \in Agents, TimerFires(a) PROVE ScheduleInv'
    BY <1>24 DEF TimerFires
  <1>25. ASSUME NEW a \in Agents, NEW n \in Id, ManagerStart(a, n) PROVE ScheduleInv'
    BY <1>25 DEF ManagerStart
  <1>26. ASSUME NEW a \in Agents, NEW n \in Id, ManagerStartFails(a, n) PROVE ScheduleInv'
    BY <1>26 DEF ManagerStartFails
  <1>27. ASSUME NEW a \in Agents, NEW n \in Id, CachesSync(a, n) PROVE ScheduleInv'
    BY <1>27 DEF CachesSync
  <1>28. ASSUME NEW a \in Agents, NEW n \in Id, CachesTimeout(a, n) PROVE ScheduleInv'
    BY <1>28 DEF CachesTimeout
  <1>28b. ASSUME NEW a \in Agents, NEW n \in Id, ManagerEnds(a, n) PROVE ScheduleInv'
    BY <1>28b DEF ManagerEnds
  <1>28a. ASSUME NEW p \in Probes, ProbeArrives(p) \/ ProbeReads(p) \/ ProbeAnswers(p) PROVE ScheduleInv'
    BY <1>28a DEF ProbeArrives, ProbeReads, ProbeAnswers, SetProbe
  <1>29. CASE ResourceChanged
    BY <1>29 DEF ResourceChanged
  <1>30. CASE Restart
    BY <1>30 DEF Restart, EmptyProcess
  <1>31. CASE UNCHANGED vars
    BY <1>31 DEF vars, historyVars
  <1>32. QED
    BY <1>1, <1>1a, <1>1b, <1>1c, <1>2, <1>2a, <1>3, <1>4, <1>5, <1>6, <1>7, <1>8, <1>9, <1>10, <1>11, <1>12,
    <1>13, <1>14, <1>15, <1>16, <1>17, <1>18, <1>19, <1>19a, <1>20, <1>21, <1>22, <1>23,
    <1>24, <1>25, <1>26, <1>27, <1>28, <1>28b, <1>28a, <1>29, <1>30, <1>31
    DEF Next, Worker, Goroutine

-----------------------------------------------------------------------------
(* Clients and managers *)

LEMMA ClientInductive ==
    Types /\ MoreTypes /\ ClientInv /\ [Next]_vars => ClientInv'
  <1> SUFFICES ASSUME Types, MoreTypes, ClientInv, [Next]_vars PROVE ClientInv'
    OBVIOUS
  <1> USE ReconcilerAssumption DEF Goto, Return, Requeue, Changed, SetMgr, Cleaning, apiVars,
          workVars, clientVars, historyVars, Types, Place, ClientInv, LockHeld, LockAsked,
          NoReader
  <1>1. CASE Cleanup
    BY <1>1 DEF Cleanup
  <1>1a. CASE CleanupLocks
    BY <1>1a DEF CleanupLocks
  <1>1b. CASE CleanupStops
    BY <1>1b DEF CleanupStops
  <1>1c. CASE CleanupStopped
    BY <1>1c DEF CleanupStopped
  <1>2. CASE GetClient
    BY <1>2 DEF GetClient
  <1>2a. CASE CreateClient
    BY <1>2a DEF CreateClient
  <1>3. CASE GetClientFails
    BY <1>3 DEF GetClientFails
  <1>4. CASE GetClusterUID
    BY <1>4 DEF GetClusterUID
  <1>5. CASE GetClusterUIDFails
    BY <1>5 DEF GetClusterUIDFails
  <1>6. CASE StartIngestionManager
    BY <1>6 DEF StartIngestionManager, NeedsManager
  <1>7. CASE HasManager
    BY <1>7 DEF HasManager
  <1>8. CASE ManagerReady
    BY <1>8 DEF ManagerReady
  <1>9. CASE ManagerNotReady
    BY <1>9 DEF ManagerNotReady
  <1>10. CASE BuildSnapshot
    BY <1>10 DEF BuildSnapshot
  <1>11. CASE BuildSnapshotFails
    BY <1>11 DEF BuildSnapshotFails
  <1>12. CASE SnapshotAccepted
    BY <1>12 DEF SnapshotAccepted
  <1>13. CASE SnapshotFails
    BY <1>13 DEF SnapshotFails
  <1>14. CASE GetResourceCounts
    BY <1>14 DEF GetResourceCounts
  <1>15. CASE HeartbeatAccepted
    BY <1>15 DEF HeartbeatAccepted
  <1>16. CASE HeartbeatFails
    BY <1>16 DEF HeartbeatFails
  <1>17. CASE WriteStatus
    BY <1>17 DEF WriteStatus, VersionMatches
  <1>18. CASE WriteStatusFails
    BY <1>18 DEF WriteStatusFails
  <1>19. ASSUME NEW a \in Agents, Fetch(a) PROVE ClientInv'
    BY <1>19 DEF Fetch
  <1>19a. ASSUME NEW a \in Agents, FetchFails(a) PROVE ClientInv'
    BY <1>19a DEF FetchFails
  <1>20. ASSUME NEW a \in Agents, CreateAgent(a) PROVE ClientInv'
    BY <1>20 DEF CreateAgent
  <1>21. ASSUME NEW a \in Agents, DeleteAgent(a) PROVE ClientInv'
    BY <1>21 DEF DeleteAgent
  <1>22. ASSUME NEW a \in Agents, EditAgent(a) PROVE ClientInv'
    BY <1>22 DEF EditAgent
  <1>23. ASSUME NEW a \in Agents, Deliver(a) PROVE ClientInv'
    BY <1>23 DEF Deliver
  <1>24. ASSUME NEW a \in Agents, TimerFires(a) PROVE ClientInv'
    BY <1>24 DEF TimerFires
  <1>25. ASSUME NEW a \in Agents, NEW n \in Id, ManagerStart(a, n) PROVE ClientInv'
    BY <1>25 DEF ManagerStart
  <1>26. ASSUME NEW a \in Agents, NEW n \in Id, ManagerStartFails(a, n) PROVE ClientInv'
    BY <1>26 DEF ManagerStartFails
  <1>27. ASSUME NEW a \in Agents, NEW n \in Id, CachesSync(a, n) PROVE ClientInv'
    BY <1>27 DEF CachesSync
  <1>28. ASSUME NEW a \in Agents, NEW n \in Id, CachesTimeout(a, n) PROVE ClientInv'
    BY <1>28 DEF CachesTimeout
  <1>28b. ASSUME NEW a \in Agents, NEW n \in Id, ManagerEnds(a, n) PROVE ClientInv'
    BY <1>28b DEF ManagerEnds
  <1>28a. ASSUME NEW p \in Probes, ProbeArrives(p) \/ ProbeReads(p) \/ ProbeAnswers(p) PROVE ClientInv'
    <2>1. LockHeld => probe'[p] # "reading"
      BY <1>28a DEF ProbeArrives, ProbeReads, ProbeAnswers, SetProbe, MoreTypes
    <2>2. \A q \in Probes \ {p} : probe'[q] = probe[q]
      BY <1>28a DEF ProbeArrives, ProbeReads, ProbeAnswers, SetProbe, MoreTypes
    <2>3. QED
      BY <1>28a, <2>1, <2>2 DEF ProbeArrives, ProbeReads, ProbeAnswers, SetProbe
  <1>29. CASE ResourceChanged
    BY <1>29 DEF ResourceChanged
  <1>30. CASE Restart
    BY <1>30 DEF Restart, EmptyProcess
  <1>31. CASE UNCHANGED vars
    BY <1>31 DEF vars, historyVars
  <1>32. QED
    BY <1>1, <1>1a, <1>1b, <1>1c, <1>2, <1>2a, <1>3, <1>4, <1>5, <1>6, <1>7, <1>8, <1>9, <1>10, <1>11, <1>12,
    <1>13, <1>14, <1>15, <1>16, <1>17, <1>18, <1>19, <1>19a, <1>20, <1>21, <1>22, <1>23,
    <1>24, <1>25, <1>26, <1>27, <1>28, <1>28b, <1>28a, <1>29, <1>30, <1>31
    DEF Next, Worker, Goroutine

LEMMA OwnerInductive ==
    Types /\ ClientInv /\ OwnerInv /\ [Next]_vars => OwnerInv'
  <1> SUFFICES ASSUME Types, ClientInv, OwnerInv, [Next]_vars PROVE OwnerInv'
    OBVIOUS
  <1> USE ReconcilerAssumption DEF Goto, Return, Requeue, Changed, SetMgr, Cleaning, apiVars,
          workVars, clientVars, historyVars, Types, Place, ClientInv, OwnerInv, Alive,
          MgrState, Started, Running, MgrIs, IsStarted, IsUnlocked, Id
  <1>1. CASE Cleanup
    BY <1>1 DEF Cleanup
  <1>1a. CASE CleanupLocks
    BY <1>1a DEF CleanupLocks
  <1>1b. CASE CleanupStops
    BY <1>1b DEF CleanupStops
  <1>1c. CASE CleanupStopped
    BY <1>1c DEF CleanupStopped
  <1>2. CASE GetClient
    BY <1>2 DEF GetClient
  <1>2a. CASE CreateClient
    BY <1>2a DEF CreateClient
  <1>3. CASE GetClientFails
    BY <1>3 DEF GetClientFails
  <1>4. CASE GetClusterUID
    BY <1>4 DEF GetClusterUID
  <1>5. CASE GetClusterUIDFails
    BY <1>5 DEF GetClusterUIDFails
  <1>6. CASE StartIngestionManager
    BY <1>6 DEF StartIngestionManager, NeedsManager
  <1>7. CASE HasManager
    BY <1>7 DEF HasManager
  <1>8. CASE ManagerReady
    BY <1>8 DEF ManagerReady
  <1>9. CASE ManagerNotReady
    BY <1>9 DEF ManagerNotReady
  <1>10. CASE BuildSnapshot
    BY <1>10 DEF BuildSnapshot
  <1>11. CASE BuildSnapshotFails
    BY <1>11 DEF BuildSnapshotFails
  <1>12. CASE SnapshotAccepted
    BY <1>12 DEF SnapshotAccepted
  <1>13. CASE SnapshotFails
    BY <1>13 DEF SnapshotFails
  <1>14. CASE GetResourceCounts
    BY <1>14 DEF GetResourceCounts
  <1>15. CASE HeartbeatAccepted
    BY <1>15 DEF HeartbeatAccepted
  <1>16. CASE HeartbeatFails
    BY <1>16 DEF HeartbeatFails
  <1>17. CASE WriteStatus
    BY <1>17 DEF WriteStatus, VersionMatches
  <1>18. CASE WriteStatusFails
    BY <1>18 DEF WriteStatusFails
  <1>19. ASSUME NEW a \in Agents, Fetch(a) PROVE OwnerInv'
    BY <1>19 DEF Fetch
  <1>19a. ASSUME NEW a \in Agents, FetchFails(a) PROVE OwnerInv'
    BY <1>19a DEF FetchFails
  <1>20. ASSUME NEW a \in Agents, CreateAgent(a) PROVE OwnerInv'
    BY <1>20 DEF CreateAgent
  <1>21. ASSUME NEW a \in Agents, DeleteAgent(a) PROVE OwnerInv'
    BY <1>21 DEF DeleteAgent
  <1>22. ASSUME NEW a \in Agents, EditAgent(a) PROVE OwnerInv'
    BY <1>22 DEF EditAgent
  <1>23. ASSUME NEW a \in Agents, Deliver(a) PROVE OwnerInv'
    BY <1>23 DEF Deliver
  <1>24. ASSUME NEW a \in Agents, TimerFires(a) PROVE OwnerInv'
    BY <1>24 DEF TimerFires
  <1>25. ASSUME NEW a \in Agents, NEW n \in Id, ManagerStart(a, n) PROVE OwnerInv'
    BY <1>25 DEF ManagerStart
  <1>26. ASSUME NEW a \in Agents, NEW n \in Id, ManagerStartFails(a, n) PROVE OwnerInv'
    BY <1>26 DEF ManagerStartFails
  <1>27. ASSUME NEW a \in Agents, NEW n \in Id, CachesSync(a, n) PROVE OwnerInv'
    BY <1>27 DEF CachesSync
  <1>28. ASSUME NEW a \in Agents, NEW n \in Id, CachesTimeout(a, n) PROVE OwnerInv'
    BY <1>28 DEF CachesTimeout
  <1>28b. ASSUME NEW a \in Agents, NEW n \in Id, ManagerEnds(a, n) PROVE OwnerInv'
    BY <1>28b DEF ManagerEnds
  <1>28a. ASSUME NEW p \in Probes, ProbeArrives(p) \/ ProbeReads(p) \/ ProbeAnswers(p) PROVE OwnerInv'
    BY <1>28a DEF ProbeArrives, ProbeReads, ProbeAnswers, SetProbe
  <1>29. CASE ResourceChanged
    BY <1>29 DEF ResourceChanged
  <1>30. CASE Restart
    BY <1>30 DEF Restart, EmptyProcess
  <1>31. CASE UNCHANGED vars
    BY <1>31 DEF vars, historyVars
  <1>32. QED
    BY <1>1, <1>1a, <1>1b, <1>1c, <1>2, <1>2a, <1>3, <1>4, <1>5, <1>6, <1>7, <1>8, <1>9, <1>10, <1>11, <1>12,
    <1>13, <1>14, <1>15, <1>16, <1>17, <1>18, <1>19, <1>19a, <1>20, <1>21, <1>22, <1>23,
    <1>24, <1>25, <1>26, <1>27, <1>28, <1>28b, <1>28a, <1>29, <1>30, <1>31
    DEF Next, Worker, Goroutine

LEMMA CountInductive ==
    Types /\ StatusInv /\ CountInv /\ [Next]_vars => CountInv'
  <1> SUFFICES ASSUME Types, StatusInv, CountInv, [Next]_vars PROVE CountInv'
    OBVIOUS
  <1> USE ReconcilerAssumption DEF Goto, Return, Requeue, Changed, SetMgr, Cleaning, apiVars,
          workVars, clientVars, historyVars, Types, Place, Object, NoObject,
          StatusInv, CountInv, CountOf, Gone, Hidden
  <1>1. CASE Cleanup
    <2>1. ASSUME NEW b \in Agents PROVE CountOf(b)'
      <3>1. CASE b = key
        BY <1>1, <3>1 DEF Cleanup
      <3>2. CASE b # key
        BY <1>1, <3>2 DEF Cleanup
      <3>3. QED
        BY <3>1, <3>2
    <2>2. QED
      BY <1>1, <2>1 DEF Cleanup
  <1>1a. CASE CleanupLocks
    BY <1>1a DEF CleanupLocks
  <1>1b. CASE CleanupStops
    BY <1>1b DEF CleanupStops
  <1>1c. CASE CleanupStopped
    BY <1>1c DEF CleanupStopped
  <1>2. CASE GetClient
    BY <1>2 DEF GetClient
  <1>2a. CASE CreateClient
    BY <1>2a DEF CreateClient
  <1>3. CASE GetClientFails
    BY <1>3 DEF GetClientFails
  <1>4. CASE GetClusterUID
    BY <1>4 DEF GetClusterUID
  <1>5. CASE GetClusterUIDFails
    BY <1>5 DEF GetClusterUIDFails
  <1>6. CASE StartIngestionManager
    BY <1>6 DEF StartIngestionManager, NeedsManager
  <1>7. CASE HasManager
    BY <1>7 DEF HasManager
  <1>8. CASE ManagerReady
    BY <1>8 DEF ManagerReady
  <1>9. CASE ManagerNotReady
    BY <1>9 DEF ManagerNotReady
  <1>10. CASE BuildSnapshot
    BY <1>10 DEF BuildSnapshot
  <1>11. CASE BuildSnapshotFails
    BY <1>11 DEF BuildSnapshotFails
  <1>12. CASE SnapshotAccepted
    BY <1>12 DEF SnapshotAccepted
  <1>13. CASE SnapshotFails
    BY <1>13 DEF SnapshotFails
  <1>14. CASE GetResourceCounts
    BY <1>14 DEF GetResourceCounts
  <1>15. CASE HeartbeatAccepted
    BY <1>15 DEF HeartbeatAccepted
  <1>16. CASE HeartbeatFails
    BY <1>16 DEF HeartbeatFails
  <1>17. CASE WriteStatus
    BY <1>17 DEF WriteStatus, VersionMatches
  <1>18. CASE WriteStatusFails
    BY <1>18 DEF WriteStatusFails
  <1>19. ASSUME NEW a \in Agents, Fetch(a) PROVE CountInv'
    BY <1>19 DEF Fetch
  <1>19a. ASSUME NEW a \in Agents, FetchFails(a) PROVE CountInv'
    BY <1>19a DEF FetchFails
  <1>20. ASSUME NEW a \in Agents, CreateAgent(a) PROVE CountInv'
    <2>1. ASSUME NEW b \in Agents PROVE CountOf(b)'
      <3>1. CASE b = a
        BY <1>20, <3>1 DEF CreateAgent
      <3>2. CASE b # a
        BY <1>20, <3>2 DEF CreateAgent
      <3>3. QED
        BY <3>1, <3>2
    <2>2. QED
      BY <1>20, <2>1 DEF CreateAgent
  <1>21. ASSUME NEW a \in Agents, DeleteAgent(a) PROVE CountInv'
    <2>1. ASSUME NEW b \in Agents PROVE CountOf(b)'
      <3>1. CASE b = a
        BY <1>21, <3>1 DEF DeleteAgent
      <3>2. CASE b # a
        BY <1>21, <3>2 DEF DeleteAgent
      <3>3. QED
        BY <3>1, <3>2
    <2>2. QED
      BY <1>21, <2>1 DEF DeleteAgent
  <1>22. ASSUME NEW a \in Agents, EditAgent(a) PROVE CountInv'
    BY <1>22 DEF EditAgent
  <1>23. ASSUME NEW a \in Agents, Deliver(a) PROVE CountInv'
    BY <1>23 DEF Deliver
  <1>24. ASSUME NEW a \in Agents, TimerFires(a) PROVE CountInv'
    BY <1>24 DEF TimerFires
  <1>25. ASSUME NEW a \in Agents, NEW n \in Id, ManagerStart(a, n) PROVE CountInv'
    BY <1>25 DEF ManagerStart
  <1>26. ASSUME NEW a \in Agents, NEW n \in Id, ManagerStartFails(a, n) PROVE CountInv'
    BY <1>26 DEF ManagerStartFails
  <1>27. ASSUME NEW a \in Agents, NEW n \in Id, CachesSync(a, n) PROVE CountInv'
    BY <1>27 DEF CachesSync
  <1>28. ASSUME NEW a \in Agents, NEW n \in Id, CachesTimeout(a, n) PROVE CountInv'
    BY <1>28 DEF CachesTimeout
  <1>28b. ASSUME NEW a \in Agents, NEW n \in Id, ManagerEnds(a, n) PROVE CountInv'
    BY <1>28b DEF ManagerEnds
  <1>28a. ASSUME NEW p \in Probes, ProbeArrives(p) \/ ProbeReads(p) \/ ProbeAnswers(p) PROVE CountInv'
    BY <1>28a DEF ProbeArrives, ProbeReads, ProbeAnswers, SetProbe
  <1>29. CASE ResourceChanged
    BY <1>29 DEF ResourceChanged
  <1>30. CASE Restart
    <2>1. ASSUME NEW b \in Agents PROVE CountOf(b)'
      BY <1>30, <2>1 DEF Restart, EmptyProcess
    <2>2. QED
      BY <1>30, <2>1 DEF Restart, EmptyProcess
  <1>31. CASE UNCHANGED vars
    BY <1>31 DEF vars, historyVars
  <1>32. QED
    BY <1>1, <1>1a, <1>1b, <1>1c, <1>2, <1>2a, <1>3, <1>4, <1>5, <1>6, <1>7, <1>8, <1>9, <1>10, <1>11, <1>12,
    <1>13, <1>14, <1>15, <1>16, <1>17, <1>18, <1>19, <1>19a, <1>20, <1>21, <1>22, <1>23,
    <1>24, <1>25, <1>26, <1>27, <1>28, <1>28b, <1>28a, <1>29, <1>30, <1>31
    DEF Next, Worker, Goroutine

-----------------------------------------------------------------------------
(* Theorems *)

LEMMA InvInit == Init => IInv
  <1> SUFFICES ASSUME Init PROVE IInv
    OBVIOUS
  <1> USE ReconcilerAssumption DEF Init, NoObject
  <1>1. Types
    <2>1. object \in [Agents -> Object] /\ cache \in [Agents -> Object] /\ copy \in Object
      BY DEF Object
    <2>2. created \in [Agents -> 0..MaxObjects] /\ mgr \in [Agents -> [Id -> MgrState]]
      BY DEF MgrState
    <2>3. QED
      BY <2>1, <2>2 DEF Types, Place, Cleaning
  <1>1a. MoreTypes
    BY DEF MoreTypes
  <1>2. StatusInv
    BY DEF StatusInv, WellFormed, Cleaning
  <1>3. ScheduleInv /\ ClientInv
    BY DEF ScheduleInv, AlwaysRescheduled, ClientInv, Cleaning, LockHeld
  <1>4. OwnerInv
    BY DEF OwnerInv, Alive, Running, Started, Id
  <1>4a. CountInv
    <2>1. ASSUME NEW a \in Agents PROVE CountOf(a)
      BY <2>1 DEF CountOf, Gone, Hidden
    <2>2. QED
      BY <2>1 DEF CountInv, Cleaning
  <1>5. QED
    BY <1>1, <1>1a, <1>2, <1>3, <1>4, <1>4a DEF IInv

\* The invariant behind the theorems below holds of every state that Reconcile, its
\* goroutines and their environment reach.
THEOREM Invariance == Spec => []IInv
  <1>1. Init => IInv
    BY InvInit
  <1>2. IInv /\ [Next]_vars => IInv'
    BY TypesInductive, MoreTypesInductive, StatusInductive, ScheduleInductive,
    ClientInductive, OwnerInductive, CountInductive DEF IInv
  <1>3. QED
    BY <1>1, <1>2, PTL DEF Spec

\* Every reachable state is well typed; in particular no more ingestion managers are
\* made than objects, however Reconcile interleaves with deletions and creations.
THEOREM TypeCorrect == Spec => []TypeOK
  <1>1. IInv => TypeOK
    <2> SUFFICES ASSUME IInv PROVE TypeOK
      OBVIOUS
    <2> USE ReconcilerAssumption DEF IInv, Types, MoreTypes, CountInv, ClientInv
    <2>1. \A a \in Agents : made[a] \in 0..MaxObjects /\ manager[a] \in 0..MaxObjects
      BY DEF CountOf
    <2>2. made \in [Agents -> 0..MaxObjects] /\ manager \in [Agents -> 0..MaxObjects]
      BY <2>1
    <2>3. \A a \in Agents : manager[a] <= made[a]
      BY DEF CountOf
    <2>4. QED
      BY <2>2, <2>3 DEF TypeOK, Place, Cleaning
  <1>2. QED
    BY <1>1, Invariance, PTL

\* Every return of Reconcile for an object that exists leaves the agent scheduled.
THEOREM NobodyForgotten == Spec => []AlwaysRescheduled
  <1>1. IInv => AlwaysRescheduled
    BY DEF IInv, ScheduleInv
  <1>2. QED
    BY <1>1, Invariance, PTL

\* The status Reconcile stores is backed by what the platform accepted.
THEOREM StatusIsTrue == Spec => []StatusBacked
  <1>1. IInv => StatusBacked
    BY DEF IInv, StatusInv, StatusBacked, WellFormed
  <1>2. QED
    BY <1>1, Invariance, PTL

\* Every ingestion manager that runs, or is not through with its Stop, belongs to a
\* client in the map, but for those whose agent was cleaned up before their goroutine
\* entered Start: the map never forgets a manager while Stop works on it.
THEOREM ManagersHaveOwners == Spec => []ManagersOwned
  <1>1. IInv => ManagersOwned
    BY DEF IInv, OwnerInv, Alive, ManagersOwned
  <1>2. QED
    BY <1>1, Invariance, PTL

\* The map of clients does not change under a probe that reads it.
THEOREM ProbesReadInPeace == Spec => ClientsStable
  <1> DEFINE Stable == (\E p \in Probes : probe[p] = "reading" /\ probe'[p] = "reading")
                        => clients' = clients
  <1>1. ASSUME IInv, [Next]_vars PROVE Stable
    <2>1. CASE CreateClient \/ Cleanup
      BY <1>1, <2>1 DEF CreateClient, Cleanup, NoReader, IInv, ClientInv, LockHeld
    <2>2. CASE Restart
      BY <2>2 DEF Restart, EmptyProcess
    <2>3. CASE UNCHANGED clients
      BY <2>3
    <2>4. QED
      BY <1>1, <2>1, <2>2, <2>3
      DEF Next, Worker, Goroutine, apiVars, workVars, clientVars, historyVars, vars,
          CleanupLocks, CleanupStops, CleanupStopped, ProbeArrives, ProbeReads, ProbeAnswers, SetProbe,
          GetClient, GetClientFails, GetClusterUID, GetClusterUIDFails,
          StartIngestionManager, HasManager, ManagerReady, ManagerNotReady, BuildSnapshot,
          BuildSnapshotFails, SnapshotAccepted, SnapshotFails, GetResourceCounts, WriteStatus,
          HeartbeatAccepted, HeartbeatFails, WriteStatusFails, Fetch, FetchFails, EditAgent, Deliver,
          TimerFires, ManagerStart, ManagerStartFails, CachesSync, CachesTimeout, ManagerEnds,
          CreateAgent, DeleteAgent, Changed, ResourceChanged
  <1>2. IInv /\ [Next]_vars => [Stable]_vars
    BY <1>1
  <1>3. QED
    BY <1>2, Invariance, PTL DEF Spec, ClientsStable

\* What the API server holds for an agent is a run of AgentStatus: no write of
\* Reconcile takes a report back, and none reports a snapshot the platform has not
\* accepted of this very object.
THEOREM StatusRefinement == Spec => ImplementsAgentStatus
  <1>1. Init => \A a \in Agents : Status(a)!StatusInit
    BY DEF Init, NoObject, StageOf, Status!StatusInit
  <1>2. ASSUME IInv, [Next]_vars, NEW a \in Agents PROVE StatusStep(a)
    <2> USE <1>2 DEF IInv, Types, Object, StatusStep
    <2>1. CASE WriteStatus /\ key = a
      <3>1. object' = [object EXCEPT ![a] = copy] /\ accepted' = accepted
        BY <2>1 DEF WriteStatus, historyVars
      <3>2. WellFormed(object[a]) /\ WellFormed(copy) /\ copy.exists /\ object[a].exists
        BY <2>1 DEF WriteStatus, VersionMatches, StatusInv, Cleaning
      <3>3. /\ object[a].clusterUID => copy.clusterUID
            /\ object[a].lastSnapshotTime => copy.lastSnapshotTime
            /\ copy.lastSnapshotTime => a \in accepted
        BY <2>1 DEF WriteStatus, VersionMatches, StatusInv
      <3>4. /\ StageOf(copy) = StageOf(object[a]) \/ StageOf(copy) \in Status(a)!Later(StageOf(object[a]))
            /\ StageOf(copy) = "synced" => a \in accepted
        BY <3>2, <3>3 DEF StageOf, WellFormed, Status!Later
      <3>5. StageOf(object[a])' = StageOf(copy)
        BY <3>1
      <3>6. QED
        BY <3>1, <3>4, <3>5 DEF Status!StatusNext, Status!Report
    <2>2. CASE SnapshotAccepted /\ accepted' # accepted
      <3>1. key \in Agents /\ object' = object /\ accepted' = accepted \cup {key} /\ copyFresh
        BY <2>2 DEF SnapshotAccepted, apiVars
      <3>2. CASE key = a
        <4>1. object[a].exists
          BY <2>2, <3>1, <3>2 DEF SnapshotAccepted, StatusInv, Cleaning
        <4>2. Status(a)!Accept
          BY <3>1, <3>2, <4>1 DEF Status!Accept, StageOf
        <4>3. QED
          BY <4>2 DEF Status!StatusNext
      <3>3. QED
        BY <3>1, <3>2
    <2>3. ASSUME NEW b \in Agents, CreateAgent(b) \/ DeleteAgent(b), b # a PROVE StatusStep(a)
      BY <2>3 DEF CreateAgent, DeleteAgent
    <2>4. CASE CreateAgent(a)
      <3>1. a \notin accepted /\ ~object[a].exists
        BY <2>4 DEF CreateAgent, StatusInv
      <3>2. StageOf(object[a])' = "new" /\ a \notin accepted'
        BY <2>4 DEF CreateAgent, StageOf, NoObject
      <3>3. QED
        BY <3>1, <3>2 DEF Status!StatusNext, Status!Create, StageOf
    <2>5. CASE DeleteAgent(a)
      <3>1. Status(a)!Delete
        BY <2>5 DEF DeleteAgent, Status!Delete, StageOf, NoObject
      <3>2. QED
        BY <3>1 DEF Status!StatusNext
    <2>6. CASE UNCHANGED <<object[a], accepted>>
      BY <2>6
    <2>7. CASE WriteStatus /\ key # a
      BY <2>7, <2>6 DEF WriteStatus, historyVars
    <2>8. QED
      BY <2>1, <2>2, <2>3, <2>4, <2>5, <2>6, <2>7
      DEF Next, Worker, Goroutine, apiVars, workVars, clientVars, historyVars, vars,
          Cleanup, CleanupLocks, CleanupStops, CleanupStopped, CreateClient, ProbeArrives, ProbeReads,
          ProbeAnswers, SetProbe, GetClient, GetClientFails, GetClusterUID, GetClusterUIDFails,
          StartIngestionManager, HasManager, ManagerReady, ManagerNotReady, BuildSnapshot,
          BuildSnapshotFails, SnapshotAccepted, SnapshotFails, GetResourceCounts,
          HeartbeatAccepted, HeartbeatFails, WriteStatusFails, Fetch, FetchFails, EditAgent, Deliver,
          Changed, TimerFires, ManagerStart, ManagerStartFails, CachesSync, CachesTimeout, ManagerEnds,
          ResourceChanged, Restart
  <1>3. IInv /\ [Next]_vars => [\A a \in Agents : StatusStep(a)]_vars
    BY <1>2
  <1>4. QED
    BY <1>1, <1>3, Invariance, PTL DEF Spec, ImplementsAgentStatus
==============================================================================
