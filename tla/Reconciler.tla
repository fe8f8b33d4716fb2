------------------------------ MODULE Reconciler ------------------------------
(***************************************************************************)
(* internal/controller/obsykagent_controller.go: Reconcile, run by the one *)
(* worker of controller-runtime, against an API server whose objects it    *)
(* reads from a cache that lags and writes with optimistic concurrency,    *)
(* and the map of agentClients with the ingestion managers it starts in    *)
(* goroutines of their own, and with the health probes that read it.       *)
(*                                                                         *)
(* An agent is the namespace/name of an ObsykAgent; its object may be      *)
(* deleted and created again.  A manager is reduced to what Reconcile sees *)
(* of it; IngestionManager.tla models its inside.  Conditions other than   *)
(* Available, counts and times only matter to readers and are left out.    *)
(***************************************************************************)
EXTENDS Naturals, FiniteSets

CONSTANTS
    Agents,       \* namespace/name of the ObsykAgents
    NoAgent,      \* value of key when the worker is idle
    Probes,       \* requests of the kubelet to /healthz and /readyz
    MaxObjects,   \* bound: times an agent's object is created
    MaxUpsets     \* bound: changes of an object by users and restarts of the operator

ASSUME ReconcilerAssumption ==
    /\ NoAgent \notin Agents
    /\ MaxObjects \in Nat /\ MaxUpsets \in Nat

VARIABLES
    object,     \* per agent: the object in the API server, NoObject if there is none
    cache,      \* per agent: the object as the operator's cache has it
    fresh,      \* agents whose cached version is the API server's
    pc,         \* the worker's place in Reconcile
    key,        \* the agent being reconciled
    copy,       \* the object Reconcile has read and edits
    copyFresh,  \* the version of copy is still the API server's
    payload,    \* what the snapshot being sent was built from
    queue,      \* agents in the workqueue
    delayed,    \* agents in the workqueue's delay heap: RequeueAfter, or rate limited
    clients,    \* keys of agentClients
    made,       \* per agent: number of ingestion managers created by this process
    manager,    \* per agent: agentClient.ingestionManager, 0 for nil
    mgr,        \* per agent and manager: its state
    probe,      \* per probe: its place in CheckPlatformHealth or CheckReady
    created,    \* per agent: number of objects created
    edits,      \* number of edits
    restarts,   \* number of restarts
    accepted,   \* history: agents whose current object had a snapshot accepted
    orphaned    \* history: managers whose agent was cleaned up before their Start ran

apiVars == <<object, cache, fresh, created, edits, restarts>>
workVars == <<pc, key, copy, copyFresh, payload, queue, delayed>>
clientVars == <<clients, made, manager, mgr>>
historyVars == <<accepted, orphaned>>
vars == <<apiVars, workVars, clientVars, probe, historyVars>>

Id == 1..MaxObjects

\* Start has not run, has set started and waits for caches, failed to register its
\* handlers with started set, has synced; a Stop holds the manager's own lock and waits
\* for processor and informers; or the manager is stopped.
MgrState == {"none", "created", "unsynced", "broken", "synced", "stopping", "stopped"}
Started == {"unsynced", "broken", "synced"}
Running == Started \cup {"stopping"}

Object == [exists : BOOLEAN, clusterUID : BOOLEAN, lastSnapshotTime : BOOLEAN, available : BOOLEAN]
NoObject == [exists |-> FALSE, clusterUID |-> FALSE, lastSnapshotTime |-> FALSE, available |-> FALSE]

\* That made stays within its bound is more than a type: at most one manager is
\* created for each object, however often Reconcile runs.
TypeOK ==
    /\ object \in [Agents -> Object]
    /\ cache \in [Agents -> Object]
    /\ fresh \subseteq Agents
    /\ pc \in {"idle", "cleanup", "stopping", "removing", "client", "clientLock", "uid",
               "manager", "ready", "sync", "snapshot", "heartbeat", "counts", "write"}
    /\ key \in Agents \cup {NoAgent}
    /\ (key = NoAgent) <=> (pc = "idle")
    /\ copy \in Object
    /\ copyFresh \in BOOLEAN
    /\ payload \in {"none", "partial", "complete"}
    /\ queue \subseteq Agents
    /\ delayed \subseteq Agents
    /\ clients \subseteq Agents
    /\ made \in [Agents -> 0..MaxObjects]
    /\ manager \in [Agents -> 0..MaxObjects]
    /\ \A a \in Agents : manager[a] <= made[a] /\ (a \notin clients => manager[a] = 0)
    /\ mgr \in [Agents -> [Id -> MgrState]]
    /\ probe \in [Probes -> {"idle", "waiting", "reading"}]
    /\ created \in [Agents -> 0..MaxObjects]
    /\ edits \in 0..MaxUpsets
    /\ restarts \in 0..MaxUpsets
    /\ accepted \subseteq Agents
    /\ orphaned \subseteq Agents \X Id

\* What a process starts with.
EmptyProcess ==
    /\ pc' = "idle" /\ key' = NoAgent /\ copy' = NoObject
    /\ copyFresh' = FALSE /\ payload' = "none" /\ delayed' = {}
    /\ clients' = {} /\ made' = [a \in Agents |-> 0]
    /\ manager' = [a \in Agents |-> 0]
    /\ mgr' = [a \in Agents |-> [n \in Id |-> "none"]]
    /\ probe' = [p \in Probes |-> "idle"]
    /\ orphaned' = {}

Init ==
    /\ object = [a \in Agents |-> NoObject] /\ cache = object
    /\ fresh = Agents
    /\ pc = "idle" /\ key = NoAgent /\ copy = NoObject
    /\ copyFresh = FALSE /\ payload = "none"
    /\ queue = {} /\ delayed = {}
    /\ clients = {} /\ made = [a \in Agents |-> 0]
    /\ manager = [a \in Agents |-> 0]
    /\ mgr = [a \in Agents |-> [n \in Id |-> "none"]]
    /\ probe = [p \in Probes |-> "idle"]
    /\ created = [a \in Agents |-> 0]
    /\ edits = 0 /\ restarts = 0
    /\ accepted = {} /\ orphaned = {}

-----------------------------------------------------------------------------
(* Reconcile: every return but the one for a deleted agent asks to be called *)
(* again, after an interval or, with an error, after the rate limiter.       *)

Goto(place) == pc' = place

Return ==
    /\ pc' = "idle" /\ key' = NoAgent /\ copy' = NoObject
    /\ copyFresh' = FALSE /\ payload' = "none"

\* Operators whose name ends in _bug are wrong on purpose: each is a mistake the
\* code could contain, kept to show which property notices it.  No specification
\* refers to them.

Requeue_bug == Return /\ UNCHANGED delayed
Requeue == Return /\ delayed' = delayed \cup {key}

\* The worker takes an agent and reads its object from the cache.
Fetch(a) ==
    /\ pc = "idle" /\ a \in queue
    /\ queue' = queue \ {a}
    /\ key' = a
    /\ copy' = cache[a]
    /\ copyFresh' = (cache[a].exists /\ a \in fresh)
    /\ Goto(IF cache[a].exists THEN "client" ELSE "cleanup")
    /\ UNCHANGED <<apiVars, payload, delayed, clientVars, historyVars, probe>>

\* The read fails, other than by not finding the object.
FetchFails(a) ==
    /\ pc = "idle" /\ a \in queue
    /\ queue' = queue \ {a}
    /\ delayed' = delayed \cup {a}
    /\ UNCHANGED <<apiVars, pc, key, copy, copyFresh, payload, clientVars, historyVars, probe>>

-----------------------------------------------------------------------------
(* agentClientsMu.  The worker is its only writer, at the places where it has  *)
(* asked for the lock or holds it; a writer that waits keeps new readers out.  *)

LockAsked == pc \in {"cleanup", "clientLock"}
LockHeld == pc \in {"stopping", "removing"}
NoReader_bug == TRUE
NoReader == \A p \in Probes : probe[p] # "reading"

\* The object is gone: its client is removed under the lock.
CleanupLocks ==
    /\ pc = "cleanup" /\ NoReader
    /\ Goto(IF key \in clients THEN "stopping" ELSE "removing")
    /\ UNCHANGED <<apiVars, key, copy, copyFresh, payload, queue, delayed,
                   clientVars, probe, historyVars>>

\* What the agent's manager is found to be by whoever takes the manager's lock, which
\* a Stop keeps to its end.
MgrIs(a, states) == manager[a] # 0 /\ mgr[a][manager[a]] \in states
IsStarted(a) == MgrIs(a, Started)
IsUnlocked(a) == ~MgrIs(a, {"stopping"})

\* Cleanup calls Stop, which closes stopCh.
CleanupStops ==
    /\ pc = "stopping" /\ IsStarted(key)
    /\ mgr' = [mgr EXCEPT ![key][manager[key]] = "stopping"]
    /\ UNCHANGED <<apiVars, workVars, clients, made, manager, probe, historyVars>>

\* Stop returns: it is through, or had nothing to do because another Stop was before
\* it, Start has not run yet, or there is no manager.
CleanupStopped_bug ==
    /\ pc = "stopping" /\ ~IsStarted(key)
    /\ orphaned' = IF MgrIs(key, {"created"})
                   THEN orphaned \cup {<<key, manager[key]>>} ELSE orphaned
    /\ Goto("removing")
    /\ UNCHANGED <<apiVars, key, copy, copyFresh, payload, queue, delayed,
                   clientVars, probe, accepted>>

CleanupStopped ==
    /\ pc = "stopping" /\ ~IsStarted(key) /\ IsUnlocked(key)
    /\ orphaned' = IF MgrIs(key, {"created"})
                   THEN orphaned \cup {<<key, manager[key]>>} ELSE orphaned
    /\ Goto("removing")
    /\ UNCHANGED <<apiVars, key, copy, copyFresh, payload, queue, delayed,
                   clientVars, probe, accepted>>

\* The deletion is guarded like the Stop.
Cleanup_bug ==
    /\ pc = "removing"
    /\ clients' = IF manager[key] # 0 THEN clients \ {key} ELSE clients
    /\ manager' = [manager EXCEPT ![key] = 0]
    /\ Return
    /\ UNCHANGED <<apiVars, queue, delayed, made, mgr, probe, historyVars>>

Cleanup ==
    /\ pc = "removing"
    /\ clients' = clients \ {key}
    /\ manager' = [manager EXCEPT ![key] = 0]
    /\ Return
    /\ UNCHANGED <<apiVars, queue, delayed, made, mgr, probe, historyVars>>

\* getOrCreateAgentClient, once the secret has been read.
GetClient ==
    /\ pc = "client"
    /\ Goto(IF key \in clients THEN "uid" ELSE "clientLock")
    /\ UNCHANGED <<apiVars, key, copy, copyFresh, payload, queue, delayed,
                   clientVars, probe, historyVars>>

CreateClient ==
    /\ pc = "clientLock" /\ NoReader
    /\ clients' = clients \cup {key}
    /\ Goto("uid")
    /\ UNCHANGED <<apiVars, key, copy, copyFresh, payload, queue, delayed,
                   made, manager, mgr, probe, historyVars>>

\* The secret is missing or holds no credentials: the agent becomes Degraded.
GetClientFails ==
    /\ pc = "client"
    /\ Goto("write")
    /\ UNCHANGED <<apiVars, key, copy, copyFresh, payload, queue, delayed,
                   clientVars, historyVars, probe>>

GetClusterUID ==
    /\ pc = "uid"
    /\ copy' = [copy EXCEPT !.clusterUID = TRUE]
    /\ Goto("manager")
    /\ UNCHANGED <<apiVars, key, copyFresh, payload, queue, delayed, clientVars, historyVars, probe>>

GetClusterUIDFails ==
    /\ pc = "uid" /\ ~copy.clusterUID
    /\ Requeue
    /\ UNCHANGED <<apiVars, queue, clientVars, historyVars, probe>>

\* The manager is created and a goroutine is started to call its Start.
NeedsManager_bug == TRUE
NeedsManager == manager[key] = 0

StartIngestionManager ==
    /\ pc = "manager" /\ NeedsManager
    /\ LET n == made[key] + 1 IN
       /\ made' = [made EXCEPT ![key] = n]
       /\ manager' = [manager EXCEPT ![key] = n]
       /\ mgr' = [mgr EXCEPT ![key][n] = "created"]
    /\ Goto("ready")
    /\ UNCHANGED <<apiVars, key, copy, copyFresh, payload, queue, delayed,
                   clients, historyVars, probe>>

HasManager ==
    /\ pc = "manager" /\ manager[key] # 0
    /\ Goto("ready")
    /\ UNCHANGED <<apiVars, key, copy, copyFresh, payload, queue, delayed,
                   clientVars, historyVars, probe>>

\* IsStarted and GetCurrentState wait for a Stop that holds the manager's lock.
ManagerReady ==
    /\ pc = "ready" /\ IsStarted(key)
    /\ Goto(IF copy.lastSnapshotTime THEN "heartbeat" ELSE "sync")
    /\ UNCHANGED <<apiVars, key, copy, copyFresh, payload, queue, delayed,
                   clientVars, historyVars, probe>>

ManagerNotReady ==
    /\ pc = "ready" /\ ~IsStarted(key) /\ IsUnlocked(key)
    /\ Requeue
    /\ UNCHANGED <<apiVars, queue, clientVars, historyVars, probe>>

\* GetCurrentState: the caches may be read before they have synced.
BuildSnapshot ==
    /\ pc = "sync" /\ IsStarted(key)
    /\ payload' = IF mgr[key][manager[key]] = "synced" THEN "complete" ELSE "partial"
    /\ Goto("snapshot")
    /\ UNCHANGED <<apiVars, key, copy, copyFresh, queue, delayed, clientVars, historyVars, probe>>

\* The manager failed to sync and stopped itself after IsStarted was read.
BuildSnapshotFails ==
    /\ pc = "sync" /\ ~IsStarted(key) /\ IsUnlocked(key)
    /\ Goto("write")
    /\ UNCHANGED <<apiVars, key, copy, copyFresh, payload, queue, delayed,
                   clientVars, historyVars, probe>>

\* The platform accepts the snapshot; the conditions are set.
SnapshotAccepted ==
    /\ pc = "snapshot"
    /\ copy' = [copy EXCEPT !.lastSnapshotTime = TRUE, !.available = TRUE]
    /\ accepted' = IF copyFresh THEN accepted \cup {key} ELSE accepted
    /\ payload' = "none"
    /\ Goto("counts")
    /\ UNCHANGED <<apiVars, key, copyFresh, queue, delayed, clientVars, orphaned, probe>>

\* An error that falls through to the success path.
SnapshotFails_bug ==
    /\ pc = "snapshot"
    /\ copy' = [copy EXCEPT !.lastSnapshotTime = TRUE, !.available = TRUE]
    /\ payload' = "none"
    /\ Goto("write")
    /\ UNCHANGED <<apiVars, key, copyFresh, queue, delayed, clientVars, historyVars, probe>>

SnapshotFails ==
    /\ pc = "snapshot"
    /\ payload' = "none"
    /\ Goto("write")
    /\ UNCHANGED <<apiVars, key, copy, copyFresh, queue, delayed, clientVars, historyVars, probe>>

HeartbeatAccepted ==
    /\ pc = "heartbeat"
    /\ copy' = [copy EXCEPT !.available = TRUE]
    /\ Goto("counts")
    /\ UNCHANGED <<apiVars, key, copyFresh, payload, queue, delayed, clientVars, historyVars, probe>>

HeartbeatFails ==
    /\ pc = "heartbeat"
    /\ Goto("write")
    /\ UNCHANGED <<apiVars, key, copy, copyFresh, payload, queue, delayed,
                   clientVars, historyVars, probe>>

\* getResourceCounts, whose failure is only logged; it asks the manager first.
GetResourceCounts ==
    /\ pc = "counts" /\ IsUnlocked(key)
    /\ Goto("write")
    /\ UNCHANGED <<apiVars, key, copy, copyFresh, payload, queue, delayed,
                   clientVars, historyVars, probe>>

\* Status().Update succeeds only on the version that was read.  A write that
\* changes nothing (the times have second precision) makes no new version.
VersionMatches_bug == object[key].exists
VersionMatches == copyFresh

WriteStatus ==
    /\ pc = "write" /\ VersionMatches
    /\ object' = [object EXCEPT ![key] = copy]
    /\ \/ fresh' = fresh \ {key}
       \/ object[key] = copy /\ UNCHANGED fresh
    /\ Requeue
    /\ UNCHANGED <<cache, created, edits, restarts, queue, clientVars, historyVars, probe>>

\* A conflict, or the API server does not answer.
WriteStatusFails ==
    /\ pc = "write"
    /\ Requeue
    /\ UNCHANGED <<apiVars, queue, clientVars, historyVars, probe>>

-----------------------------------------------------------------------------
(* The goroutine that runs Manager.Start, and the manager's caches *)

SetMgr(a, n, from, to) == mgr[a][n] = from /\ mgr' = [mgr EXCEPT ![a][n] = to]

ManagerStart(a, n) ==
    /\ SetMgr(a, n, "created", "unsynced")
    /\ UNCHANGED <<apiVars, workVars, clients, made, manager, historyVars, probe>>

\* RegisterHandlers fails: Start returns and leaves started set.
ManagerStartFails(a, n) ==
    /\ SetMgr(a, n, "created", "broken")
    /\ UNCHANGED <<apiVars, workVars, clients, made, manager, historyVars, probe>>

CachesSync(a, n) ==
    /\ SetMgr(a, n, "unsynced", "synced")
    /\ UNCHANGED <<apiVars, workVars, clients, made, manager, historyVars, probe>>

\* The caches do not sync within 60 s: Start calls Stop and returns an error.  Caches
\* that sync after the timeout and before that Stop count as not synced.
CachesTimeout(a, n) ==
    /\ SetMgr(a, n, "unsynced", "stopping")
    /\ UNCHANGED <<apiVars, workVars, clients, made, manager, historyVars, probe>>

\* Processor and informers of a manager have ended, or 10 s have passed: its Stop gives
\* the manager's lock back.  What they do until then needs no agentClientsMu.
\* A processor that looks its client up in the map:
ManagerEnds_bug(a, n) ==
    /\ ~LockAsked /\ ~LockHeld
    /\ SetMgr(a, n, "stopping", "stopped")
    /\ UNCHANGED <<apiVars, workVars, clients, made, manager, historyVars, probe>>

ManagerEnds(a, n) ==
    /\ SetMgr(a, n, "stopping", "stopped")
    /\ UNCHANGED <<apiVars, workVars, clients, made, manager, historyVars, probe>>

-----------------------------------------------------------------------------
(* CheckPlatformHealth and CheckReady, in the goroutines of the probe server:  *)
(* each reads the map, and every client in it, under the read lock.            *)

SetProbe(p, from, to) ==
    /\ probe[p] = from
    /\ probe' = [probe EXCEPT ![p] = to]
    /\ UNCHANGED <<apiVars, workVars, clientVars, historyVars>>

ProbeArrives(p) == SetProbe(p, "idle", "waiting")
ProbeReads(p) == ~LockAsked /\ ~LockHeld /\ SetProbe(p, "waiting", "reading")

\* The probe locks again for each client it looks at.
ProbeAnswers_bug(p) == ~LockAsked /\ SetProbe(p, "reading", "idle")
ProbeAnswers(p) == SetProbe(p, "reading", "idle")

-----------------------------------------------------------------------------
(* Environment: users, the API server, controller-runtime's cache and queue *)

\* The API server has a new version of a's object.
Changed(a) ==
    /\ fresh' = fresh \ {a}
    /\ copyFresh' = (copyFresh /\ key # a)
    /\ UNCHANGED <<cache, restarts, pc, key, copy, payload, queue, delayed,
                   clientVars, orphaned, probe>>

CreateAgent(a) ==
    /\ ~object[a].exists /\ created[a] < MaxObjects
    /\ object' = [object EXCEPT ![a] = [NoObject EXCEPT !.exists = TRUE]]
    /\ created' = [created EXCEPT ![a] = @ + 1]
    /\ accepted' = accepted \ {a}
    /\ Changed(a)
    /\ UNCHANGED edits

DeleteAgent(a) ==
    /\ object[a].exists
    /\ object' = [object EXCEPT ![a] = NoObject]
    /\ accepted' = accepted \ {a}
    /\ Changed(a)
    /\ UNCHANGED <<created, edits>>

EditAgent(a) ==
    /\ object[a].exists /\ edits + restarts < MaxUpsets
    /\ edits' = edits + 1
    /\ Changed(a)
    /\ UNCHANGED <<object, created, accepted>>

\* The watch delivers the latest version and enqueues the agent.
Deliver(a) ==
    /\ a \notin fresh
    /\ cache' = [cache EXCEPT ![a] = object[a]]
    /\ fresh' = fresh \cup {a}
    /\ queue' = queue \cup {a}
    /\ UNCHANGED <<object, created, edits, restarts, pc, key, copy, copyFresh, payload,
                   delayed, clientVars, historyVars, probe>>

\* findAgentsForResource: a Pod, Service or Namespace changed, all agents are enqueued.
ResourceChanged ==
    /\ queue' = queue \cup {a \in Agents : cache[a].exists}
    /\ UNCHANGED <<apiVars, pc, key, copy, copyFresh, payload, delayed, clientVars, historyVars, probe>>

TimerFires(a) ==
    /\ a \in delayed
    /\ delayed' = delayed \ {a}
    /\ queue' = queue \cup {a}
    /\ UNCHANGED <<apiVars, pc, key, copy, copyFresh, payload, clientVars, historyVars, probe>>

\* The operator's process ends, at any point, and a new one fills its cache.
Restart ==
    /\ edits + restarts < MaxUpsets
    /\ restarts' = restarts + 1
    /\ EmptyProcess
    /\ cache' = object /\ fresh' = Agents
    /\ queue' = {a \in Agents : object[a].exists}
    /\ UNCHANGED <<object, created, edits, accepted>>

-----------------------------------------------------------------------------

Worker ==
    \/ CleanupLocks \/ CleanupStops \/ CleanupStopped \/ Cleanup
    \/ GetClient \/ CreateClient \/ GetClientFails
    \/ GetClusterUID \/ GetClusterUIDFails
    \/ StartIngestionManager \/ HasManager \/ ManagerReady \/ ManagerNotReady
    \/ BuildSnapshot \/ BuildSnapshotFails \/ SnapshotAccepted \/ SnapshotFails
    \/ HeartbeatAccepted \/ HeartbeatFails
    \/ GetResourceCounts \/ WriteStatus \/ WriteStatusFails

Goroutine(a, n) ==
    \/ ManagerStart(a, n) \/ ManagerStartFails(a, n)
    \/ CachesSync(a, n) \/ CachesTimeout(a, n) \/ ManagerEnds(a, n)

Next ==
    \/ Worker
    \/ \E a \in Agents :
        \/ Fetch(a) \/ FetchFails(a) \/ \E n \in Id : Goroutine(a, n)
        \/ CreateAgent(a) \/ DeleteAgent(a) \/ EditAgent(a)
        \/ Deliver(a) \/ TimerFires(a)
    \/ \E p \in Probes : ProbeArrives(p) \/ ProbeReads(p) \/ ProbeAnswers(p)
    \/ ResourceChanged
    \/ Restart

Spec == Init /\ [][Next]_vars

\* The worker runs (each call of Reconcile is bounded by timeouts), the workqueue
\* is first in first out so that every queued agent is taken, reads of its object do
\* not fail for ever, watches deliver, timers fire, goroutines run, a manager's Stop
\* comes to its end (StopReturns in IngestionManager), and sync.RWMutex lets the
\* readers that waited in before the next writer.  Users, the platform and caches owe
\* nothing.
Fairness ==
    /\ WF_vars(Worker)
    /\ \A a \in Agents :
        /\ SF_vars(Fetch(a))
        /\ WF_vars(Deliver(a))
        /\ WF_vars(TimerFires(a))
        /\ \A n \in Id : WF_vars(Goroutine(a, n))
    /\ \A p \in Probes : SF_vars(ProbeReads(p)) /\ WF_vars(ProbeAnswers(p))

LiveSpec == Spec /\ Fairness

-----------------------------------------------------------------------------
(* Safety *)

\* No path through Reconcile forgets an agent: one that the operator knows of is in
\* the queue, waits for its interval or its retry, or is being reconciled.
AlwaysRescheduled == \A a \in Agents : cache[a].exists => a \in queue \cup delayed \cup {key}

\* The stored status is never ahead of what happened to this very object: Available
\* means that a snapshot was recorded, and a recorded snapshot was accepted by the
\* platform - whatever stale copies were read, writes lost and processes killed.
StatusBacked ==
    \A a \in Agents :
        /\ object[a].available => object[a].lastSnapshotTime
        /\ object[a].lastSnapshotTime => object[a].clusterUID /\ a \in accepted

\* Whatever stale copies are read, writes refused and processes killed, the stored
\* status of an object only goes forward, and it gets Available together with the
\* snapshot's time: no write takes back what another one reported.
StageOf(o) ==
    CASE ~o.exists -> "absent"
      [] o.exists /\ ~o.clusterUID /\ ~o.lastSnapshotTime /\ ~o.available -> "new"
      [] o.exists /\ o.clusterUID /\ ~o.lastSnapshotTime /\ ~o.available -> "identified"
      [] o.exists /\ o.clusterUID /\ o.lastSnapshotTime /\ o.available -> "synced"
      [] OTHER -> "inconsistent"

Status(a) == INSTANCE AgentStatus WITH
    stage <- StageOf(object[a]), accepted <- a \in accepted

StatusStep(a) == Status(a)!StatusNext \/ UNCHANGED <<StageOf(object[a]), a \in accepted>>

ImplementsAgentStatus ==
    /\ \A a \in Agents : Status(a)!StatusInit
    /\ [][\A a \in Agents : StatusStep(a)]_vars

\* A manager that runs, or is not yet through with its Stop, belongs to a client, so
\* that somebody can stop it and no two report for the same agent - except one whose
\* Start ran after its cleanup.
ManagersOwned ==
    \A a \in Agents, n \in Id :
        mgr[a][n] \in Running => (a \in clients /\ manager[a] = n) \/ <<a, n>> \in orphaned

\* Go panics when a map is written while another goroutine ranges over it: what a
\* probe reads does not change before it has answered.
ClientsStable ==
    [][(\E p \in Probes : probe[p] = "reading" /\ probe'[p] = "reading")
        => clients' = clients]_vars

\* "Object deleted, clean up client and stop ingestion" (Reconcile): without a client
\* nothing is ingested for an agent.
DeletedAgentQuiet ==
    \A a \in Agents, n \in Id : mgr[a][n] \in Started => a \in clients

\* "Always start ingestion manager if not already running" (Reconcile): when Reconcile
\* has passed that point the agent's manager runs or is about to.
ManagerKeptRunning ==
    [][pc = "manager" /\ pc' = "ready" => mgr'[key][manager'[key]] # "stopped"]_vars

\* "This ensures we have accurate resource counts from informers" (Reconcile, of its
\* wait for the manager): the snapshot is read from caches that have synced.
SnapshotFromSyncedCaches == payload # "partial"

-----------------------------------------------------------------------------
(* Liveness, under LiveSpec *)

\* The client of a deleted agent is removed, unless the agent is created again.
DeletedAgentCleaned ==
    \A a \in Agents : ~object[a].exists ~> (a \notin clients \/ object[a].exists)

\* The one worker comes back to an agent that exists again and again, so that neither
\* its snapshot nor its heartbeats end: whatever failed before, and though on its way
\* the worker waits for both locks, for a Stop of its own and for one of the manager.
AgentsServed == \A a \in Agents : []<>(~cache[a].exists \/ (pc = "client" /\ key = a))

\* The kubelet gets an answer to each probe, also while an agent is cleaned up: the
\* lock held through Stop is given back and no two parties wait for each other.
ProbesAnswered == \A p \in Probes : probe[p] = "waiting" ~> probe[p] = "idle"
==============================================================================
