# obsyk-operator: a verification development

TLA+ models of the Obsyk Kubernetes operator (`src/`, Go), model-checked with TLC, with
theorems checked by TLAPS. Every definition that stands for code names its lines in
`PROJECT.json` ("map").

## 1. The system

The operator watches `ObsykAgent` objects. For each it keeps a connection to the Obsyk
platform, sends one snapshot of the cluster, then heartbeats, and streams changes of twenty
kinds of resources as events.

| Component | Source | State | Operations | Talks to |
|---|---|---|---|---|
| Reconciler | `internal/controller` | `agentClients` map under an RWMutex; status of each object in the API server | `Reconcile`, `getOrCreateAgentClient`, `startIngestionManager`, probes | API server (cached reads, optimistic writes), token manager, client, ingestion manager |
| Ingestion manager | `internal/ingestion/manager.go` | `started`, `stopCh`, `doneCh`, `cancelFn`, informer factory, event channel, rate limiter | `Start`, `Stop`, `IsStarted`, `GetCurrentState`, `GetResourceCounts`; goroutine `processEvents` | informers (client-go), generic ingesters, `EventSender` |
| Generic ingester | `internal/ingestion/generic_ingester.go` | none of its own | `onAdd`, `onUpdate`, `onDelete`: non-blocking send to the event channel | informers, event channel |
| Transport client | `internal/transport/client.go` | health: three atomics and a locked error | `SendSnapshot`, `SendEvent`, `SendHeartbeat` with retries; `IsHealthy`, `GetHealthStatus` | token manager, platform |
| Token manager | `internal/auth/token.go` | credentials, token, expiry, `refreshing`, `refreshCh` | `GetAccessToken`, `UpdateCredentials` | platform |
| Payload conversion | `internal/transport/types.go` | none | twenty `New...Info`, `FilterAnnotations` | generic ingesters, `GetCurrentState` |
| Resource configurations | `internal/ingestion/resource_configs.go` | none | the table of the twenty kinds | ingestion manager |
| API types | `api/v1` | spec and status of an `ObsykAgent`, kept by the API server | - | reconciler, users |
| Process | `cmd/main.go` | none | wiring, probes, signals | all |

How they interact: the one worker of controller-runtime calls `Reconcile`, which calls the
token manager and the client directly and starts `Manager.Start` in a goroutine that lives as
long as the process. Informer goroutines put events into the manager's channel; the processor
goroutine takes them, waits for the rate limiter and calls the *same* client that `Reconcile`
uses, which asks the *same* token manager. Probes read the map of clients, under its lock, and
each client's health from goroutines of their own.

What is hard, and which properties are about it:

* the lifecycle of the manager - Start releases its lock half way, a failing Start calls Stop,
  Stop gives up after 10 s, the agent may be deleted before the goroutine runs:
  `StopChOpenWhileStarted`, `StoppedMeansQuiet`, `StateFromLiveInformers`, `SingleProcessor`,
  `StopReturns`, `StartReturnsWhenDown`, `ManagersOwned`, and what is left of it for the user of
  a manager: `ImplementsLifecycle`;
* where an event can get lost, twice or out of order: `EventsAccounted`, `LossOnlyAtShutdown`,
  `ImplementsEventStream`, `DuplicatesNeedServerError`;
* what the platform knows in the end, fed by events that may be lost and a snapshot that is
  listed while they go on, through relists and restarts: `Converged`, `EventsInOrder`,
  `NoResurrection`, `CatchesUp`;
* single-flight token refresh, with waiters, failures, expiry and rotation: `SingleFlight`,
  `NoLostWakeup`, `CachedTokenAccepted`, `ImplementsSharedToken`, `CallsReturn`;
* health that is recorded in several stores: `HealthWithoutOverlap`, `HealthNeedsContact`;
* a reconciler that reads stale copies, loses writes and is killed: `AlwaysRescheduled`,
  `StatusBacked`, `ImplementsAgentStatus`, `DeletedAgentCleaned`;
* the lock of the client map, held for writing while a manager is stopped, for 10 s or more, with
  the probes that restart the process waiting for it, and with the manager's own lock behind it:
  `ClientsStable`, `ProbesAnswered`, and for the one worker that serves all agents `AgentsServed`;
* values that must not leave the cluster, and orders that Kubernetes does not fix: `ValuesStay`,
  `OrderIrrelevant`.

`PROJECT.json` lists every hazard with its line. A hazard the code does not prevent - an event
dropped at the full channel, a deletion missed during a restart, a UID replaced between two
lists - is excused by `missed` in the properties that touch it: they show that nothing else is
lost, and do not judge the loss itself. The notes of these hazards say so.

## 2. Modules

| Module | What it is |
|---|---|
| `EventStream` | abstract specification: events are delivered at most once, in order of emission unless processors overlapped, never invented |
| `IngestionManager` | `Manager` and the send of `GenericIngester`; refines `EventStream` and `ManagerLifecycle` |
| `ManagerLifecycle` | abstract specification: what a user of `Manager` sees of its life through `IsStarted` and `GetCurrentState` |
| `IngestionManagerProofs` | theorems about it, with both refinements |
| `SharedToken` | abstract specification: one token, replaced only when it is stale, by one replacement at a time that keeps to the credentials it began with |
| `TokenManager`, `TokenManagerProofs` | `TokenManager`, which refines `SharedToken`, and theorems with the refinement |
| `TransportClient`, `TransportClientProofs` | retry loop and health, and theorems |
| `AgentStatus` | abstract specification: what the status of one agent tells its reader goes forward while the object lives, and is true |
| `Reconciler`, `ReconcilerProofs` | `Reconcile` against API server, cache, workqueue and probes, which refines `AgentStatus` for every agent, and theorems with the refinement |
| `ResourceSync` | a resource from the cluster to the platform: informer caches, handlers, events, snapshot |
| `ResourceSyncProofs`, `ResourceEventsProofs`, `ResourceViewProofs` | theorems about it, each module built on the one before: what is on its way, in which order, what the platform ends up with |
| `Payload`, `PayloadProofs` | what of an object of each kind is sent, and theorems |
| `MC...` | instances for TLC |

`IngestionManager`. One step per critical section and per blocking operation. Each entry into
the locked part of `Start` makes a *generation*: the stop and done channels, the processor's
context, the informer factory and the processor of that `Start`. `gen` is what the manager's
fields point to, `closed` the generations whose `stopCh` is closed and whose context is
cancelled. `mu` is held across steps only by `Stop`, the one operation that blocks while it
holds the lock. `watch` is what `Start` reads after it released the lock. The 10 s of `Stop`,
the 60 s of the sync, and the 5 s of the drain may elapse at any time. Events are numbered in
order of emission; `sent`, `dropped`, `abandoned` and `offered` are history.

`TokenManager`. One step per critical section, the HTTP exchange split into the platform's
answer and its arrival. Time is a counter in units of which the refresh buffer and the HTTP
timeout are multiples, and does not pass beyond the timeout of a request in flight. Channels are
numbered; `closedCh` are those closed. A token that the platform revokes is left out. Its
refinement of `SharedToken` forgets flag, channels, requests and who leads: a replacement is under
way, with the credentials it captured, from `SlowLead` to `FinishRefresh`.

`TransportClient`. One step per attempt, per backoff and per store of `recordHealthy` and
`recordUnhealthy`; the platform's answers are arbitrary. `processed` counts how often the
platform acted on the request, `overlapped` remembers that two requests recorded at once.

`Reconciler`. One step per call of Reconcile that can fail or that others can get in front of.
The API server has the object, the operator a cached copy; versions are reduced to whether the
cached (`fresh`) or the held copy (`copyFresh`) is the current one, which is all that the
conflict check of `Status().Update` looks at. Deliveries of the watch may be coalesced to the
latest version. `queue` and `delayed` are the workqueue and its delay heap. A restart, possible
at every step, keeps the API server and loses the rest. There is one worker, as in the code
(`MaxConcurrentReconciles` is left at 1). It holds `agentClientsMu` for writing from the moment
a cleanup begins until `Stop` has returned, and while it makes a client; a probe arrives, reads
under the read lock (not while a writer holds the lock or waits for it, as `sync.RWMutex` has
it) and answers. What it answers is `TransportClient`'s health. The refinement of `AgentStatus`
keeps of all this, for each agent, how far the stored status has come (no object, nothing
reported, a cluster UID, a snapshot and Available) and whether the platform has accepted a
snapshot of this object; a status that Reconcile could not have meant, such as Available
without a snapshot, is a stage `AgentStatus` does not have.

`Reconciler` knows of a manager only the states that `IsStarted`, `GetCurrentState` and `Stop` tell
apart, those of `ManagerLifecycle`, which `IngestionManager` implements by mapping its locks,
generations and informers to them; and `stopping`, while a `Stop` holds the manager's own lock and
waits for processor and informers. That `Stop` is the cleanup's, which holds `agentClientsMu` all
the while, or that of a `Start` whose caches did not sync; `Stop`, `IsStarted`, `GetCurrentState` and
`GetResourceCounts` of others wait for it. It ends with `ManagerEnds`, which needs no other lock: no
goroutine of the manager refers to the reconciler. Caches that sync between the 60 s timeout and
the `Stop` of the same `Start` count as not synced.

`Payload`. Pure operators, one per conversion, from a record with the fields that a conversion
looks into. The fields it copies as they are make up one field, `copied`. `Meta` filters the
annotations, `ToInfo` chooses the conversion by kind, and the steps are those of the handlers,
which send an info again whenever the object changes. At most one CronJob owns a job, as the CronJob controller makes it; the API server would
allow more, and the code then takes the first, so that the order of the owners would show.
Pointers are sets of at most one element; a slice that Go
fills from a map is a set, as its order is not fixed; images and containers keep theirs.

`ResourceSync`. The kinds, twenty in the code, are listed one after the other by
`GetCurrentState` (`ListKind`); each has one object name, under which objects with different UIDs
follow one another. The informer changes its cache first and queues the notification; the
handlers turn it into at most one event and send it without blocking (`Handle`). A relist sees
only the difference between cache and cluster: it notifies of unchanged objects, reports
deletions with tombstones, and an object recreated under its name as an update. The life cycle
of the manager and of `Reconcile` is left to the other modules: the snapshot may be listed as
soon as the process runs, even before the informers have (as `reconciler_unsynced` shows), and
begins again whenever anything fails before its time is stored. The platform is external: added
and modified put an object, deleted removes a UID, a snapshot replaces everything. Those are
what `API_CONTRACT.md` calls individual changes and full state. `missed` is history, updated by
cause: an event dropped at the full channel or given up after its last attempt with no later
event of the object behind it; a UID replaced between two lists; what a restart lost; what
changed after the snapshot listed it and was sent before it. A later event or snapshot takes the
UID out again.

Operators whose name ends in `_bug` are deliberate mistakes, one per property, that no
specification refers to; substituted for the definition they are named after, they make TLC
report the property (`PROJECT.json`, "mutants").

## 3. Runs

Safety runs use `Spec`, runs with liveness `LiveSpec`. The system may stop in all of them
(bounds are used up, or nobody calls), so deadlock is not checked: progress is stated by the
liveness properties.

| Run | Question | Bounds |
|---|---|---|
| `ingestion_manager` | lifecycle and event accounting, refinement of `EventStream` | 2 callers (a Start and a Stop can overlap in every way), 2 starts (one generation against the next), a buffer of 2, 3 events (the buffer overflows) |
| `ingestion_manager_live` | calls return, processors exit, queues move | as above, buffer 1, 1 event |
| `token_manager` | single flight, wakeups, expiry, failures, termination, refinement of `SharedToken` | 3 callers (leader, waiter, late arrival), 4 calls, 2 credentials, lifetimes below and above the buffer, 5 instants |
| `transport_client` | duplicates, health, termination | 2 senders, 3 requests, 3 attempts: the loop's first, middle and last turn; the code's 5 adds nothing new |
| `reconciler` | scheduling, status with refinement of `AgentStatus`, ownership, cleanup, progress of the worker, probes against the lock | 1 agent, 2 objects (a deletion and a recreation), 1 edit or restart (`MaxUpsets`: an edit only makes the held version stale, as a deletion does too, and a restart forgets it), 1 probe. Agents share only the worker, the queue and the lock; the theorems hold for any set of agents and probes |
| `resource_sync` | does the platform end up with the cluster's state, and if not, why | 2 kinds (a snapshot is listed in more than one step), 3 changes (created, modified, deleted; or deleted and recreated), buffer 1 (overflows), 1 relist or restart. How several of those combine is what the theorems are for, which hold for any number |
| `payload` | which changes of an object can the platform see | one object of each of the twenty kinds, edited one field at a time; two or three values per field, so that each branch of the conversions is taken |

The largest, `transport_client`, has 1 075 673 states and takes about two minutes; `reconciler` (392 604),
with three liveness properties, takes about three, the others less.

Five statements of the code's comments, of the docs and of a test plan are checked as such and
fail; each is a run of its own:

| Run | Statement | What happens |
|---|---|---|
| `token_rotation` | `token.go:151` the token is invalidated to force a refresh with the new credentials | a refresh in flight caches a token of the old ones afterwards |
| `ingestion_drain` | `TEST_PLAN_GH11.md:57` pending events are drained on shutdown | the select takes an event after the cancellation, the limiter refuses it |
| `reconciler_deleted` | controller, line 122: the object deleted, ingestion is stopped | the goroutine enters Start after Stop was called |
| `reconciler_restart` | controller, line 158: the manager is always started if not running | a manager that failed to sync stays in the map, stopped |
| `reconciler_unsynced` | controller, line 166: waiting for the manager ensures accurate counts | `IsStarted` holds before the caches have synced |

### Fairness

Only what the runtime, timers, client-go and controller-runtime guarantee is assumed: goroutines
that can run do, timeouts fire, informers end after their stop channel was closed, watches
deliver. Strong fairness is used three times: for the lock that a failing `Start` needs for its `Stop`
(Go mutexes hand over to starving waiters), for an agent in the workqueue (first in, first
out), and for a probe that waits for `agentClientsMu` (a `sync.RWMutex` lets the readers that
wait in when its writer leaves, even if the next writer is there already). In `ResourceSync`, whose question is where a change goes once informers run, lists and
watches are fair as well, and `SendEvent` returns, as its context has 30 s; no snapshot need ever
arrive. In `Reconciler` a manager's `Stop` comes to its end, which is `StopReturns` of
`IngestionManager`, and reads of an agent in the queue do not fail for ever. Elsewhere nothing is assumed of users, of the platform, of caches syncing, or of which
ready case a `select` takes. `QueueMoves` and `ProcessorExits` therefore exempt a `SendEvent` that hangs.

## 4. Theorems

All are about `Spec` with arbitrary constants under the modules' named assumptions; each
invariant is the consequence of an inductive one, checked by TLC before it was proved.

* `IngestionManagerProofs`. `IInv` adds to the stated invariants who holds the lock and for which
  generation, that generations older than `gen` are closed and quiet, and that sent events come
  before waiting ones. It is needed because the properties speak of moments when the lock is
  free, while `Stop` breaks them in between. Lifecycle, pipeline and order are proved apart, then
  combined; `Refinement` maps each step to `Emit`, `Deliver`, `Overlap` or a stutter, and
  `LifecycleRefinement` to `StartUp`, `Sync`, `Halt` or a stutter.
* `TokenManagerProofs`. The leader is unique, owns `refreshCh`, and the expiry it holds is late by
  at most the duration of its exchange, which the HTTP timeout bounds; its answer is of the
  credentials it began with (`AnswerInv`). `TokenRefinement` maps `SlowLead` to `Begin`,
  `FinishRefresh` to `Replace` or `Fail`, `UpdateCredentials` to `Rotate`, the rest to stutters: a
  failing refresh never throws a fresh token away, and a token of old credentials can enter the
  cache only from a refresh that was under way when they changed - which is how `token_rotation`
  fails, and the only way it can.
* `TransportClientProofs`. The number of attempts that may have been processed is bounded by
  the 5xx answers before them, and those by the attempts, hence by `maxRetries`; contact
  precedes health. For `HealthWithoutOverlap`, `HealthInv` says in the middle of a recording
  which of the four stores already have the new outcome and which still the old one.
* `ReconcilerProofs`. The held copy, while fresh, equals the stored object or is ahead of it
  only by what this call did, a snapshot by one that was accepted (`StatusInv`); hence every
  successful write is a `Report` of `AgentStatus`, and no other step but a creation or a
  deletion touches its stage: `StatusRefinement`. `TypeCorrect` bounds the managers by the
  objects created: `CountInv` says which agents have one to spare when cache, object and held
  copy disagree about which object is there. `OwnerInv` keeps a manager with its client until
  `Stop` is through with it, and every manager that can still run without one in `orphaned`:
  `ManagersHaveOwners`. `ProbesReadInPeace` follows from who can hold the lock.
* `PayloadProofs`. `Noninterference` takes any two objects that agree up to values and orders and
  shows, kind by kind, that their infos are equal; `SecretsStay` and `OrderStays` apply it to an
  update. They hold for any `Domain` of the fields, not only for the values TLC tries.
* `ResourceSyncProofs`, `ResourceEventsProofs`, `ResourceViewProofs`. Along the way of a kind -
  what the handlers have seen, the notifications, the cache, the changes not yet delivered by
  the watch, the cluster - the states of one object are neighbours and their versions grow
  (`ChainInv`); whatever a list, a watch or a handler does draws a chain from a chain. What was
  said of an object is no newer than what the handlers saw of it (`SaidInv`): `EventsInOrder`.
  Then, of a UID that is not `missed`, `LastWordInv`: the last event on its way says what the
  handlers have seen; `QuietInv`: where no notification will make an event, the handlers have
  seen what is in the cache (a relist notifies of unchanged objects); `SnapshotInv`: a snapshot
  has what the caches have of what did not change since; `KnownInv`: with no event left, the
  platform has what was seen. Together, with `WatchInv`, by which what a watch has yet to
  deliver ends in the cluster's state, they are `Converged`. `BuriedInv` keeps a confirmed
  deletion off the whole way: `NoResurrection`. None of it bounds kinds, changes, relists,
  restarts or the buffer.

With these every invariant that a passing run checks is a theorem. Only model-checked: the
liveness properties `StopReturns`, `StartReturnsWhenDown`, `ProcessorExits`, `QueueMoves`,
`CallsReturn`, `SendsReturn`, `DeletedAgentCleaned`, `AgentsServed`, `ProbesAnswered` and
`CatchesUp`, since the prover has no fairness; and the five statements that fail.

## 5. Where documents and code differ

Besides the runs that fail, these were met while modelling. The models follow the code.

* `ARCHITECTURE.md:251`: on 401 the token is refreshed and the request retried once. The client
  ends the request; the cached token stays until it is stale.
* `README.md:249`: `Available` is reported as a condition, but is never set to False; a failing
  connection does not set `Degraded` (`README.md:251`).
* `types.go:266`: the comment has the flag for running as root true if `runAsUser` is 0; the code
  also sets it where `runAsNonRoot` is false.
* `CheckReady` counts a process without clients as ready, and contact is made by any request,
  not only by a snapshot or heartbeat.
* `API_CONTRACT.md:60`: a snapshot is sent on startup. After a restart of the operator none is, as
  the time of the first is in the status; what was lost in between stays in `missed`.
* `cmd/main.go:104`: the liveness probe includes the health of the platform, so that an outage of
  the platform restarts the operator, with the consequence just named.

## 6. Not modelled

* `Reconciler`: the conditions other than Available, `ResourceCounts`, the interval of heartbeats,
  and the spec's fields. Two hazards are therefore without a property: a changed `platformURL`
  that a cached client ignores (controller, line 250), and how often status writes and watches
  wake `Reconcile` (line 513), which takes a clock.
* `Payload`: `SnapshotPayload`, `EventPayload`, JSON tags: envelopes without behaviour.
* `ResourceSync`: a list reads what the cluster has at that moment. An API server may answer the
  first list of a restarted operator from an older cache; the watch then makes up for it.
* `ResourceSync`: a request that the client has given up is not processed by the platform
  afterwards. That an event may be processed twice is `TransportClient`'s
  `DuplicatesNeedServerError`; what the platform does with an event is idempotent in the model.
* `IngestionManager`: `processEvents` evaluates `m.doneCh` when its goroutine first runs, not when
  it is created; the model takes the channel of its own generation.
* `TokenManager` and `TransportClient` are not composed: a token that cannot be had is one of the
  outcomes of an attempt. `UpdateTokenProvider` has no caller in the operator.
* `cmd/main.go` apart from probes, shutdown and restart: flags, scheme, leader election.
* Generated deep copies, the CRD, the chart and other deployment files: no behaviour of their own.
