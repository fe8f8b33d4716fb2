--------------------------- MODULE IngestionManager ---------------------------
(***************************************************************************)
(* The lifecycle and the event pipeline of internal/ingestion: Manager     *)
(* (manager.go) with the ingesters that feed it (generic_ingester.go).     *)
(*                                                                         *)
(* Callers are goroutines that call Start and Stop.  Every successful pass *)
(* through the locked part of Start creates a new generation: a stop       *)
(* channel, a done channel, a processor context, an informer factory and   *)
(* an event processor goroutine.  The event channel and the rate limiter   *)
(* belong to the Manager and are shared by all generations.                *)
(*                                                                         *)
(* An event is its emission number.  A SendEvent call that started may end *)
(* at any time or never: nothing here relies on the platform.              *)
(***************************************************************************)
EXTENDS Naturals, Sequences, FiniteSets

CONSTANTS
    Callers,     \* goroutines that call Start and Stop
    NoCaller,    \* value of mu when no Stop holds it
    BufferSize,  \* capacity of eventChan (EventBufferSize)
    MaxStarts,   \* bound: successful entries into Start
    MaxEvents    \* bound: events emitted by informers

ASSUME ManagerAssumption ==
    /\ NoCaller \notin Callers
    /\ BufferSize \in Nat \ {0}
    /\ MaxStarts \in Nat
    /\ MaxEvents \in Nat

Gen == 1..MaxStarts
Event == 1..MaxEvents

VARIABLES
    mu,            \* the caller inside Stop; every other critical section is one step
    started,       \* Manager.started
    gen,           \* the generation whose channels, context and factory the fields hold
    closed,        \* generations whose stopCh is closed and procCtx cancelled
    parentDone,    \* the context given to Start is cancelled (the operator shuts down)
    informers,     \* per generation: "none", "running" or "stopped"
    synced,        \* generations whose informer caches have synced
    proc,          \* per generation, the event processor; "done" means doneCh is closed
    draining,      \* generations whose processor is in drainEvents
    drainExpired,  \* generations whose 5 s drain context has expired
    hand,          \* per generation, the event waiting for the rate limiter, 0 if none
    eventChan,     \* the buffered channel
    pc,            \* per caller: the place in Start or Stop
    watch,         \* per caller: the generation whose factory or stopCh Start has read
    offered,       \* history: number of events emitted
    sent,          \* history: events handed to EventSender.SendEvent
    dropped,       \* history: events dropped because eventChan was full
    abandoned,     \* history: events taken from eventChan and discarded unsent
    overrun        \* history: some Stop timed out on a processor that still ran

lifecycleVars == <<mu, started, gen, closed, parentDone, informers, synced, pc, watch>>
pipelineVars == <<proc, draining, drainExpired, hand, eventChan,
                  offered, sent, dropped, abandoned>>
vars == <<lifecycleVars, pipelineVars, overrun>>

ProcState == {"none", "select", "limiter", "sending", "done"}
InStart == {"starting", "syncing", "waiting", "failing"}
InStop == {"stopWait", "stopShutdown"}

TypeOK ==
    /\ mu \in Callers \cup {NoCaller}
    /\ started \in BOOLEAN
    /\ gen \in 0..MaxStarts
    /\ closed \subseteq Gen
    /\ parentDone \in BOOLEAN
    /\ informers \in [Gen -> {"none", "running", "stopped"}]
    /\ synced \subseteq Gen
    /\ proc \in [Gen -> ProcState]
    /\ draining \subseteq Gen
    /\ drainExpired \subseteq draining
    /\ hand \in [Gen -> 0..MaxEvents]
    /\ eventChan \in Seq(Event)
    /\ Len(eventChan) <= BufferSize
    /\ pc \in [Callers -> {"idle"} \cup InStart \cup InStop]
    /\ watch \in [Callers -> 0..MaxStarts]
    /\ offered \in 0..MaxEvents
    /\ sent \subseteq Event
    /\ dropped \subseteq Event
    /\ abandoned \subseteq Event
    /\ overrun \in BOOLEAN

Init ==
    /\ mu = NoCaller
    /\ started = FALSE
    /\ gen = 0
    /\ closed = {}
    /\ parentDone = FALSE
    /\ informers = [g \in Gen |-> "none"]
    /\ synced = {}
    /\ proc = [g \in Gen |-> "none"]
    /\ draining = {}
    /\ drainExpired = {}
    /\ hand = [g \in Gen |-> 0]
    /\ eventChan = << >>
    /\ pc = [c \in Callers |-> "idle"]
    /\ watch = [c \in Callers |-> 0]
    /\ offered = 0
    /\ sent = {}
    /\ dropped = {}
    /\ abandoned = {}
    /\ overrun = FALSE

Live(g) == proc[g] \in {"select", "limiter", "sending"}

\* Operators whose name ends in _bug are wrong on purpose: each is a mistake the
\* code could contain, kept to show which property notices it.  No specification
\* refers to them.

\* procCtx is derived from the context of Start and cancelled by Stop.
ProcCtxDone_bug(g) == g \in closed
ProcCtxDone(g) == parentDone \/ g \in closed

\* The context sendEvent gets: the drain context inside drainEvents, else procCtx.
EventCtxDone(g) == IF g \in draining THEN g \in drainExpired ELSE ProcCtxDone(g)

-----------------------------------------------------------------------------
(* Start *)

\* The locked part of Start when the manager is stopped: a new generation.
Start(c) ==
    /\ pc[c] = "idle" /\ mu = NoCaller
    /\ ~started /\ gen < MaxStarts
    /\ started' = TRUE
    /\ gen' = gen + 1
    /\ proc' = [proc EXCEPT ![gen + 1] = "select"]
    /\ informers' = [informers EXCEPT ![gen + 1] = "running"]
    /\ pc' = [pc EXCEPT ![c] = "starting"]
    /\ UNCHANGED <<mu, closed, parentDone, synced, watch, draining, drainExpired,
                   hand, eventChan, offered, sent, dropped, abandoned, overrun>>

\* RegisterHandlers fails: Start returns the error with started set, stopCh
\* open and neither a processor nor informers.
StartRegisterFails(c) ==
    /\ pc[c] = "idle" /\ mu = NoCaller
    /\ ~started /\ gen < MaxStarts
    /\ started' = TRUE
    /\ gen' = gen + 1
    /\ UNCHANGED <<mu, closed, parentDone, informers, synced, pc, watch,
                   pipelineVars, overrun>>

\* waitForCacheSync reads m.informerFactory after the lock was released: it is
\* the factory of the latest generation, which need not be the caller's own.
ReadFactory(c) ==
    /\ pc[c] = "starting"
    /\ pc' = [pc EXCEPT ![c] = "syncing"]
    /\ watch' = [watch EXCEPT ![c] = gen]
    /\ UNCHANGED <<mu, started, gen, closed, parentDone, informers, synced,
                   pipelineVars, overrun>>

\* WaitForCacheSync asks the informers that the factory has started: there are none
\* when the handlers of its generation failed to register, and nothing is waited for.
FactorySynced(g) == g \in synced \/ informers[g] = "none"

\* Caches have synced; the final select evaluates m.stopCh, again unlocked.
SyncOK(c) ==
    /\ pc[c] = "syncing" /\ FactorySynced(watch[c])
    /\ pc' = [pc EXCEPT ![c] = "waiting"]
    /\ watch' = [watch EXCEPT ![c] = gen]
    /\ UNCHANGED <<mu, started, gen, closed, parentDone, informers, synced,
                   pipelineVars, overrun>>

\* 60 s pass or the context is cancelled first: Start goes on to call Stop.
SyncFails(c) ==
    /\ pc[c] = "syncing"
    /\ pc' = [pc EXCEPT ![c] = "failing"]
    /\ watch' = [watch EXCEPT ![c] = 0]
    /\ UNCHANGED <<mu, started, gen, closed, parentDone, informers, synced,
                   pipelineVars, overrun>>

\* The final select of Start fires.
StartWoken_bug(c) == parentDone
StartWoken(c) == parentDone \/ watch[c] \in closed

StartReturns(c) ==
    /\ pc[c] = "waiting" /\ StartWoken(c)
    /\ pc' = [pc EXCEPT ![c] = "idle"]
    /\ watch' = [watch EXCEPT ![c] = 0]
    /\ UNCHANGED <<mu, started, gen, closed, parentDone, informers, synced,
                   pipelineVars, overrun>>

-----------------------------------------------------------------------------
(* Stop, called by a user of the manager or by a Start whose sync failed *)

\* Stop takes mu, closes stopCh and cancels procCtx; it keeps mu to its end.
StopBegin(c) ==
    /\ pc[c] \in {"idle", "failing"} /\ mu = NoCaller
    /\ started
    /\ mu' = c
    /\ closed' = closed \cup {gen}
    /\ pc' = [pc EXCEPT ![c] = "stopWait"]
    /\ UNCHANGED <<started, gen, parentDone, informers, synced, watch,
                   pipelineVars, overrun>>

\* Stop of a manager that is not started returns at once.
StopNotStarted(c) ==
    /\ pc[c] = "failing" /\ mu = NoCaller
    /\ ~started
    /\ pc' = [pc EXCEPT ![c] = "idle"]
    /\ UNCHANGED <<mu, started, gen, closed, parentDone, informers, synced, watch,
                   pipelineVars, overrun>>

\* Stop waits for doneCh.
DoneChClosed_bug == TRUE
DoneChClosed == proc[gen] = "done"

StopProcessorDone(c) ==
    /\ pc[c] = "stopWait" /\ DoneChClosed
    /\ pc' = [pc EXCEPT ![c] = "stopShutdown"]
    /\ UNCHANGED <<mu, started, gen, closed, parentDone, informers, synced, watch,
                   pipelineVars, overrun>>

\* 10 s pass first.
StopTimeout_bug(c) == FALSE
StopTimeout(c) ==
    /\ pc[c] = "stopWait"
    /\ pc' = [pc EXCEPT ![c] = "stopShutdown"]
    /\ overrun' = (overrun \/ Live(gen))
    /\ UNCHANGED <<mu, started, gen, closed, parentDone, informers, synced, watch,
                   pipelineVars>>

\* informerFactory.Shutdown waits for the informers; then Stop returns.
InformersDown_bug == TRUE
InformersDown == informers[gen] # "running"

StopShutdown_bug(c) ==
    /\ pc[c] = "stopShutdown" /\ InformersDown
    /\ mu' = NoCaller
    /\ pc' = [pc EXCEPT ![c] = "idle"]
    /\ UNCHANGED <<started, gen, closed, parentDone, informers, synced, watch,
                   pipelineVars, overrun>>

StopShutdown(c) ==
    /\ pc[c] = "stopShutdown" /\ InformersDown
    /\ started' = FALSE
    /\ mu' = NoCaller
    /\ pc' = [pc EXCEPT ![c] = "idle"]
    /\ UNCHANGED <<gen, closed, parentDone, informers, synced, watch,
                   pipelineVars, overrun>>

-----------------------------------------------------------------------------
(* Environment: the informers of client-go and the parent context *)

CachesSync(g) ==
    /\ informers[g] = "running" /\ g \notin synced
    /\ synced' = synced \cup {g}
    /\ UNCHANGED <<mu, started, gen, closed, parentDone, informers, pc, watch,
                   pipelineVars, overrun>>

\* Informers stop once their stopCh is closed; no handler runs afterwards.
InformersExit(g) ==
    /\ informers[g] = "running" /\ g \in closed
    /\ informers' = [informers EXCEPT ![g] = "stopped"]
    /\ UNCHANGED <<mu, started, gen, closed, parentDone, synced, pc, watch,
                   pipelineVars, overrun>>

ParentCancel ==
    /\ ~parentDone
    /\ parentDone' = TRUE
    /\ UNCHANGED <<mu, started, gen, closed, informers, synced, pc, watch,
                   pipelineVars, overrun>>

\* A handler of generation g builds the next event and sends it to eventChan
\* without blocking: the event is dropped when the channel is full.
ChanHasRoom_bug == Len(eventChan) <= BufferSize
ChanHasRoom == Len(eventChan) < BufferSize

SendToChan(g) ==
    /\ informers[g] = "running" /\ offered < MaxEvents
    /\ offered' = offered + 1
    /\ \/ /\ ChanHasRoom
          /\ eventChan' = Append(eventChan, offered + 1)
          /\ UNCHANGED dropped
       \/ /\ ~ChanHasRoom
          /\ dropped' = dropped \cup {offered + 1}
          /\ UNCHANGED eventChan
    /\ UNCHANGED <<lifecycleVars, proc, draining, drainExpired, hand, sent,
                   abandoned, overrun>>

-----------------------------------------------------------------------------
(* The event processor of generation g *)

\* The loop of processEvents or drainEvents receives an event: select takes any
\* ready case, so this may happen after the context is done.  limiter.Wait then
\* fails at once and the event is discarded.
EventReady_bug == Len(eventChan) > 1
EventReady == eventChan # << >>

Receive(g) ==
    /\ proc[g] = "select" /\ EventReady
    /\ eventChan' = Tail(eventChan)
    /\ \/ /\ EventCtxDone(g)
          /\ abandoned' = abandoned \cup {Head(eventChan)}
          /\ UNCHANGED <<proc, hand>>
       \/ /\ ~EventCtxDone(g)
          /\ proc' = [proc EXCEPT ![g] = "limiter"]
          /\ hand' = [hand EXCEPT ![g] = Head(eventChan)]
          /\ UNCHANGED abandoned
    /\ UNCHANGED <<lifecycleVars, draining, drainExpired, offered, sent, dropped, overrun>>

\* A token is granted: SendEvent is called with the event.
LimiterPass(g) ==
    /\ proc[g] = "limiter"
    /\ proc' = [proc EXCEPT ![g] = "sending"]
    /\ hand' = [hand EXCEPT ![g] = 0]
    /\ sent' = sent \cup {hand[g]}
    /\ UNCHANGED <<lifecycleVars, draining, drainExpired, eventChan, offered,
                   dropped, abandoned, overrun>>

\* limiter.Wait fails: its context ends, or (the drain context has a deadline)
\* the next token would come too late.  sendEvent discards the event.
WaitFails_bug(g) == TRUE
WaitFails(g) == EventCtxDone(g) \/ g \in draining

LimiterFails_bug(g) ==
    /\ proc[g] = "limiter" /\ WaitFails(g)
    /\ proc' = [proc EXCEPT ![g] = "select"]
    /\ hand' = [hand EXCEPT ![g] = 0]
    /\ eventChan' = Append(eventChan, hand[g])
    /\ UNCHANGED <<lifecycleVars, draining, drainExpired, offered, sent,
                   dropped, abandoned, overrun>>

LimiterFails(g) ==
    /\ proc[g] = "limiter" /\ WaitFails(g)
    /\ proc' = [proc EXCEPT ![g] = "select"]
    /\ hand' = [hand EXCEPT ![g] = 0]
    /\ abandoned' = abandoned \cup {hand[g]}
    /\ UNCHANGED <<lifecycleVars, draining, drainExpired, eventChan, offered,
                   sent, dropped, overrun>>

\* SendEvent returns; an error is only logged.
SendReturns(g) ==
    /\ proc[g] = "sending"
    /\ proc' = [proc EXCEPT ![g] = "select"]
    /\ UNCHANGED <<lifecycleVars, draining, drainExpired, hand, eventChan, offered,
                   sent, dropped, abandoned, overrun>>

\* processEvents sees its context done.
BeginDrain(g) ==
    /\ proc[g] = "select" /\ g \notin draining
    /\ ProcCtxDone(g)
    /\ draining' = draining \cup {g}
    /\ UNCHANGED <<lifecycleVars, proc, drainExpired, hand, eventChan, offered,
                   sent, dropped, abandoned, overrun>>

\* 5 s of draining have passed.
DrainExpire(g) ==
    /\ Live(g) /\ g \in draining \ drainExpired
    /\ drainExpired' = drainExpired \cup {g}
    /\ UNCHANGED <<lifecycleVars, proc, draining, hand, eventChan, offered,
                   sent, dropped, abandoned, overrun>>

\* drainEvents finds the channel empty or its time over; doneCh is closed.
FinishDrain(g) ==
    /\ proc[g] = "select" /\ g \in draining
    /\ eventChan = << >> \/ g \in drainExpired
    /\ proc' = [proc EXCEPT ![g] = "done"]
    /\ UNCHANGED <<lifecycleVars, draining, drainExpired, hand, eventChan, offered,
                   sent, dropped, abandoned, overrun>>

-----------------------------------------------------------------------------

Caller(c) ==
    \/ Start(c) \/ StartRegisterFails(c) \/ ReadFactory(c)
    \/ SyncOK(c) \/ SyncFails(c) \/ StartReturns(c)
    \/ StopBegin(c) \/ StopNotStarted(c)
    \/ StopProcessorDone(c) \/ StopTimeout(c) \/ StopShutdown(c)

Informers(g) == CachesSync(g) \/ InformersExit(g) \/ SendToChan(g)

Processor(g) ==
    \/ Receive(g) \/ LimiterPass(g) \/ LimiterFails(g) \/ SendReturns(g)
    \/ BeginDrain(g) \/ DrainExpire(g) \/ FinishDrain(g)

Next ==
    \/ \E c \in Callers : Caller(c)
    \/ \E g \in Gen : Informers(g) \/ Processor(g)
    \/ ParentCancel

Spec == Init /\ [][Next]_vars

\* What the Go runtime, timers and client-go guarantee.  Calls of Start and Stop,
\* new events, cache syncs and the end of a SendEvent call are not guaranteed.
\* Strong fairness on the lock: Go mutexes do not starve a waiter.  Which ready
\* case a select takes is left open, although Go picks one at random.
Fairness ==
    /\ \A c \in Callers :
         /\ WF_vars(ReadFactory(c))
         /\ WF_vars(SyncOK(c) \/ SyncFails(c))
         /\ WF_vars(StartReturns(c))
         /\ SF_vars(pc[c] = "failing" /\ (StopBegin(c) \/ StopNotStarted(c)))
         /\ WF_vars(StopProcessorDone(c) \/ StopTimeout(c))
         /\ WF_vars(StopShutdown(c))
    /\ \A g \in Gen :
         /\ WF_vars(InformersExit(g))
         /\ WF_vars(Receive(g) \/ BeginDrain(g) \/ FinishDrain(g))
         /\ WF_vars(DrainExpire(g))
         /\ WF_vars(LimiterPass(g) \/ LimiterFails(g))

LiveSpec == Spec /\ Fairness

-----------------------------------------------------------------------------
(* Safety *)

\* IsStarted and the guard of GetCurrentState: an answer is given when no Stop
\* holds the lock.
IsStarted == mu = NoCaller /\ started

\* stopCh of a manager that reads as started is open, so the close in Stop never
\* hits a closed channel (which would panic), whoever called Stop before.
StopChOpenWhileStarted == IsStarted => gen \notin closed

\* When Stop has returned nothing of its generation is left: no informer runs,
\* and the event processor is gone unless Stop gave up waiting for it.
StoppedMeansQuiet ==
    (mu = NoCaller /\ ~started) =>
        \A g \in Gen : informers[g] # "running" /\ (Live(g) => overrun)

\* A snapshot or a resource count is never read from informers that were stopped:
\* GetCurrentState succeeds only on the latest factory, which then runs or, where its
\* handlers failed to register, was never started.
StateFromLiveInformers == IsStarted => informers[gen] # "stopped"

\* Events are processed by one goroutine at a time, so that their order is kept,
\* unless some Stop timed out.
SingleProcessor ==
    overrun \/ \A g, h \in Gen : Live(g) /\ Live(h) => g = h

\* Conservation: an emitted event is in exactly one place - the channel, the
\* processor's hand, handed to the sender, dropped at the channel, or discarded.
Held == {hand[g] : g \in Gen} \ {0}
Queued == {eventChan[i] : i \in 1..Len(eventChan)}
EventsAccounted ==
    /\ Queued \cup Held \cup sent \cup dropped \cup abandoned = 1..offered
    /\ \A i, j \in 1..Len(eventChan) : i < j => eventChan[i] < eventChan[j]
    /\ \A g, h \in Gen : hand[g] = hand[h] => g = h \/ hand[g] = 0
    /\ Queued \cap (Held \cup sent \cup dropped \cup abandoned) = {}
    /\ Held \cap (sent \cup dropped \cup abandoned) = {}
    /\ sent \cap (dropped \cup abandoned) = {}
    /\ dropped \cap abandoned = {}

\* While nobody stops the manager no received event is discarded unsent.
LossOnlyAtShutdown == abandoned # {} => parentDone \/ closed # {}

\* The pipeline implements the abstract event stream: each event is handed to
\* the sender at most once, in emission order unless processors overlapped.
Stream == INSTANCE EventStream WITH delivered <- sent, overlap <- overrun
ImplementsEventStream == Stream!StreamSpec

\* The manager as its users see it: a Stop takes effect when it takes the lock, for
\* nobody gets an answer before it returns.
ManagerState ==
    IF mu # NoCaller THEN "stopped"
    ELSE IF ~started THEN IF gen = 0 THEN "created" ELSE "stopped"
    ELSE IF informers[gen] = "none" THEN "broken"
    ELSE IF gen \in synced THEN "synced" ELSE "unsynced"

\* However Start and Stop of several callers interleave, and whichever generation
\* each of them is about, the manager has one simple life cycle.
Lifecycle == INSTANCE ManagerLifecycle WITH state <- ManagerState
ImplementsLifecycle == Lifecycle!LifecycleSpec

\* docs/TEST_PLAN_GH11.md: "Pending events drained on shutdown".  An event in the
\* buffer at shutdown is handed to the sender unless the drain ran out of time.
\* A processor whose select takes the event before it sees the cancellation
\* loses the event although no drain has expired or even begun.
PendingEventsDrained == abandoned # {} => draining # {}

-----------------------------------------------------------------------------
(* Liveness, under LiveSpec *)

\* Stop returns, from whatever call, also when the processor hangs in SendEvent.
StopReturns == \A c \in Callers : (pc[c] \in InStop \cup {"failing"}) ~> (pc[c] = "idle")

\* A Start in flight returns once the manager is down or the operator shuts down,
\* even if the Start and the Stop came from different generations.
StartReturnsWhenDown ==
    \A c \in Callers :
        (pc[c] # "idle" /\ (parentDone \/ (~started /\ mu = NoCaller))) ~>
            (pc[c] = "idle" \/ (started /\ ~parentDone))

\* The processor of a cancelled generation exits, unless SendEvent never returns.
ProcessorExits ==
    \A g \in Gen : (Live(g) /\ (parentDone \/ g \in closed)) ~> (proc[g] \in {"done", "sending"})

\* A queued event does not stay queued while a processor is there to take it.
QueueMoves ==
    \A e \in Event :
        (e \in Queued /\ IsStarted /\ Live(gen)) ~>
            (e \notin Queued \/ ~IsStarted \/ parentDone \/ \E g \in Gen : proc[g] = "sending")
==============================================================================
