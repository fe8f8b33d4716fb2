------------------------ MODULE IngestionManagerProofs ------------------------
(***************************************************************************)
(* Safety of IngestionManager for any set of callers, any channel capacity *)
(* and any number of starts and events.                                    *)
(*                                                                         *)
(* None of the safety properties is inductive.  LifecycleInv relates the   *)
(* lock, the caller inside Stop and what is left of each generation;       *)
(* PipelineInv says where each event is and that everything that left the  *)
(* channel left it before what is still in it; OrderInv, which needs both, *)
(* orders the events in the processor's hand after those already sent.     *)
(***************************************************************************)
EXTENDS IngestionManager, SequenceTheorems, TLAPS

LifecycleInv ==
    /\ \A c \in Callers : pc[c] \in InStop <=> mu = c
    /\ mu # NoCaller => started /\ gen \in closed
    /\ started => gen \in Gen
    /\ IsStarted => gen \notin closed
    /\ \A c \in Callers : pc[c] = "stopShutdown" => (Live(gen) => overrun)
    /\ \A g \in Gen : g > gen => /\ g \notin closed
                                 /\ informers[g] = "none"
                                 /\ proc[g] = "none"
    /\ \A g \in Gen : informers[g] = "stopped" => g \in closed
    /\ \A g \in Gen : (g < gen \/ (~started /\ g = gen)) =>
           informers[g] # "running" /\ (Live(g) => overrun)

Gone == sent \cup dropped \cup abandoned

QueuedFresh ==
    \A i \in 1..Len(eventChan) : eventChan[i] \in 1..offered /\ eventChan[i] \notin Gone
QueueSorted ==
    \A i, j \in 1..Len(eventChan) : i < j => eventChan[i] < eventChan[j]
LeftBeforeQueued ==
    \A i \in 1..Len(eventChan) :
        /\ \A e \in sent \cup abandoned : e < eventChan[i]
        /\ \A g \in Gen : hand[g] < eventChan[i]
HandFresh == \A g \in Gen : hand[g] \in 0..offered /\ hand[g] \notin Gone
HandInLimiter == \A g \in Gen : hand[g] # 0 <=> proc[g] = "limiter"
HandsDistinct == \A g, h \in Gen : hand[g] = hand[h] => g = h \/ hand[g] = 0
GoneOnce ==
    /\ Gone \subseteq 1..offered
    /\ sent \cap (dropped \cup abandoned) = {}
    /\ dropped \cap abandoned = {}
Placed ==
    \A e \in 1..offered : \/ e \in Gone
                         \/ \E g \in Gen : hand[g] = e
                         \/ \E i \in 1..Len(eventChan) : eventChan[i] = e

PipelineInv ==
    /\ QueuedFresh /\ QueueSorted /\ LeftBeforeQueued
    /\ HandFresh /\ HandInLimiter /\ HandsDistinct
    /\ GoneOnce /\ Placed

OrderInv ==
    ~overrun => \A g \in Gen : hand[g] # 0 => \A e \in sent : e < hand[g]


-----------------------------------------------------------------------------
(* What appending to and receiving from the channel do to its contents. *)

LEMMA AppendEvent ==
  ASSUME NEW S, NEW q \in Seq(S), NEW e \in S
  PROVE  /\ Append(q, e) \in Seq(S)
         /\ Len(q) \in Nat /\ Len(Append(q, e)) = Len(q) + 1
         /\ \A i \in 1..Len(q) : Append(q, e)[i] = q[i]
         /\ Append(q, e)[Len(q) + 1] = e
  BY AppendProperties, LenProperties

LEMMA ReceiveEvent ==
  ASSUME NEW S, NEW q \in Seq(S), q # << >>
  PROVE  /\ Head(q) \in S /\ Head(q) = q[1]
         /\ Tail(q) \in Seq(S)
         /\ Len(q) \in Nat \ {0} /\ Len(Tail(q)) = Len(q) - 1
         /\ \A i \in 1..Len(q) - 1 : Tail(q)[i] = q[i + 1]
  <1>1. /\ Head(q) \in S /\ Tail(q) \in Seq(S) /\ Len(Tail(q)) = Len(q) - 1
        /\ \A i \in 1..Len(Tail(q)) : Tail(q)[i] = q[i + 1]
    BY HeadTailProperties
  <1>2. Len(q) \in Nat \ {0}
    BY LenProperties, EmptySeq
  <1>3. Head(q) = q[1]
    OBVIOUS
  <1>4. QED
    BY <1>1, <1>2, <1>3

-----------------------------------------------------------------------------
(* Types.  The type of closed and of sent needs two facts besides: the       *)
(* generation is a proper one once started, the limiter holds an event.      *)

TypeInv ==
    /\ TypeOK
    /\ started => gen \in Gen
    /\ \A g \in Gen : proc[g] = "limiter" => hand[g] # 0

LEMMA EventRange == \A e : e \in Event <=> e \in 0..MaxEvents /\ e # 0
  BY ManagerAssumption DEF ManagerAssumption, Event

LEMMA NextEvent == \A n \in 0..MaxEvents : n < MaxEvents => n + 1 \in Event
  BY ManagerAssumption DEF ManagerAssumption, Event

LEMMA TypeInvInductive == TypeInv /\ [Next]_vars => TypeInv'
  <1> SUFFICES ASSUME TypeInv, [Next]_vars PROVE TypeInv'
    OBVIOUS
  <1> USE ManagerAssumption DEF TypeInv, TypeOK, ProcState, InStart, InStop
  <1>1. ASSUME NEW c \in Callers, Start(c) PROVE TypeInv'
    BY <1>1 DEF Start, lifecycleVars, pipelineVars, Gen
  <1>2. ASSUME NEW c \in Callers, StartRegisterFails(c) PROVE TypeInv'
    BY <1>2 DEF StartRegisterFails, lifecycleVars, pipelineVars, Gen
  <1>3. ASSUME NEW c \in Callers, ReadFactory(c) PROVE TypeInv'
    BY <1>3 DEF ReadFactory, lifecycleVars, pipelineVars
  <1>4. ASSUME NEW c \in Callers, SyncOK(c) PROVE TypeInv'
    BY <1>4 DEF SyncOK, lifecycleVars, pipelineVars
  <1>5. ASSUME NEW c \in Callers, SyncFails(c) PROVE TypeInv'
    BY <1>5 DEF SyncFails, lifecycleVars, pipelineVars
  <1>6. ASSUME NEW c \in Callers, StartReturns(c) PROVE TypeInv'
    BY <1>6 DEF StartReturns, StartWoken, lifecycleVars, pipelineVars
  <1>7. ASSUME NEW c \in Callers, StopBegin(c) PROVE TypeInv'
    BY <1>7 DEF StopBegin, lifecycleVars, pipelineVars
  <1>8. ASSUME NEW c \in Callers, StopNotStarted(c) PROVE TypeInv'
    BY <1>8 DEF StopNotStarted, lifecycleVars, pipelineVars
  <1>9. ASSUME NEW c \in Callers, StopProcessorDone(c) PROVE TypeInv'
    BY <1>9 DEF StopProcessorDone, DoneChClosed, lifecycleVars, pipelineVars
  <1>10. ASSUME NEW c \in Callers, StopTimeout(c) PROVE TypeInv'
    BY <1>10 DEF StopTimeout, lifecycleVars, pipelineVars
  <1>11. ASSUME NEW c \in Callers, StopShutdown(c) PROVE TypeInv'
    BY <1>11 DEF StopShutdown, InformersDown, lifecycleVars, pipelineVars
  <1>12. ASSUME NEW g \in Gen, CachesSync(g) PROVE TypeInv'
    BY <1>12 DEF CachesSync, lifecycleVars, pipelineVars
  <1>13. ASSUME NEW g \in Gen, InformersExit(g) PROVE TypeInv'
    BY <1>13 DEF InformersExit, lifecycleVars, pipelineVars
  <1>14. ASSUME NEW g \in Gen, SendToChan(g) PROVE TypeInv'
    <2>1. offered' = offered + 1 /\ offered + 1 \in Event
      BY <1>14, NextEvent DEF SendToChan, ChanHasRoom
    <2>2. eventChan' \in Seq(Event) /\ Len(eventChan') <= BufferSize
      <3>1. CASE eventChan' = Append(eventChan, offered + 1) /\ Len(eventChan) < BufferSize
        BY <2>1, <3>1, AppendEvent
      <3>2. CASE UNCHANGED eventChan
        BY <3>2
      <3>3. QED
        BY <1>14, <3>1, <3>2 DEF SendToChan, ChanHasRoom
    <2>3. offered' \in 0..MaxEvents /\ dropped' \subseteq Event
      BY <1>14, <2>1, EventRange DEF SendToChan, ChanHasRoom
    <2>4. QED
      BY <1>14, <2>2, <2>3 DEF SendToChan, ChanHasRoom, lifecycleVars
  <1>15. ASSUME NEW g \in Gen, Receive(g) PROVE TypeInv'
    <2>1. /\ Head(eventChan) \in Event
          /\ eventChan' \in Seq(Event) /\ Len(eventChan') <= BufferSize
      BY <1>15, ReceiveEvent DEF Receive, EventReady
    <2>2. CASE EventCtxDone(g)
      BY <1>15, <2>1, <2>2 DEF Receive, EventReady, lifecycleVars
    <2>3. CASE ~EventCtxDone(g)
      <3> DEFINE event == Head(eventChan)
      <3>1. event \in 0..MaxEvents \ {0}
        BY <2>1, EventRange
      <3> HIDE DEF event
      <3>2. /\ hand' = [hand EXCEPT ![g] = event]
            /\ proc' = [proc EXCEPT ![g] = "limiter"]
        BY <1>15, <2>3 DEF Receive, event
      <3>3. /\ hand' \in [Gen -> 0..MaxEvents] /\ proc' \in [Gen -> ProcState]
            /\ \A h \in Gen : proc'[h] = "limiter" => hand'[h] # 0
        BY <3>1, <3>2
      <3>4. QED
        BY <1>15, <2>1, <2>3, <3>3 DEF Receive, EventReady, lifecycleVars
    <2>4. QED
      BY <2>2, <2>3
  <1>16. ASSUME NEW g \in Gen, LimiterPass(g) PROVE TypeInv'
    <2>1. hand[g] \in Event
      BY <1>16, EventRange DEF LimiterPass
    <2>2. QED
      BY <1>16, <2>1 DEF LimiterPass, lifecycleVars
  <1>17. ASSUME NEW g \in Gen, LimiterFails(g) PROVE TypeInv'
    <2>1. hand[g] \in Event
      BY <1>17, EventRange DEF LimiterFails, WaitFails
    <2>2. QED
      BY <1>17, <2>1 DEF LimiterFails, WaitFails, lifecycleVars
  <1>18. ASSUME NEW g \in Gen, SendReturns(g) PROVE TypeInv'
    BY <1>18 DEF SendReturns, lifecycleVars, pipelineVars
  <1>19. ASSUME NEW g \in Gen, BeginDrain(g) PROVE TypeInv'
    BY <1>19 DEF BeginDrain, lifecycleVars, pipelineVars
  <1>20. ASSUME NEW g \in Gen, DrainExpire(g) PROVE TypeInv'
    BY <1>20 DEF DrainExpire, lifecycleVars, pipelineVars, Live
  <1>21. ASSUME NEW g \in Gen, FinishDrain(g) PROVE TypeInv'
    BY <1>21 DEF FinishDrain, lifecycleVars, pipelineVars
  <1>22. CASE ParentCancel
    BY <1>22 DEF ParentCancel, lifecycleVars, pipelineVars
  <1>23. CASE UNCHANGED vars
    BY <1>23 DEF vars, lifecycleVars, pipelineVars
  <1>24. QED
    BY <1>1, <1>2, <1>3, <1>4, <1>5, <1>6, <1>7, <1>8, <1>9, <1>10, <1>11, <1>12, <1>13, <1>14, <1>15, <1>16, <1>17, <1>18, <1>19, <1>20, <1>21, <1>22, <1>23
    DEF Next, Caller, Informers, Processor

LEMMA TypeInvInit == Init => TypeInv
  <1> SUFFICES ASSUME Init PROVE TypeInv
    OBVIOUS
  <1>1. eventChan \in Seq(Event) /\ Len(eventChan) <= BufferSize
    BY ManagerAssumption, EmptySeq DEF Init
  <1>2. gen \in 0..MaxStarts /\ offered \in 0..MaxEvents
    BY ManagerAssumption DEF Init
  <1>3. hand \in [Gen -> 0..MaxEvents] /\ watch \in [Callers -> 0..MaxStarts]
    BY ManagerAssumption DEF Init
  <1>4. QED
    BY <1>1, <1>2, <1>3 DEF Init, TypeInv, TypeOK, ProcState, InStart, InStop

\* Every variable keeps its type, whatever callers, informers and processors do.
THEOREM TypeCorrect == Spec => []TypeOK
  <1>1. TypeInv => TypeOK
    BY DEF TypeInv
  <1>2. QED
    BY <1>1, TypeInvInit, TypeInvInductive, PTL DEF Spec
-----------------------------------------------------------------------------
(* The lock, the stop channels and what is left of each generation. *)

LEMMA LifecycleInductive == TypeInv /\ LifecycleInv /\ [Next]_vars => LifecycleInv'
  <1> SUFFICES ASSUME TypeInv, LifecycleInv, [Next]_vars PROVE LifecycleInv'
    OBVIOUS
  <1> USE ManagerAssumption DEF TypeInv, TypeOK, LifecycleInv, IsStarted, InStop, Gen
  <1>1. ASSUME NEW c \in Callers, Start(c) PROVE LifecycleInv'
    BY <1>1 DEF Start, lifecycleVars, pipelineVars, Live
  <1>2. ASSUME NEW c \in Callers, StartRegisterFails(c) PROVE LifecycleInv'
    BY <1>2 DEF StartRegisterFails, lifecycleVars, pipelineVars, Live
  <1>3. ASSUME NEW c \in Callers, ReadFactory(c) PROVE LifecycleInv'
    BY <1>3 DEF ReadFactory, lifecycleVars, pipelineVars, Live
  <1>4. ASSUME NEW c \in Callers, SyncOK(c) PROVE LifecycleInv'
    BY <1>4 DEF SyncOK, lifecycleVars, pipelineVars, Live
  <1>5. ASSUME NEW c \in Callers, SyncFails(c) PROVE LifecycleInv'
    BY <1>5 DEF SyncFails, lifecycleVars, pipelineVars, Live
  <1>6. ASSUME NEW c \in Callers, StartReturns(c) PROVE LifecycleInv'
    BY <1>6 DEF StartReturns, StartWoken, lifecycleVars, pipelineVars, Live
  <1>7. ASSUME NEW c \in Callers, StopBegin(c) PROVE LifecycleInv'
    BY <1>7 DEF StopBegin, lifecycleVars, pipelineVars, Live
  <1>8. ASSUME NEW c \in Callers, StopNotStarted(c) PROVE LifecycleInv'
    BY <1>8 DEF StopNotStarted, lifecycleVars, pipelineVars, Live
  <1>9. ASSUME NEW c \in Callers, StopProcessorDone(c) PROVE LifecycleInv'
    BY <1>9 DEF StopProcessorDone, DoneChClosed, lifecycleVars, pipelineVars, Live
  <1>10. ASSUME NEW c \in Callers, StopTimeout(c) PROVE LifecycleInv'
    BY <1>10 DEF StopTimeout, lifecycleVars, pipelineVars, Live
  <1>11. ASSUME NEW c \in Callers, StopShutdown(c) PROVE LifecycleInv'
    BY <1>11 DEF StopShutdown, InformersDown, lifecycleVars, pipelineVars, Live
  <1>12. ASSUME NEW g \in Gen, CachesSync(g) PROVE LifecycleInv'
    BY <1>12 DEF CachesSync, lifecycleVars, pipelineVars, Live
  <1>13. ASSUME NEW g \in Gen, InformersExit(g) PROVE LifecycleInv'
    BY <1>13 DEF InformersExit, lifecycleVars, pipelineVars, Live
  <1>14. ASSUME NEW g \in Gen, SendToChan(g) PROVE LifecycleInv'
    BY <1>14 DEF SendToChan, ChanHasRoom, lifecycleVars, pipelineVars, Live
  <1>15. ASSUME NEW g \in Gen, Receive(g) PROVE LifecycleInv'
    BY <1>15 DEF Receive, EventReady, lifecycleVars, pipelineVars, Live
  <1>16. ASSUME NEW g \in Gen, LimiterPass(g) PROVE LifecycleInv'
    BY <1>16 DEF LimiterPass, lifecycleVars, pipelineVars, Live
  <1>17. ASSUME NEW g \in Gen, LimiterFails(g) PROVE LifecycleInv'
    BY <1>17 DEF LimiterFails, WaitFails, lifecycleVars, pipelineVars, Live
  <1>18. ASSUME NEW g \in Gen, SendReturns(g) PROVE LifecycleInv'
    BY <1>18 DEF SendReturns, lifecycleVars, pipelineVars, Live
  <1>19. ASSUME NEW g \in Gen, BeginDrain(g) PROVE LifecycleInv'
    BY <1>19 DEF BeginDrain, lifecycleVars, pipelineVars, Live
  <1>20. ASSUME NEW g \in Gen, DrainExpire(g) PROVE LifecycleInv'
    BY <1>20 DEF DrainExpire, lifecycleVars, pipelineVars, Live
  <1>21. ASSUME NEW g \in Gen, FinishDrain(g) PROVE LifecycleInv'
    BY <1>21 DEF FinishDrain, lifecycleVars, pipelineVars, Live
  <1>22. CASE ParentCancel
    BY <1>22 DEF ParentCancel, lifecycleVars, pipelineVars, Live
  <1>23. CASE UNCHANGED vars
    BY <1>23 DEF vars, lifecycleVars, pipelineVars, Live
  <1>24. QED
    BY <1>1, <1>2, <1>3, <1>4, <1>5, <1>6, <1>7, <1>8, <1>9, <1>10, <1>11, <1>12, <1>13, <1>14, <1>15, <1>16, <1>17, <1>18, <1>19, <1>20, <1>21, <1>22, <1>23
    DEF Next, Caller, Informers, Processor
-----------------------------------------------------------------------------
(* Where each event is. *)

LEMMA PipelineInductive == TypeInv /\ LifecycleInv /\ PipelineInv /\ [Next]_vars => PipelineInv'
  <1> SUFFICES ASSUME TypeInv, LifecycleInv, PipelineInv, [Next]_vars PROVE PipelineInv'
    OBVIOUS
  <1> USE DEF PipelineInv
  <1>1. ASSUME NEW c \in Callers, Start(c) PROVE PipelineInv'
    <2>1. gen + 1 \in Gen /\ proc[gen + 1] = "none" /\ hand[gen + 1] = 0
      BY <1>1, ManagerAssumption DEF Start, TypeInv, TypeOK, LifecycleInv, Gen, HandInLimiter
    <2>2. QueuedFresh'
      BY <1>1, <2>1 DEF Start, Gone, QueuedFresh
    <2>3. QueueSorted'
      BY <1>1, <2>1 DEF Start, Gone, QueueSorted
    <2>4. LeftBeforeQueued'
      BY <1>1, <2>1 DEF Start, Gone, LeftBeforeQueued
    <2>5. HandFresh'
      BY <1>1, <2>1 DEF Start, Gone, HandFresh
    <2>6. HandInLimiter'
      BY <1>1, <2>1 DEF Start, Gone, HandInLimiter, TypeInv, TypeOK
    <2>7. HandsDistinct'
      BY <1>1, <2>1 DEF Start, Gone, HandsDistinct
    <2>8. GoneOnce'
      BY <1>1, <2>1 DEF Start, Gone, GoneOnce
    <2>9. Placed'
      BY <1>1, <2>1 DEF Start, Gone, Placed
    <2>10. QED
      BY <2>2, <2>3, <2>4, <2>5, <2>6, <2>7, <2>8, <2>9
  <1>2. ASSUME NEW c \in Callers, StartRegisterFails(c) PROVE PipelineInv'
    BY <1>2 DEF StartRegisterFails, lifecycleVars, pipelineVars, TypeInv, TypeOK,
         Gone, QueuedFresh, QueueSorted, LeftBeforeQueued, HandFresh, HandInLimiter, HandsDistinct, GoneOnce, Placed
  <1>3. ASSUME NEW c \in Callers, ReadFactory(c) PROVE PipelineInv'
    BY <1>3 DEF ReadFactory, lifecycleVars, pipelineVars, TypeInv, TypeOK,
         Gone, QueuedFresh, QueueSorted, LeftBeforeQueued, HandFresh, HandInLimiter, HandsDistinct, GoneOnce, Placed
  <1>4. ASSUME NEW c \in Callers, SyncOK(c) PROVE PipelineInv'
    BY <1>4 DEF SyncOK, lifecycleVars, pipelineVars, TypeInv, TypeOK,
         Gone, QueuedFresh, QueueSorted, LeftBeforeQueued, HandFresh, HandInLimiter, HandsDistinct, GoneOnce, Placed
  <1>5. ASSUME NEW c \in Callers, SyncFails(c) PROVE PipelineInv'
    BY <1>5 DEF SyncFails, lifecycleVars, pipelineVars, TypeInv, TypeOK,
         Gone, QueuedFresh, QueueSorted, LeftBeforeQueued, HandFresh, HandInLimiter, HandsDistinct, GoneOnce, Placed
  <1>6. ASSUME NEW c \in Callers, StartReturns(c) PROVE PipelineInv'
    BY <1>6 DEF StartReturns, StartWoken, lifecycleVars, pipelineVars, TypeInv, TypeOK,
         Gone, QueuedFresh, QueueSorted, LeftBeforeQueued, HandFresh, HandInLimiter, HandsDistinct, GoneOnce, Placed
  <1>7. ASSUME NEW c \in Callers, StopBegin(c) PROVE PipelineInv'
    BY <1>7 DEF StopBegin, lifecycleVars, pipelineVars, TypeInv, TypeOK,
         Gone, QueuedFresh, QueueSorted, LeftBeforeQueued, HandFresh, HandInLimiter, HandsDistinct, GoneOnce, Placed
  <1>8. ASSUME NEW c \in Callers, StopNotStarted(c) PROVE PipelineInv'
    BY <1>8 DEF StopNotStarted, lifecycleVars, pipelineVars, TypeInv, TypeOK,
         Gone, QueuedFresh, QueueSorted, LeftBeforeQueued, HandFresh, HandInLimiter, HandsDistinct, GoneOnce, Placed
  <1>9. ASSUME NEW c \in Callers, StopProcessorDone(c) PROVE PipelineInv'
    BY <1>9 DEF StopProcessorDone, DoneChClosed, lifecycleVars, pipelineVars, TypeInv, TypeOK,
         Gone, QueuedFresh, QueueSorted, LeftBeforeQueued, HandFresh, HandInLimiter, HandsDistinct, GoneOnce, Placed
  <1>10. ASSUME NEW c \in Callers, StopTimeout(c) PROVE PipelineInv'
    BY <1>10 DEF StopTimeout, lifecycleVars, pipelineVars, TypeInv, TypeOK,
         Gone, QueuedFresh, QueueSorted, LeftBeforeQueued, HandFresh, HandInLimiter, HandsDistinct, GoneOnce, Placed
  <1>11. ASSUME NEW c \in Callers, StopShutdown(c) PROVE PipelineInv'
    BY <1>11 DEF StopShutdown, InformersDown, lifecycleVars, pipelineVars, TypeInv, TypeOK,
         Gone, QueuedFresh, QueueSorted, LeftBeforeQueued, HandFresh, HandInLimiter, HandsDistinct, GoneOnce, Placed
  <1>12. ASSUME NEW g \in Gen, CachesSync(g) PROVE PipelineInv'
    BY <1>12 DEF CachesSync, lifecycleVars, pipelineVars, TypeInv, TypeOK,
         Gone, QueuedFresh, QueueSorted, LeftBeforeQueued, HandFresh, HandInLimiter, HandsDistinct, GoneOnce, Placed
  <1>13. ASSUME NEW g \in Gen, InformersExit(g) PROVE PipelineInv'
    BY <1>13 DEF InformersExit, lifecycleVars, pipelineVars, TypeInv, TypeOK,
         Gone, QueuedFresh, QueueSorted, LeftBeforeQueued, HandFresh, HandInLimiter, HandsDistinct, GoneOnce, Placed
  <1>14. ASSUME NEW g \in Gen, SendToChan(g) PROVE PipelineInv'
    <2>1. /\ offered \in Nat /\ offered' = offered + 1 /\ offered + 1 \in Event
          /\ UNCHANGED <<hand, proc, sent, abandoned>>
      BY <1>14, NextEvent DEF SendToChan, ChanHasRoom, TypeInv, TypeOK
    <2>2. Gone \subseteq 1..offered /\ \A h \in Gen : hand[h] \in 0..offered
      BY DEF GoneOnce, HandFresh
    <2>3. \/ /\ UNCHANGED dropped
             /\ Len(eventChan) \in Nat /\ Len(eventChan') = Len(eventChan) + 1
             /\ \A i \in 1..Len(eventChan) : eventChan'[i] = eventChan[i]
             /\ eventChan'[Len(eventChan) + 1] = offered + 1
          \/ UNCHANGED eventChan /\ dropped' = dropped \cup {offered + 1}
      <3>1. CASE eventChan' = Append(eventChan, offered + 1) /\ UNCHANGED dropped
        BY <2>1, <3>1, AppendEvent DEF TypeInv, TypeOK
      <3>2. QED
        BY <1>14, <3>1 DEF SendToChan, ChanHasRoom
    <2>4. QueuedFresh'
      BY <2>1, <2>2, <2>3 DEF Gone, QueuedFresh
    <2>5. QueueSorted'
      BY <2>1, <2>2, <2>3 DEF Gone, QueueSorted, QueuedFresh
    <2>6. LeftBeforeQueued'
      BY <2>1, <2>2, <2>3 DEF Gone, LeftBeforeQueued
    <2>7. HandFresh'
      BY <2>1, <2>2, <2>3 DEF Gone, HandFresh
    <2>8. HandInLimiter'
      BY <2>1, <2>2, <2>3 DEF Gone, HandInLimiter
    <2>9. HandsDistinct'
      BY <2>1, <2>2, <2>3 DEF Gone, HandsDistinct
    <2>10. GoneOnce'
      BY <2>1, <2>2, <2>3 DEF Gone, GoneOnce
    <2>11. Placed'
      BY <2>1, <2>2, <2>3 DEF Gone, Placed
    <2>12. QED
      BY <2>4, <2>5, <2>6, <2>7, <2>8, <2>9, <2>10, <2>11
  <1>15. ASSUME NEW g \in Gen, Receive(g) PROVE PipelineInv'
    <2>1. /\ offered \in Nat /\ UNCHANGED <<offered, sent, dropped>>
          /\ Len(eventChan) \in Nat \ {0} /\ Len(eventChan') = Len(eventChan) - 1
          /\ \A i \in 1..Len(eventChan') : eventChan'[i] = eventChan[i + 1]
      BY <1>15, ReceiveEvent DEF Receive, EventReady, TypeInv, TypeOK
    <2>2. \/ abandoned' = abandoned \cup {eventChan[1]} /\ UNCHANGED <<proc, hand>>
          \/ /\ UNCHANGED abandoned
             /\ proc' = [proc EXCEPT ![g] = "limiter"]
             /\ hand' = [hand EXCEPT ![g] = eventChan[1]]
      BY <1>15, ReceiveEvent DEF Receive, EventReady, TypeInv, TypeOK
    <2>3. proc[g] = "select" /\ hand[g] = 0
      BY <1>15 DEF Receive, EventReady, HandInLimiter
    <2>4. hand \in [Gen -> 0..MaxEvents] /\ proc \in [Gen -> ProcState]
      BY DEF TypeInv, TypeOK
    <2>5. /\ eventChan[1] \in 1..offered /\ eventChan[1] \notin Gone
          /\ \A e \in sent \cup abandoned : e < eventChan[1]
          /\ \A h \in Gen : hand[h] < eventChan[1]
          /\ \A i \in 1..Len(eventChan') : eventChan[1] < eventChan'[i]
      BY <2>1 DEF QueuedFresh, LeftBeforeQueued, QueueSorted
    <2>6. QueuedFresh'
      BY <2>1, <2>2, <2>3, <2>4, <2>5 DEF Gone, QueuedFresh
    <2>7. QueueSorted'
      BY <2>1, <2>2, <2>3, <2>4, <2>5 DEF Gone, QueueSorted
    <2>8. LeftBeforeQueued'
      BY <2>1, <2>2, <2>3, <2>4, <2>5 DEF Gone, LeftBeforeQueued
    <2>9. HandFresh'
      BY <2>1, <2>2, <2>3, <2>4, <2>5 DEF Gone, HandFresh
    <2>10. HandInLimiter'
      BY <2>1, <2>2, <2>3, <2>4, <2>5 DEF Gone, HandInLimiter
    <2>11. HandsDistinct'
      BY <2>1, <2>2, <2>3, <2>4, <2>5 DEF Gone, HandsDistinct
    <2>12. GoneOnce'
      BY <2>1, <2>2, <2>3, <2>4, <2>5 DEF Gone, GoneOnce
    <2>13. Placed'
      <3> SUFFICES ASSUME NEW e \in 1..offered
                   PROVE  \/ e \in Gone'
                          \/ \E h \in Gen : hand'[h] = e
                          \/ \E i \in 1..Len(eventChan') : eventChan'[i] = e
        BY <2>1 DEF Placed
      <3>1. CASE e \in Gone
        BY <2>1, <2>2, <3>1 DEF Gone
      <3>2. CASE \E h \in Gen : hand[h] = e
        BY <2>2, <2>3, <2>4, <3>2
      <3>3. CASE e = eventChan[1]
        BY <2>2, <2>4, <3>3 DEF Gone
      <3>4. ASSUME NEW i \in 2..Len(eventChan), eventChan[i] = e
            PROVE  \E k \in 1..Len(eventChan') : eventChan'[k] = e
        <4>1. i - 1 \in 1..Len(eventChan') /\ eventChan'[i - 1] = e
          BY <2>1, <3>4
        <4>2. QED
          BY <4>1
      <3>5. \A i \in 1..Len(eventChan) : i = 1 \/ i \in 2..Len(eventChan)
        BY <2>1
      <3>6. QED
        BY <3>1, <3>2, <3>3, <3>4, <3>5 DEF Placed
    <2>14. QED
      BY <2>6, <2>7, <2>8, <2>9, <2>10, <2>11, <2>12, <2>13
  <1>16. ASSUME NEW g \in Gen, LimiterPass(g) PROVE PipelineInv'
    <2>1. /\ sent' = sent \cup {hand[g]} /\ UNCHANGED <<abandoned, dropped, offered, eventChan>>
          /\ hand' = [hand EXCEPT ![g] = 0]
          /\ proc[g] = "limiter" /\ proc' = [proc EXCEPT ![g] = "sending"]
      BY <1>16 DEF LimiterPass
    <2>2. /\ hand \in [Gen -> 0..MaxEvents] /\ proc \in [Gen -> ProcState]
          /\ offered \in Nat
      BY DEF TypeInv, TypeOK
    <2>3. hand[g] \in 1..offered /\ hand[g] \notin Gone
      BY <2>1, <2>2 DEF HandFresh, HandInLimiter
    <2>4. QueuedFresh'
      BY <2>1, <2>2, <2>3 DEF Gone, QueuedFresh, LeftBeforeQueued
    <2>5. QueueSorted'
      BY <2>1, <2>2, <2>3 DEF Gone, QueueSorted
    <2>6. LeftBeforeQueued'
      BY <2>1, <2>2, <2>3 DEF Gone, LeftBeforeQueued, QueuedFresh
    <2>7. HandFresh'
      BY <2>1, <2>2, <2>3 DEF Gone, HandFresh, HandsDistinct, GoneOnce
    <2>8. HandInLimiter'
      BY <2>1, <2>2, <2>3 DEF Gone, HandInLimiter
    <2>9. HandsDistinct'
      BY <2>1, <2>2, <2>3 DEF Gone, HandsDistinct
    <2>10. GoneOnce'
      BY <2>1, <2>2, <2>3 DEF Gone, GoneOnce
    <2>11. Placed'
      BY <2>1, <2>2, <2>3 DEF Gone, Placed
    <2>12. QED
      BY <2>4, <2>5, <2>6, <2>7, <2>8, <2>9, <2>10, <2>11
  <1>17. ASSUME NEW g \in Gen, LimiterFails(g) PROVE PipelineInv'
    <2>1. /\ abandoned' = abandoned \cup {hand[g]} /\ UNCHANGED <<sent, dropped, offered, eventChan>>
          /\ hand' = [hand EXCEPT ![g] = 0]
          /\ proc[g] = "limiter" /\ proc' = [proc EXCEPT ![g] = "select"]
      BY <1>17 DEF LimiterFails, WaitFails
    <2>2. /\ hand \in [Gen -> 0..MaxEvents] /\ proc \in [Gen -> ProcState]
          /\ offered \in Nat
      BY DEF TypeInv, TypeOK
    <2>3. hand[g] \in 1..offered /\ hand[g] \notin Gone
      BY <2>1, <2>2 DEF HandFresh, HandInLimiter
    <2>4. QueuedFresh'
      BY <2>1, <2>2, <2>3 DEF Gone, QueuedFresh, LeftBeforeQueued
    <2>5. QueueSorted'
      BY <2>1, <2>2, <2>3 DEF Gone, QueueSorted
    <2>6. LeftBeforeQueued'
      BY <2>1, <2>2, <2>3 DEF Gone, LeftBeforeQueued, QueuedFresh
    <2>7. HandFresh'
      BY <2>1, <2>2, <2>3 DEF Gone, HandFresh, HandsDistinct, GoneOnce
    <2>8. HandInLimiter'
      BY <2>1, <2>2, <2>3 DEF Gone, HandInLimiter
    <2>9. HandsDistinct'
      BY <2>1, <2>2, <2>3 DEF Gone, HandsDistinct
    <2>10. GoneOnce'
      BY <2>1, <2>2, <2>3 DEF Gone, GoneOnce
    <2>11. Placed'
      BY <2>1, <2>2, <2>3 DEF Gone, Placed
    <2>12. QED
      BY <2>4, <2>5, <2>6, <2>7, <2>8, <2>9, <2>10, <2>11
  <1>18. ASSUME NEW g \in Gen, SendReturns(g) PROVE PipelineInv'
    BY <1>18 DEF SendReturns, lifecycleVars, pipelineVars, TypeInv, TypeOK,
         Gone, QueuedFresh, QueueSorted, LeftBeforeQueued, HandFresh, HandInLimiter, HandsDistinct, GoneOnce, Placed
  <1>19. ASSUME NEW g \in Gen, BeginDrain(g) PROVE PipelineInv'
    BY <1>19 DEF BeginDrain, lifecycleVars, pipelineVars, TypeInv, TypeOK,
         Gone, QueuedFresh, QueueSorted, LeftBeforeQueued, HandFresh, HandInLimiter, HandsDistinct, GoneOnce, Placed
  <1>20. ASSUME NEW g \in Gen, DrainExpire(g) PROVE PipelineInv'
    BY <1>20 DEF DrainExpire, lifecycleVars, pipelineVars, TypeInv, TypeOK,
         Gone, QueuedFresh, QueueSorted, LeftBeforeQueued, HandFresh, HandInLimiter, HandsDistinct, GoneOnce, Placed
  <1>21. ASSUME NEW g \in Gen, FinishDrain(g) PROVE PipelineInv'
    BY <1>21 DEF FinishDrain, lifecycleVars, pipelineVars, TypeInv, TypeOK,
         Gone, QueuedFresh, QueueSorted, LeftBeforeQueued, HandFresh, HandInLimiter, HandsDistinct, GoneOnce, Placed
  <1>22. CASE ParentCancel
    BY <1>22 DEF ParentCancel, lifecycleVars, pipelineVars, TypeInv, TypeOK,
         Gone, QueuedFresh, QueueSorted, LeftBeforeQueued, HandFresh, HandInLimiter, HandsDistinct, GoneOnce, Placed
  <1>23. CASE UNCHANGED vars
    BY <1>23 DEF vars, lifecycleVars, pipelineVars, TypeInv, TypeOK,
         Gone, QueuedFresh, QueueSorted, LeftBeforeQueued, HandFresh, HandInLimiter, HandsDistinct, GoneOnce, Placed
  <1>24. QED
    BY <1>1, <1>2, <1>3, <1>4, <1>5, <1>6, <1>7, <1>8, <1>9, <1>10, <1>11, <1>12, <1>13, <1>14, <1>15, <1>16, <1>17, <1>18, <1>19, <1>20, <1>21, <1>22, <1>23
    DEF Next, Caller, Informers, Processor
-----------------------------------------------------------------------------
(* The order of deliveries. *)

LEMMA SingleProcessorHolds == TypeInv /\ LifecycleInv => SingleProcessor
  BY ManagerAssumption DEF TypeInv, TypeOK, LifecycleInv, SingleProcessor, Live, Gen

LEMMA OrderInductive ==
  TypeInv /\ LifecycleInv /\ PipelineInv /\ OrderInv /\ [Next]_vars => OrderInv'
  <1> SUFFICES ASSUME TypeInv, LifecycleInv, PipelineInv, OrderInv, [Next]_vars PROVE OrderInv'
    OBVIOUS
  <1>1. ASSUME NEW c \in Callers, Start(c) PROVE OrderInv'
    BY <1>1 DEF Start, lifecycleVars, pipelineVars, OrderInv, TypeInv, TypeOK
  <1>2. ASSUME NEW c \in Callers, StartRegisterFails(c) PROVE OrderInv'
    BY <1>2 DEF StartRegisterFails, lifecycleVars, pipelineVars, OrderInv, TypeInv, TypeOK
  <1>3. ASSUME NEW c \in Callers, ReadFactory(c) PROVE OrderInv'
    BY <1>3 DEF ReadFactory, lifecycleVars, pipelineVars, OrderInv, TypeInv, TypeOK
  <1>4. ASSUME NEW c \in Callers, SyncOK(c) PROVE OrderInv'
    BY <1>4 DEF SyncOK, lifecycleVars, pipelineVars, OrderInv, TypeInv, TypeOK
  <1>5. ASSUME NEW c \in Callers, SyncFails(c) PROVE OrderInv'
    BY <1>5 DEF SyncFails, lifecycleVars, pipelineVars, OrderInv, TypeInv, TypeOK
  <1>6. ASSUME NEW c \in Callers, StartReturns(c) PROVE OrderInv'
    BY <1>6 DEF StartReturns, StartWoken, lifecycleVars, pipelineVars, OrderInv, TypeInv, TypeOK
  <1>7. ASSUME NEW c \in Callers, StopBegin(c) PROVE OrderInv'
    BY <1>7 DEF StopBegin, lifecycleVars, pipelineVars, OrderInv, TypeInv, TypeOK
  <1>8. ASSUME NEW c \in Callers, StopNotStarted(c) PROVE OrderInv'
    BY <1>8 DEF StopNotStarted, lifecycleVars, pipelineVars, OrderInv, TypeInv, TypeOK
  <1>9. ASSUME NEW c \in Callers, StopProcessorDone(c) PROVE OrderInv'
    BY <1>9 DEF StopProcessorDone, DoneChClosed, lifecycleVars, pipelineVars, OrderInv, TypeInv, TypeOK
  <1>10. ASSUME NEW c \in Callers, StopTimeout(c) PROVE OrderInv'
    <2>1. overrun' = (overrun \/ Live(gen)) /\ UNCHANGED <<hand, sent>>
      BY <1>10 DEF StopTimeout, pipelineVars
    <2>2. QED
      BY <2>1 DEF OrderInv, TypeInv, TypeOK
  <1>11. ASSUME NEW c \in Callers, StopShutdown(c) PROVE OrderInv'
    BY <1>11 DEF StopShutdown, InformersDown, lifecycleVars, pipelineVars, OrderInv, TypeInv, TypeOK
  <1>12. ASSUME NEW g \in Gen, CachesSync(g) PROVE OrderInv'
    BY <1>12 DEF CachesSync, lifecycleVars, pipelineVars, OrderInv, TypeInv, TypeOK
  <1>13. ASSUME NEW g \in Gen, InformersExit(g) PROVE OrderInv'
    BY <1>13 DEF InformersExit, lifecycleVars, pipelineVars, OrderInv, TypeInv, TypeOK
  <1>14. ASSUME NEW g \in Gen, SendToChan(g) PROVE OrderInv'
    BY <1>14 DEF SendToChan, ChanHasRoom, lifecycleVars, pipelineVars, OrderInv, TypeInv, TypeOK
  <1>15. ASSUME NEW g \in Gen, Receive(g) PROVE OrderInv'
    <2>1. /\ UNCHANGED <<sent, overrun>>
          /\ UNCHANGED hand \/ hand' = [hand EXCEPT ![g] = eventChan[1]]
      BY <1>15, ReceiveEvent DEF Receive, EventReady, TypeInv, TypeOK
    <2>2. \A e \in sent : e < eventChan[1]
      BY <1>15, ReceiveEvent DEF Receive, EventReady, TypeInv, TypeOK, PipelineInv, LeftBeforeQueued
    <2>3. QED
      BY <2>1, <2>2 DEF OrderInv, TypeInv, TypeOK
  <1>16. ASSUME NEW g \in Gen, LimiterPass(g) PROVE OrderInv'
    <2>1. /\ UNCHANGED overrun /\ sent' = sent \cup {hand[g]}
          /\ hand' = [hand EXCEPT ![g] = 0]
      BY <1>16 DEF LimiterPass
    <2>2. ASSUME ~overrun, NEW h \in Gen, h # g PROVE hand[h] = 0
      <3>1. Live(g) /\ (Live(h) => g = h)
        BY <1>16, <2>2, SingleProcessorHolds DEF LimiterPass, Live, SingleProcessor
      <3>2. QED
        BY <2>2, <3>1 DEF Live, PipelineInv, HandInLimiter
    <2>3. QED
      BY <2>1, <2>2 DEF OrderInv, TypeInv, TypeOK
  <1>17. ASSUME NEW g \in Gen, LimiterFails(g) PROVE OrderInv'
    BY <1>17 DEF LimiterFails, WaitFails, lifecycleVars, pipelineVars, OrderInv, TypeInv, TypeOK
  <1>18. ASSUME NEW g \in Gen, SendReturns(g) PROVE OrderInv'
    BY <1>18 DEF SendReturns, lifecycleVars, pipelineVars, OrderInv, TypeInv, TypeOK
  <1>19. ASSUME NEW g \in Gen, BeginDrain(g) PROVE OrderInv'
    BY <1>19 DEF BeginDrain, lifecycleVars, pipelineVars, OrderInv, TypeInv, TypeOK
  <1>20. ASSUME NEW g \in Gen, DrainExpire(g) PROVE OrderInv'
    BY <1>20 DEF DrainExpire, lifecycleVars, pipelineVars, OrderInv, TypeInv, TypeOK
  <1>21. ASSUME NEW g \in Gen, FinishDrain(g) PROVE OrderInv'
    BY <1>21 DEF FinishDrain, lifecycleVars, pipelineVars, OrderInv, TypeInv, TypeOK
  <1>22. CASE ParentCancel
    BY <1>22 DEF ParentCancel, lifecycleVars, pipelineVars, OrderInv, TypeInv, TypeOK
  <1>23. CASE UNCHANGED vars
    BY <1>23 DEF vars, lifecycleVars, pipelineVars, OrderInv, TypeInv, TypeOK
  <1>24. QED
    BY <1>1, <1>2, <1>3, <1>4, <1>5, <1>6, <1>7, <1>8, <1>9, <1>10, <1>11, <1>12, <1>13, <1>14, <1>15, <1>16, <1>17, <1>18, <1>19, <1>20, <1>21, <1>22, <1>23
    DEF Next, Caller, Informers, Processor

-----------------------------------------------------------------------------
(* The inductive invariant and what follows from it. *)

LEMMA InvInit == Init => LifecycleInv /\ PipelineInv /\ OrderInv
  <1> SUFFICES ASSUME Init PROVE LifecycleInv /\ PipelineInv /\ OrderInv
    OBVIOUS
  <1>1. Len(eventChan) = 0
    BY EmptySeq DEF Init
  <1>2. LifecycleInv
    BY ManagerAssumption DEF Init, LifecycleInv, IsStarted, InStop, Live, Gen
  <1>3. PipelineInv
    BY <1>1 DEF Init, PipelineInv, QueuedFresh, QueueSorted, LeftBeforeQueued, HandFresh,
                HandInLimiter, HandsDistinct, GoneOnce, Placed, Gone
  <1>4. OrderInv
    BY DEF Init, OrderInv
  <1>5. QED
    BY <1>2, <1>3, <1>4

IInv == TypeInv /\ LifecycleInv /\ PipelineInv /\ OrderInv

THEOREM Invariance == Spec => []IInv
  <1>1. Init => IInv
    BY TypeInvInit, InvInit DEF IInv
  <1>2. IInv /\ [Next]_vars => IInv'
    BY TypeInvInductive, LifecycleInductive, PipelineInductive, OrderInductive DEF IInv
  <1>3. QED
    BY <1>1, <1>2, PTL DEF Spec

\* No Stop closes a closed stop channel, however many callers stop and restart
\* the manager or fail to start it.
THEOREM NoDoubleClose == Spec => []StopChOpenWhileStarted
  <1>1. IInv => StopChOpenWhileStarted
    BY DEF IInv, LifecycleInv, StopChOpenWhileStarted
  <1>2. QED
    BY <1>1, Invariance, PTL

\* After Stop no informer is left running, and no event processor either unless
\* Stop's wait for it timed out.
THEOREM StopLeavesNothing == Spec => []StoppedMeansQuiet
  <1>1. IInv => StoppedMeansQuiet
    <2> SUFFICES ASSUME IInv, mu = NoCaller, ~started, NEW g \in Gen
                 PROVE  informers[g] # "running" /\ (Live(g) => overrun)
      BY DEF StoppedMeansQuiet
    <2>1. CASE g > gen
      BY <2>1 DEF IInv, LifecycleInv, Live
    <2>2. CASE g <= gen
      <3>1. g < gen \/ (~started /\ g = gen)
        BY <2>2, ManagerAssumption DEF IInv, TypeInv, TypeOK, Gen
      <3>2. QED
        BY <3>1 DEF IInv, LifecycleInv
    <2>3. QED
      BY <2>1, <2>2, ManagerAssumption DEF IInv, TypeInv, TypeOK, Gen
  <1>2. QED
    BY <1>1, Invariance, PTL

\* GetCurrentState and GetResourceCounts never read a stopped informer.
THEOREM StateIsLive == Spec => []StateFromLiveInformers
  <1>1. IInv => StateFromLiveInformers
    BY DEF IInv, LifecycleInv, StateFromLiveInformers, IsStarted
  <1>2. QED
    BY <1>1, Invariance, PTL

\* Two event processors run together only after a Stop timed out.
THEOREM OneProcessor == Spec => []SingleProcessor
  <1>1. IInv => SingleProcessor
    BY SingleProcessorHolds DEF IInv
  <1>2. QED
    BY <1>1, Invariance, PTL

\* Every emitted event is in exactly one place.
THEOREM NoEventForgotten == Spec => []EventsAccounted
  <1>1. IInv => EventsAccounted
    <2> SUFFICES ASSUME IInv PROVE EventsAccounted
      OBVIOUS
    <2> USE DEF IInv, PipelineInv
    <2>1. Queued \subseteq 1..offered /\ Queued \cap Gone = {}
      BY DEF Queued, QueuedFresh
    <2>2. Held \subseteq 1..offered /\ Held \cap Gone = {}
      BY DEF Held, HandFresh, TypeInv, TypeOK
    <2>3. Queued \cap Held = {}
      BY DEF Queued, Held, LeftBeforeQueued, QueuedFresh, HandFresh, TypeInv, TypeOK
    <2>4. 1..offered \subseteq Queued \cup Held \cup Gone
      BY DEF Placed, Queued, Held, TypeInv, TypeOK
    <2>5. Gone \subseteq 1..offered /\ sent \cap (dropped \cup abandoned) = {}
          /\ dropped \cap abandoned = {}
      BY DEF GoneOnce
    <2>6. QED
      BY <2>1, <2>2, <2>3, <2>4, <2>5 DEF EventsAccounted, Gone, QueueSorted, HandsDistinct
  <1>2. QED
    BY <1>1, Invariance, PTL

\* No received event is discarded before a shutdown begins.
THEOREM NoLossBeforeShutdown == Spec => []LossOnlyAtShutdown
  <1> DEFINE LossInv == abandoned # {} \/ draining # {} => parentDone \/ closed # {}
  <1>1. Init => LossInv
    BY DEF Init
  <1>2. LossInv /\ [Next]_vars => LossInv'
    <2> SUFFICES ASSUME LossInv, [Next]_vars PROVE LossInv'
      OBVIOUS
    <2>1. ASSUME NEW c \in Callers, Caller(c) PROVE LossInv'
      BY <2>1 DEF Caller, Start, StartRegisterFails, ReadFactory, SyncOK, SyncFails, StartReturns,
            StopBegin, StopNotStarted, StopProcessorDone, StopTimeout, StopShutdown, pipelineVars
    <2>2. ASSUME NEW g \in Gen, Informers(g) PROVE LossInv'
      BY <2>2 DEF Informers, CachesSync, InformersExit, SendToChan, lifecycleVars, pipelineVars
    <2>3. ASSUME NEW g \in Gen, Processor(g) PROVE LossInv'
      BY <2>3 DEF Processor, Receive, LimiterPass, LimiterFails, SendReturns, BeginDrain,
            DrainExpire, FinishDrain, WaitFails, EventCtxDone, ProcCtxDone, lifecycleVars
    <2>4. CASE ParentCancel
      BY <2>4 DEF ParentCancel
    <2>5. CASE UNCHANGED vars
      BY <2>5 DEF vars, lifecycleVars, pipelineVars
    <2>6. QED
      BY <2>1, <2>2, <2>3, <2>4, <2>5 DEF Next
  <1>3. LossInv => LossOnlyAtShutdown
    BY DEF LossOnlyAtShutdown
  <1>4. QED
    BY <1>1, <1>2, <1>3, PTL DEF Spec

-----------------------------------------------------------------------------
(* Refinement of the abstract event stream. *)

\* Every step of the manager is an Emit, a Deliver of the event in the processor's
\* hand, an Overlap, or invisible in the stream: the sender is given each event
\* at most once and in order.
THEOREM Refinement == Spec => ImplementsEventStream
  <1>1. Init => Stream!StreamInit
    BY DEF Init, Stream!StreamInit
  <1>2. IInv /\ [Next]_vars => [Stream!StreamNext]_Stream!streamVars
    <2> SUFFICES ASSUME IInv, [Next]_vars
                 PROVE  Stream!StreamNext \/ UNCHANGED <<offered, sent, overrun>>
      BY DEF Stream!streamVars
    <2>1. ASSUME NEW c \in Callers, Caller(c)
          PROVE  Stream!StreamNext \/ UNCHANGED <<offered, sent, overrun>>
      <3>1. CASE StopTimeout(c)
        BY <3>1 DEF StopTimeout, pipelineVars, Stream!StreamNext, Stream!Overlap,
                    IInv, TypeInv, TypeOK
      <3>2. CASE ~StopTimeout(c)
        BY <2>1, <3>2 DEF Caller, Start, StartRegisterFails, ReadFactory, SyncOK, SyncFails,
              StartReturns, StopBegin, StopNotStarted, StopProcessorDone, StopShutdown, pipelineVars
      <3>3. QED
        BY <3>1, <3>2
    <2>2. ASSUME NEW g \in Gen, SendToChan(g) PROVE Stream!StreamNext
      BY <2>2 DEF SendToChan, ChanHasRoom, Stream!StreamNext, Stream!Emit
    <2>3. ASSUME NEW g \in Gen, CachesSync(g) \/ InformersExit(g)
          PROVE  UNCHANGED <<offered, sent, overrun>>
      BY <2>3 DEF CachesSync, InformersExit, pipelineVars
    <2>4. ASSUME NEW g \in Gen, LimiterPass(g) PROVE Stream!StreamNext
      <3>1. hand[g] \in 1..offered /\ hand[g] \notin sent
        BY <2>4 DEF LimiterPass, IInv, PipelineInv, HandFresh, HandInLimiter, Gone, TypeInv, TypeOK
      <3>2. overrun \/ \A e \in sent : e < hand[g]
        BY <2>4, <3>1 DEF IInv, OrderInv
      <3>3. Stream!Deliver(hand[g])
        BY <2>4, <3>1, <3>2 DEF LimiterPass, Stream!Deliver
      <3>4. QED
        BY <3>1, <3>3 DEF Stream!StreamNext
    <2>5. ASSUME NEW g \in Gen, \/ Receive(g) \/ LimiterFails(g) \/ SendReturns(g)
                               \/ BeginDrain(g) \/ DrainExpire(g) \/ FinishDrain(g)
          PROVE  UNCHANGED <<offered, sent, overrun>>
      BY <2>5 DEF Receive, EventReady, LimiterFails, SendReturns, BeginDrain, DrainExpire, FinishDrain
    <2>6. CASE ParentCancel
      BY <2>6 DEF ParentCancel, pipelineVars
    <2>7. CASE UNCHANGED vars
      BY <2>7 DEF vars, pipelineVars
    <2>8. QED
      BY <2>1, <2>2, <2>3, <2>4, <2>5, <2>6, <2>7 DEF Next, Informers, Processor
  <1>3. QED
    BY <1>1, <1>2, Invariance, PTL DEF Spec, ImplementsEventStream, Stream!StreamSpec
-----------------------------------------------------------------------------
(* Refinement of the life cycle. *)

\* Only caches of informers that were started sync.
SyncedInv == \A g \in synced : informers[g] # "none"

LEMMA SyncedInductive == TypeInv /\ SyncedInv /\ [Next]_vars => SyncedInv'
  <1> SUFFICES ASSUME TypeInv, SyncedInv, [Next]_vars PROVE SyncedInv'
    OBVIOUS
  <1> USE DEF SyncedInv, TypeInv, TypeOK
  <1>1. ASSUME NEW c \in Callers, Caller(c) PROVE SyncedInv'
    BY <1>1 DEF Caller, Start, StartRegisterFails, ReadFactory, SyncOK, SyncFails, StartReturns,
          StopBegin, StopNotStarted, StopProcessorDone, StopTimeout, StopShutdown
  <1>2. ASSUME NEW g \in Gen, Informers(g) PROVE SyncedInv'
    BY <1>2 DEF Informers, CachesSync, InformersExit, SendToChan, lifecycleVars
  <1>3. ASSUME NEW g \in Gen, Processor(g) PROVE SyncedInv'
    BY <1>3 DEF Processor, Receive, LimiterPass, LimiterFails, SendReturns, BeginDrain,
          DrainExpire, FinishDrain, lifecycleVars
  <1>4. CASE ParentCancel
    BY <1>4 DEF ParentCancel
  <1>5. CASE UNCHANGED vars
    BY <1>5 DEF vars, lifecycleVars
  <1>6. QED
    BY <1>1, <1>2, <1>3, <1>4, <1>5 DEF Next

\* Whatever several callers of Start and Stop do, in whatever order and generation,
\* the manager starts, syncs and stops as ManagerLifecycle says.
THEOREM LifecycleRefinement == Spec => ImplementsLifecycle
  <1>1. Init => SyncedInv
    BY DEF Init, SyncedInv
  <1>2. Init => Lifecycle!LifecycleInit
    BY DEF Init, Lifecycle!LifecycleInit, ManagerState
  <1>3. IInv /\ SyncedInv /\ [Next]_vars => [Lifecycle!LifecycleNext]_ManagerState
    <2> SUFFICES ASSUME IInv, SyncedInv, [Next]_vars,
                        ManagerState' # ManagerState
                 PROVE  Lifecycle!StartUp \/ Lifecycle!Sync \/ Lifecycle!Halt
      BY DEF Lifecycle!LifecycleNext
    <2> USE DEF IInv, TypeInv, TypeOK, LifecycleInv, Lifecycle!Up
    <2>1. ASSUME NEW c \in Callers, Start(c) PROVE Lifecycle!StartUp
      <3>1. gen + 1 \in Gen /\ gen + 1 > gen /\ gen + 1 \notin synced
        BY <2>1, ManagerAssumption DEF Start, Gen, SyncedInv
      <3>2. gen' = gen + 1 /\ informers'[gen'] = "running" /\ mu' = NoCaller /\ started'
        BY <2>1, <3>1 DEF Start
      <3>3. QED
        BY <2>1, <3>1, <3>2 DEF Start, ManagerState, Lifecycle!StartUp
    <2>2. ASSUME NEW c \in Callers, StartRegisterFails(c) PROVE Lifecycle!StartUp
      <3>1. gen + 1 \in Gen /\ gen + 1 > gen
        BY <2>2, ManagerAssumption DEF StartRegisterFails, Gen
      <3>2. QED
        BY <2>2, <3>1 DEF StartRegisterFails, ManagerState, Lifecycle!StartUp
    <2>3. ASSUME NEW c \in Callers, StopBegin(c) PROVE Lifecycle!Halt
      BY <2>3, ManagerAssumption DEF StopBegin, ManagerState, Lifecycle!Halt
    <2>4. ASSUME NEW c \in Callers, StopShutdown(c) PROVE FALSE
      <3>1. pc[c] \in InStop
        BY <2>4 DEF StopShutdown, InStop
      <3>2. mu = c /\ mu # NoCaller
        BY <3>1, ManagerAssumption
      <3>3. gen # 0
        BY <3>2, ManagerAssumption DEF Gen
      <3>4. QED
        BY <2>4, <3>2, <3>3 DEF StopShutdown, ManagerState
    <2>5. ASSUME NEW c \in Callers, \/ ReadFactory(c) \/ SyncOK(c) \/ SyncFails(c)
                                    \/ StartReturns(c) \/ StopNotStarted(c)
                                    \/ StopProcessorDone(c) \/ StopTimeout(c)
          PROVE  FALSE
      BY <2>5 DEF ReadFactory, SyncOK, SyncFails, StartReturns, StopNotStarted,
                  StopProcessorDone, StopTimeout, ManagerState
    <2>6. ASSUME NEW g \in Gen, CachesSync(g) PROVE Lifecycle!Sync
      BY <2>6 DEF CachesSync, ManagerState, Lifecycle!Sync
    <2>7. ASSUME NEW g \in Gen, InformersExit(g) PROVE FALSE
      BY <2>7 DEF InformersExit, ManagerState, IsStarted
    <2>8. ASSUME NEW g \in Gen, SendToChan(g) \/ Processor(g) PROVE FALSE
      BY <2>8 DEF SendToChan, Processor, Receive, LimiterPass, LimiterFails, SendReturns,
                  BeginDrain, DrainExpire, FinishDrain, lifecycleVars, ManagerState
    <2>9. CASE ParentCancel
      BY <2>9 DEF ParentCancel, ManagerState
    <2>10. CASE UNCHANGED vars
      BY <2>10 DEF vars, lifecycleVars, ManagerState
    <2>11. QED
      BY <2>1, <2>2, <2>3, <2>4, <2>5, <2>6, <2>7, <2>8, <2>9, <2>10
      DEF Next, Caller, Informers
  <1>4. IInv => TypeInv
    BY DEF IInv
  <1>5. QED
    BY <1>1, <1>2, <1>3, <1>4, SyncedInductive, Invariance, PTL
    DEF Spec, ImplementsLifecycle, Lifecycle!LifecycleSpec
==============================================================================
