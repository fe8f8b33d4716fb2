-------------------------- MODULE ResourceEventsProofs --------------------------
(***************************************************************************)
(* The order of the events that leave the operator, for any number of      *)
(* kinds, any buffer and any bounds.  What is said of an object agrees     *)
(* with how far its kind's handlers have come along the chain of its       *)
(* states, and chains are in order.                                        *)
(***************************************************************************)
EXTENDS ResourceSyncProofs

OrderInv == \A k \in Kind : Ordered(Chain(k))

\* What the chains and the events are about is no newer than the cluster.
FreshInv ==
    /\ \A k \in Kind : \A x \in Elems(k) :
            x # NoObject => x.uid <= version /\ x.version <= version
    /\ \A i \in 1..Len(Outgoing) : Outgoing[i].obj.uid <= version

\* An object has one kind.
KindInv ==
    \A k, l \in Kind : \A x \in Elems(k), y \in Elems(l) : Same(x, y) => k = l

ChainInv == OrderInv /\ KindInv

\* Where an object on its way was spoken of, the handlers saw it last, no older than it
\* was said to be, and not as deleted.
SaidInv ==
    \A i \in 1..Len(Outgoing) : \A k \in Kind : \A x \in Elems(k) :
        Same(x, Outgoing[i].obj) =>
            /\ Outgoing[i].type # "deleted"
            /\ Same(Seen(k), Outgoing[i].obj)
            /\ Outgoing[i].obj.version <= Seen(k).version

InOrder(s) ==
    \A i, j \in 1..Len(s) :
        (i < j /\ s[i].obj.uid = s[j].obj.uid) =>
            /\ s[i].type # "deleted"
            /\ s[j].type = "deleted" \/ s[i].obj.version < s[j].obj.version

IInv == Base /\ ChainInv /\ FreshInv /\ SaidInv /\ InOrder(Outgoing)
-----------------------------------------------------------------------------
(* The outgoing events *)

\* t is s without its first element.
Later(t, s) ==
    /\ Len(s) >= 1 /\ Len(t) = Len(s) - 1
    /\ \A i \in 1..(Len(s) - 1) : t[i] = s[i + 1]

LEMMA OutgoingTyped ==
    ASSUME Base
    PROVE  /\ Outgoing \in Seq(Event) /\ Len(Outgoing) \in Nat
           /\ eventChan \in Seq(Event) /\ Len(eventChan) \in Nat
           /\ hand = NoEvent => Outgoing = eventChan
           /\ hand # NoEvent =>
                /\ Len(Outgoing) = Len(eventChan) + 1 /\ Outgoing[1] = hand
                /\ \A i \in 1..Len(eventChan) : Outgoing[i + 1] = eventChan[i]
  <1>1. eventChan \in Seq(Event) /\ hand \in Event \cup {NoEvent}
    BY DEF Base, TypeOK
  <1>2. CASE hand = NoEvent
    <2>1. << >> \o eventChan = eventChan
      BY <1>1
    <2>2. QED
      BY <1>1, <1>2, <2>1 DEF Outgoing
  <1>3. CASE hand # NoEvent
    <2>1. <<hand>> \in Seq(Event) /\ Outgoing = <<hand>> \o eventChan
      BY <1>1, <1>3 DEF Outgoing
    <2>2. Len(<<hand>>) = 1 /\ <<hand>>[1] = hand
      OBVIOUS
    <2>3. /\ Outgoing \in Seq(Event) /\ Len(Outgoing) = 1 + Len(eventChan)
          /\ \A i \in 1..(1 + Len(eventChan)) :
                Outgoing[i] = IF i <= 1 THEN <<hand>>[i] ELSE eventChan[i - 1]
      BY <1>1, <2>1, <2>2, ConcatProperties
    <2> DEFINE n == Len(eventChan)
    <2>4. n \in Nat
      BY <1>1
    <2> HIDE DEF n
    <2>5. /\ Len(Outgoing) = n + 1
          /\ \A i \in 1..(1 + n) :
                Outgoing[i] = IF i <= 1 THEN <<hand>>[i] ELSE eventChan[i - 1]
      BY <2>3, <2>4 DEF n
    <2>6. Outgoing[1] = hand /\ \A i \in 1..n : Outgoing[i + 1] = eventChan[i]
      BY <2>2, <2>4, <2>5
    <2>7. QED
      BY <1>1, <1>3, <2>3, <2>4, <2>5, <2>6 DEF n
  <1>4. QED
    BY <1>2, <1>3

\* Receive takes nothing away from the events on their way; only an answer or a failure
\* does, and then the first of them.
LEMMA SendsOutgoing ==
    ASSUME Base, Base', Sends
    PROVE  Outgoing' = Outgoing \/ (hand # NoEvent /\ hand' = NoEvent /\ eventChan' = eventChan
                                    /\ Later(Outgoing', Outgoing))
  <1>1. CASE Receive
    <2>1. eventChan \in Seq(Event) /\ eventChan # << >> /\ hand = NoEvent
          /\ hand' = Head(eventChan) /\ eventChan' = Tail(eventChan)
      BY <1>1 DEF Receive, Base, TypeOK
    <2>2. /\ Tail(eventChan) \in Seq(Event) /\ Head(eventChan) \in Event
          /\ Len(eventChan) \in Nat /\ Len(eventChan) >= 1
          /\ Len(Tail(eventChan)) = Len(eventChan) - 1
          /\ \A i \in 1..(Len(eventChan) - 1) : Tail(eventChan)[i] = eventChan[i + 1]
          /\ Head(eventChan) = eventChan[1]
      BY <2>1, TailFacts
    <2>3. hand' # NoEvent
      BY <2>1, <2>2, SentinelAssumption
    <2>4. Outgoing = eventChan
      BY <2>1, OutgoingTyped
    <2>5. Outgoing' = <<Head(eventChan)>> \o Tail(eventChan)
      BY <2>1, <2>3 DEF Outgoing
    <2>6. <<Head(eventChan)>> \o Tail(eventChan) = eventChan
      BY <2>1, HeadTailProperties, ConcatProperties
    <2>7. QED
      BY <2>4, <2>5, <2>6
  <1>2. CASE EventApplied \/ EventFails
    <2>1. hand # NoEvent /\ eventChan' = eventChan /\ hand' \in {hand, NoEvent}
      BY <1>2 DEF EventApplied, EventFails
    <2>2. CASE hand' = hand
      BY <2>1, <2>2 DEF Outgoing
    <2>3. CASE hand' = NoEvent
      <3>1. Outgoing' = eventChan
        <4>1. << >> \o eventChan = eventChan
          BY DEF Base, TypeOK
        <4>2. QED
          BY <4>1, <2>1, <2>3 DEF Outgoing
      <3>2. /\ Len(eventChan) \in Nat /\ Len(Outgoing) = Len(eventChan) + 1
            /\ \A i \in 1..Len(eventChan) : Outgoing[i + 1] = eventChan[i]
        BY <2>1, OutgoingTyped
      <3> DEFINE n == Len(eventChan)
      <3>3. /\ n \in Nat /\ Len(Outgoing) = n + 1 /\ Len(Outgoing') = n
            /\ \A i \in 1..n : Outgoing[i + 1] = Outgoing'[i]
        BY <3>1, <3>2
      <3> HIDE DEF n
      <3>4. Later(Outgoing', Outgoing)
        BY <3>3 DEF Later
      <3>5. QED
        BY <2>1, <2>3, <3>4
    <2>4. QED
      BY <2>1, <2>2, <2>3
  <1>3. QED
    BY <1>1, <1>2 DEF Sends

\* A handler puts one event behind the others, or none.
LEMMA HandleOutgoing ==
    ASSUME Base, NEW k \in Kind, Handle(k)
    PROVE  \/ Outgoing' = Outgoing
           \/ \E e \in EventsOf(notes[k][1]) : Pushed(Outgoing', Outgoing, e)
  <1> DEFINE n == notes[k][1]
  <1>1. /\ hand' = hand /\ n \in Note /\ WellFormed(n)
        /\ \/ UNCHANGED eventChan
           \/ \E e \in EventsOf(n) : eventChan' = Append(eventChan, e)
    BY HandleFacts
  <1> HIDE DEF n
  <1>2. CASE UNCHANGED eventChan
    BY <1>1, <1>2 DEF Outgoing
  <1>3. ASSUME NEW e \in EventsOf(n), eventChan' = Append(eventChan, e)
        PROVE  Pushed(Outgoing', Outgoing, e)
    <2>1. e \in Event
      BY <1>1, EventTyped
    <2>2. Outgoing \in Seq(Event) /\ eventChan \in Seq(Event) /\ hand \in Event \cup {NoEvent}
      BY OutgoingTyped DEF Base, TypeOK
    <2>3. Outgoing' = Append(Outgoing, e)
      BY <1>1, <1>3, <2>1, <2>2 DEF Outgoing
    <2>4. QED
      BY <2>1, <2>2, <2>3, AppendProperties DEF Pushed
  <1>4. QED
    BY <1>1, <1>2, <1>3 DEF n

LEMMA LaterInOrder ==
    ASSUME NEW s \in Seq(Event), NEW t, Later(t, s), InOrder(s)
    PROVE  InOrder(t)
  <1> DEFINE n == Len(s)
  <1>1. n \in Nat /\ n >= 1 /\ Len(t) = n - 1 /\ \A i \in 1..(n - 1) : t[i] = s[i + 1]
    BY DEF Later
  <1>2. Len(s) = n
    OBVIOUS
  <1> HIDE DEF n
  <1>3. SUFFICES ASSUME NEW i \in 1..(n - 1), NEW j \in 1..(n - 1), i < j,
                        t[i].obj.uid = t[j].obj.uid
                 PROVE  /\ t[i].type # "deleted"
                        /\ t[j].type = "deleted" \/ t[i].obj.version < t[j].obj.version
    BY <1>1 DEF InOrder
  <1>4. /\ i + 1 \in 1..n /\ j + 1 \in 1..n /\ i + 1 < j + 1
        /\ t[i] = s[i + 1] /\ t[j] = s[j + 1]
    BY <1>1, <1>3
  <1>5. QED
    BY <1>2, <1>3, <1>4 DEF InOrder
-----------------------------------------------------------------------------
(* The chains *)

LEMMA ElemTyped ==
    ASSUME Base, NEW k \in Kind, NEW x \in Elems(k), x # NoObject
    PROVE  x \in Object /\ x.uid \in Int /\ x.version \in Int
  <1>1. x \in Object
    BY ChainHas DEF Some
  <1>2. QED
    BY <1>1, SyncAssumption DEF Object, UID

LEMMA ChainDomain ==
    ASSUME NEW k \in Kind
    PROVE  DOMAIN Chain(k) \subseteq Int /\ DOMAIN Chain(k)' \subseteq Int
  <1>1. ASSUME NEW no, NEW wa, NEW ca, NEW cl
        PROVE  DOMAIN ChainOf(no, wa, ca, cl) \subseteq Int
    <2> DEFINE b == Len(no) + Len(wa) + 2
    <2>1. DOMAIN ChainOf(no, wa, ca, cl) = 1..b
      BY DEF ChainOf
    <2> HIDE DEF b
    <2>2. QED
      BY <2>1
  <1>2. QED
    BY <1>1 DEF Chain

\* What all steps but those of the cluster do.
Shrinks ==
    /\ version' = version
    /\ \A k \in Kind : Elems(k)' \subseteq Elems(k) \cup {NoObject}
    /\ OrderInv'

LEMMA ShrinksKeep ==
    ASSUME Base, ChainInv, Shrinks
    PROVE  ChainInv'
  <1>1. ASSUME NEW k \in Kind, NEW l \in Kind, NEW x \in Elems(k)', NEW y \in Elems(l)',
               Same(x, y)
        PROVE  k = l
    <2>1. x \in Elems(k) /\ y \in Elems(l)
      BY <1>1 DEF Shrinks, Same
    <2>2. QED
      BY <2>1, <1>1 DEF ChainInv, KindInv
  <1>2. KindInv'
    BY <1>1 DEF KindInv, Same
  <1>3. QED
    BY <1>2 DEF Shrinks, ChainInv

LEMMA DrawnShrinks ==
    ASSUME ChainInv, version' = version, \A k \in Kind : Drawn(Chain(k)', Chain(k))
    PROVE  Shrinks
  <1>1. ASSUME NEW k \in Kind PROVE Elems(k)' \subseteq Elems(k)
    BY DrawnElems DEF Elems
  <1>2. ASSUME NEW k \in Kind PROVE Ordered(Chain(k)')
    <2>1. Ordered(Chain(k))
      BY DEF ChainInv, OrderInv
    <2>2. QED
      BY <2>1, ChainDomain, DrawnOrdered
  <1>3. OrderInv'
    BY <1>2 DEF OrderInv
  <1>4. QED
    BY <1>1, <1>3 DEF Shrinks

LEMMA StepShrinks ==
    ASSUME Base, ChainInv,
           \/ \E k \in Kind : Inform(k) \/ Handle(k)
           \/ Sends \/ Snaps \/ Restart \/ UNCHANGED vars
    PROVE  Shrinks
  <1>1. ASSUME NEW k \in Kind, Inform(k) PROVE Shrinks
    <2>1. \A l \in Kind : Drawn(Chain(l)', Chain(l))
      BY <1>1, InformChain
    <2>2. version' = version
      BY <1>1, InformEffect DEF clusterVars
    <2>3. QED
      BY <2>1, <2>2, DrawnShrinks
  <1>2. ASSUME NEW k \in Kind, Handle(k) PROVE Shrinks
    <2>1. \A l \in Kind \ {k} : Drawn(Chain(l)', Chain(l))
      BY <1>2, HandleChain, DrawnSame
    <2>2. Drawn(Chain(k)', Chain(k))
      BY <1>2, HandleChain
    <2>3. version' = version
      BY <1>2, HandleFacts
    <2>4. \A l \in Kind : Drawn(Chain(l)', Chain(l))
      BY <2>1, <2>2
    <2>5. QED
      BY <2>3, <2>4, DrawnShrinks
  <1>3. CASE Sends \/ Snaps \/ UNCHANGED vars
    <2>1. UNCHANGED <<cluster, version, watch, cache, notes>>
      BY <1>3, PathKept
    <2>2. \A l \in Kind : Chain(l)' = Chain(l)
      BY <2>1 DEF Chain
    <2>3. \A l \in Kind : Drawn(Chain(l)', Chain(l))
      BY <2>2, DrawnSame
    <2>4. QED
      BY <2>1, <2>3, DrawnShrinks
  <1>4. CASE Restart
    <2>1. ASSUME NEW k \in Kind
          PROVE  Elems(k)' \subseteq Elems(k) \cup {NoObject} /\ Ordered(Chain(k)')
      <3>1. cluster[k] \in Elems(k)
        BY ChainHas
      <3>2. QED
        BY <3>1, <1>4, RestartChain
    <2>2. version' = version
      BY <1>4 DEF Restart, clusterVars
    <2>3. QED
      BY <2>1, <2>2 DEF Shrinks, OrderInv
  <1>5. QED
    BY <1>1, <1>2, <1>3, <1>4

LEMMA ChangeElems ==
    ASSUME Base, NEW k \in Kind, NEW obj \in Some, Change(k, obj)
    PROVE  /\ Elems(k)' \subseteq Elems(k) \cup {obj}
           /\ \A l \in Kind \ {k} : Elems(l)' = Elems(l)
  <1> DEFINE p == Len(notes[k]) + Len(watch[k]) + 2
  <1>1. /\ p \in Nat \ {0} /\ DOMAIN Chain(k) = 1..p
        /\ Drawn(Chain(k)', Extend(Chain(k), p, obj))
        /\ \A l \in Kind \ {k} : Chain(l)' = Chain(l)
    BY ChangeChain
  <1> HIDE DEF p
  <1>2. ElemsOf(Chain(k)') \subseteq ElemsOf(Extend(Chain(k), p, obj))
    BY <1>1, DrawnElems
  <1>3. ElemsOf(Extend(Chain(k), p, obj)) \subseteq ElemsOf(Chain(k)) \cup {obj}
    BY <1>1 DEF Extend, ElemsOf
  <1>4. Elems(k)' \subseteq Elems(k) \cup {obj}
    BY <1>2, <1>3 DEF Elems
  <1>5. QED
    BY <1>1, <1>4 DEF Elems

\* A new state belongs to the object that is in the cluster, or to one nobody has heard of.
LEMMA NewStateSame ==
    ASSUME Base, ChainInv, FreshInv, NEW k \in Kind, NEW obj \in Some, NewState(k, obj),
           NEW l \in Kind, NEW x \in Elems(l), Same(x, obj)
    PROVE  l = k /\ Same(cluster[k], obj)
  <1>1. x.uid \in Int /\ x.uid <= version /\ version \in Int
    BY ElemTyped, SyncAssumption DEF FreshInv, Same, Base, TypeOK
  <1>2. Same(cluster[k], obj)
    BY <1>1 DEF NewState, Same
  <1>3. cluster[k] \in Elems(k) /\ Same(cluster[k], x)
    BY <1>2, ChainHas DEF Same
  <1>4. QED
    BY <1>2, <1>3 DEF ChainInv, KindInv

LEMMA ChangeChains ==
    ASSUME Base, ChainInv, FreshInv, NEW k \in Kind, NEW obj \in Some, Change(k, obj),
           NewState(k, obj)
    PROVE  ChainInv'
  <1> DEFINE p == Len(notes[k]) + Len(watch[k]) + 2
             s == Chain(k)
  <1>1. /\ p \in Nat \ {0} /\ DOMAIN s = 1..p /\ s[p] = cluster[k]
        /\ Drawn(Chain(k)', Extend(s, p, obj))
        /\ \A l \in Kind \ {k} : Chain(l)' = Chain(l)
    BY ChangeChain
  <1> HIDE DEF p
  <1>2. Ordered(Chain(k)')
    <2>1. \A i \in 1..p : s[i] \in Elems(k)
      BY <1>1 DEF Elems, ElemsOf
    <2>2. \A i \in 1..p : s[i] \in Some
      BY <2>1, ChainHas
    <2>3. \/ \A i \in 1..p : ~Same(s[i], obj)
          \/ Same(s[p], obj) /\ s[p].version <= obj.version
      <3>1. ASSUME NEW i \in 1..p, Same(s[i], obj)
            PROVE  Same(s[p], obj) /\ s[p].version <= obj.version
        <4>1. Same(cluster[k], obj)
          BY <2>1, <3>1, NewStateSame
        <4>2. cluster[k] \in Elems(k) /\ cluster[k] # NoObject /\ obj # NoObject
          BY <4>1, ChainHas DEF Same
        <4>3. cluster[k].version \in Int /\ cluster[k].version <= version /\ version \in Int
          BY <4>2, ElemTyped, SyncAssumption DEF FreshInv, Base, TypeOK
        <4>4. obj.version = version + 1
          BY <4>2 DEF NewState
        <4>5. QED
          BY <4>1, <4>3, <4>4, <1>1
      <3>2. QED
        BY <3>1
    <2>4. Ordered(s)
      BY DEF ChainInv, OrderInv
    <2> HIDE DEF s
    <2>5. Ordered(Extend(s, p, obj))
      BY <1>1, <2>2, <2>3, <2>4, ExtendOrdered
    <2>6. DOMAIN Extend(s, p, obj) \subseteq Int
      BY DEF Extend
    <2>7. QED
      BY <1>1, <2>5, <2>6, ChainDomain, DrawnOrdered
  <1>3. OrderInv'
    BY <1>1, <1>2 DEF OrderInv, ChainInv
  <1>4. ASSUME NEW l \in Kind, NEW m \in Kind, NEW x \in Elems(l)', NEW y \in Elems(m)',
               Same(x, y)
        PROVE  l = m
    <2>1. (x \in Elems(l) \/ (x = obj /\ l = k)) /\ (y \in Elems(m) \/ (y = obj /\ m = k))
      BY <1>4, ChangeElems
    <2>2. CASE x \in Elems(l) /\ y \in Elems(m)
      BY <2>2, <1>4 DEF ChainInv, KindInv
    <2>3. CASE x = obj /\ l = k /\ y \in Elems(m)
      <3>1. Same(y, obj)
        BY <2>3, <1>4 DEF Same
      <3>2. QED
        BY <2>3, <3>1, NewStateSame
    <2>4. CASE y = obj /\ m = k /\ x \in Elems(l)
      BY <2>4, <1>4, NewStateSame
    <2>5. QED
      BY <2>1, <2>2, <2>3, <2>4
  <1>5. KindInv'
    BY <1>4 DEF KindInv, Same
  <1>6. QED
    BY <1>3, <1>5 DEF ChainInv
-----------------------------------------------------------------------------
(* Steps that send nothing new *)

Fewer == Outgoing' = Outgoing \/ Later(Outgoing', Outgoing) \/ Outgoing' = << >>

LEMMA FewerFrom ==
    ASSUME Base, Fewer, NEW i \in 1..Len(Outgoing')
    PROVE  \E j \in 1..Len(Outgoing) : Outgoing'[i] = Outgoing[j]
  <1> DEFINE n == Len(Outgoing)
  <1>1. n \in Nat /\ n = Len(Outgoing)
    BY OutgoingTyped
  <1> HIDE DEF n
  <1>2. CASE Outgoing' = Outgoing
    BY <1>2
  <1>3. CASE Later(Outgoing', Outgoing)
    <2>1. i \in 1..(n - 1) /\ Outgoing'[i] = Outgoing[i + 1]
      BY <1>1, <1>3 DEF Later
    <2>2. i + 1 \in 1..n
      BY <1>1, <2>1
    <2>3. QED
      BY <1>1, <2>1, <2>2
  <1>4. CASE Outgoing' = << >>
    <2>1. Len(<< >>) = 0
      OBVIOUS
    <2>2. QED
      BY <1>4, <2>1
  <1>5. QED
    BY <1>2, <1>3, <1>4 DEF Fewer

LEMMA FewerInOrder ==
    ASSUME Base, Fewer, InOrder(Outgoing)
    PROVE  InOrder(Outgoing')
  <1>1. Outgoing \in Seq(Event)
    BY OutgoingTyped
  <1>2. CASE Outgoing' = << >>
    <2>1. Len(<< >>) = 0
      OBVIOUS
    <2>2. QED
      BY <1>2, <2>1 DEF InOrder
  <1>3. QED
    BY <1>1, <1>2, LaterInOrder DEF Fewer

\* While the handlers see nothing new and nothing new is in the chains.
LEMMA FewerSaid ==
    ASSUME Base, SaidInv, Fewer,
           \A k \in Kind : Elems(k)' \subseteq Elems(k),
           \A k \in Kind : Seen(k)' = Seen(k)
    PROVE  SaidInv'
  <1>1. SUFFICES ASSUME NEW i \in 1..Len(Outgoing'), NEW k \in Kind, NEW x \in Elems(k)',
                        Same(x, Outgoing'[i].obj)
                 PROVE  /\ Outgoing'[i].type # "deleted"
                        /\ Same(Seen(k)', Outgoing'[i].obj)
                        /\ Outgoing'[i].obj.version <= Seen(k)'.version
    BY DEF SaidInv, Same
  <1>2. PICK j \in 1..Len(Outgoing) : Outgoing'[i] = Outgoing[j]
    BY FewerFrom
  <1>3. x \in Elems(k)
    OBVIOUS
  <1>4. /\ Outgoing[j].type # "deleted"
        /\ Same(Seen(k), Outgoing[j].obj)
        /\ Outgoing[j].obj.version <= Seen(k).version
    BY <1>1, <1>2, <1>3 DEF SaidInv
  <1>5. QED
    BY <1>2, <1>4

LEMMA FewerFresh ==
    ASSUME Base, FreshInv, Fewer, Shrinks
    PROVE  FreshInv'
  <1>1. ASSUME NEW i \in 1..Len(Outgoing') PROVE Outgoing'[i].obj.uid <= version
    BY FewerFrom DEF FreshInv
  <1>2. ASSUME NEW k \in Kind, NEW x \in Elems(k)', x # NoObject
        PROVE  x.uid <= version /\ x.version <= version
    BY <1>2 DEF FreshInv, Shrinks
  <1>3. QED
    BY <1>1, <1>2 DEF FreshInv, Shrinks

LEMMA QuietStep ==
    ASSUME IInv, Base',
           (\E k \in Kind : Inform(k)) \/ Sends \/ Snaps \/ UNCHANGED vars
    PROVE  IInv'
  <1>1. Shrinks /\ ChainInv'
    BY StepShrinks, ShrinksKeep DEF IInv
  <1>2. Fewer
    <2>1. CASE (\E k \in Kind : Inform(k)) \/ Snaps \/ UNCHANGED vars
      <3>1. hand' = hand /\ eventChan' = eventChan
        BY <2>1, InformEffect DEF IInv, Snaps, ListKind, BuildPayload, SnapshotApplied,
           SnapshotAbandoned, SnapshotRecorded, vars
      <3>2. QED
        BY <3>1 DEF Fewer, Outgoing
    <2>2. CASE Sends
      BY <2>2, SendsOutgoing DEF IInv, Fewer
    <2>3. QED
      BY <2>1, <2>2
  <1>3. \A k \in Kind : Elems(k)' \subseteq Elems(k) /\ Seen(k)' = Seen(k)
    <2>1. CASE \E k \in Kind : Inform(k)
      BY <2>1, InformChain, DrawnElems DEF IInv, Elems
    <2>2. CASE Sends \/ Snaps \/ UNCHANGED vars
      <3>1. UNCHANGED <<cluster, version, watch, cache, notes>>
        BY <2>2, PathKept
      <3>2. QED
        BY <3>1 DEF Elems, Chain, Seen
    <2>3. QED
      BY <2>1, <2>2
  <1>4. SaidInv'
    BY <1>2, <1>3, FewerSaid DEF IInv
  <1>5. FreshInv' /\ InOrder(Outgoing')
    BY <1>1, <1>2, FewerFresh, FewerInOrder DEF IInv
  <1>6. QED
    BY <1>1, <1>4, <1>5 DEF IInv, InOrder
-----------------------------------------------------------------------------
(* Changes of the cluster, handlers, restarts *)

LEMMA ChangeStep ==
    ASSUME IInv, Base', NEW k \in Kind, NEW obj \in Some, Change(k, obj), NewState(k, obj)
    PROVE  IInv'
  <1>1. ChainInv'
    BY ChangeChains DEF IInv
  <1>2. Outgoing' = Outgoing /\ version' = version + 1
    BY DEF Change, Outgoing
  <1>3. /\ Elems(k)' \subseteq Elems(k) \cup {obj}
        /\ \A l \in Kind \ {k} : Elems(l)' = Elems(l)
    BY ChangeElems DEF IInv
  <1>4. version \in Int /\ Outgoing \in Seq(Event)
    <2>1. Base
      BY DEF IInv
    <2>2. version \in 0..MaxChanges
      BY <2>1 DEF Base, TypeOK
    <2>3. version \in Int
      BY <2>2
    <2>4. Outgoing \in Seq(Event)
      BY <2>1, OutgoingTyped
    <2>5. QED
      BY <2>3, <2>4
  <1>5. ASSUME NEW l \in Kind, NEW x \in Elems(l)', x # NoObject
        PROVE  x.uid <= version + 1 /\ x.version <= version + 1
    <2>1. CASE x \in Elems(l)
      <3>1. x.uid \in Int /\ x.version \in Int /\ x.uid <= version /\ x.version <= version
        BY <2>1, <1>5, ElemTyped DEF IInv, FreshInv
      <3>2. QED
        BY <3>1, <1>4
    <2>2. CASE x = obj
      <3>1. cluster[k] \in Elems(k)
        BY ChainHas DEF IInv
      <3>2. cluster[k] # NoObject => cluster[k].uid \in Int /\ cluster[k].uid <= version
        BY <3>1, ElemTyped DEF IInv, FreshInv
      <3>3. x.version = version + 1 /\ (x.uid = version + 1 \/ Same(cluster[k], x))
        BY <2>2, <1>5 DEF NewState
      <3>4. QED
        BY <3>2, <3>3, <1>4 DEF Same
    <2>3. QED
      BY <2>1, <2>2, <1>3
  <1>6. ASSUME NEW i \in 1..Len(Outgoing) PROVE Outgoing[i].obj.uid <= version + 1
    <2>1. Outgoing[i] \in Event
      BY <1>4
    <2>2. Outgoing[i].obj.uid \in Int /\ Outgoing[i].obj.uid <= version
      BY <2>1, SyncAssumption DEF Event, Object, UID, IInv, FreshInv
    <2>3. QED
      BY <2>2, <1>4
  <1>7. FreshInv'
    BY <1>2, <1>5, <1>6 DEF FreshInv
  <1>8. \A l \in Kind : Seen(l)' = Seen(l)
    BY ChangeChain DEF IInv
  <1>9. SaidInv'
    <2>1. SUFFICES ASSUME NEW i \in 1..Len(Outgoing), NEW l \in Kind, NEW x \in Elems(l)',
                          Same(x, Outgoing[i].obj)
                   PROVE  /\ Outgoing[i].type # "deleted"
                          /\ Same(Seen(l), Outgoing[i].obj)
                          /\ Outgoing[i].obj.version <= Seen(l).version
      BY <1>2, <1>8 DEF SaidInv, Same
    <2>2. CASE x \in Elems(l)
      BY <2>1, <2>2 DEF IInv, SaidInv
    <2>3. CASE x = obj /\ l = k
      <3>1. Outgoing[i].obj.uid \in Int /\ Outgoing[i].obj.uid <= version
        <4>1. Outgoing[i] \in Event
          BY <1>4
        <4>2. QED
          BY <4>1, SyncAssumption DEF Event, Object, UID, IInv, FreshInv
      <3>2. Same(cluster[k], obj)
        BY <3>1, <1>4, <2>1, <2>3 DEF NewState, Same
      <3>3. Same(cluster[k], Outgoing[i].obj) /\ cluster[k] \in Elems(k)
        BY <2>1, <2>3, <3>2, ChainHas DEF Same, IInv
      <3>4. QED
        BY <2>3, <3>3 DEF IInv, SaidInv
    <2>4. QED
      BY <2>2, <2>3, <1>3
  <1>10. QED
    BY <1>1, <1>2, <1>7, <1>9 DEF IInv, InOrder

LEMMA RestartStep ==
    ASSUME IInv, Base', Restart
    PROVE  IInv'
  <1>1. Shrinks /\ ChainInv'
    BY StepShrinks, ShrinksKeep DEF IInv
  <1>2. Outgoing' = << >> /\ Len(<< >>) = 0
    BY DEF Restart, Outgoing
  <1>3. Fewer
    BY <1>2 DEF Fewer
  <1>4. SaidInv'
    BY <1>2 DEF SaidInv
  <1>5. FreshInv' /\ InOrder(Outgoing')
    BY <1>1, <1>3, FewerFresh, FewerInOrder DEF IInv
  <1>6. QED
    BY <1>1, <1>4, <1>5 DEF IInv, InOrder

\* The event of a notification is about one of the first two states of the chain.
LEMMA EventPlace ==
    ASSUME IInv, NEW k \in Kind, Handle(k), NEW e \in EventsOf(notes[k][1])
    PROVE  LET n == notes[k][1] IN
           /\ e \in Event /\ e.obj \in Elems(k) /\ e.obj # NoObject
           /\ e.type = "deleted" => e.obj = Seen(k) /\ Seen(k)' = NoObject
           /\ e.type # "deleted" => e.obj = Seen(k)'
           /\ Same(Seen(k), Seen(k)') => Seen(k).version < Seen(k)'.version
  <1> DEFINE n == notes[k][1]
             s == Chain(k)
  <1>1. n \in Note /\ WellFormed(n) /\ Len(notes[k]) \in Nat /\ Len(notes[k]) >= 1
    BY HandleFacts DEF IInv
  <1>2. /\ Seen(k)' = n.new /\ Seen(k) = n.old
        /\ 1 \in DOMAIN s /\ 2 \in DOMAIN s /\ s[1] = n.old /\ s[2] = n.new
    BY HandleChain DEF IInv
  <1>3. n.old \in Elems(k) /\ n.new \in Elems(k)
    BY <1>2 DEF Elems, ElemsOf
  <1> HIDE DEF n, s
  <1>4. /\ e \in Event
        /\ \/ e.type = "added" /\ n.type = "added" /\ e.obj = n.new
           \/ e.type = "modified" /\ n.type = "modified" /\ e.obj = n.new
              /\ n.old.version # n.new.version
           \/ e.type = "deleted" /\ n.type = "deleted" /\ e.obj = n.old
    BY <1>1, EventTyped DEF n
  <1>5. e.obj \in Elems(k) /\ e.obj # NoObject
    BY <1>1, <1>3, <1>4 DEF WellFormed
  <1>6. ASSUME Same(n.old, n.new) PROVE n.old.version < n.new.version
    <2>1. n.old.version <= n.new.version
      BY <1>2, <1>6 DEF IInv, ChainInv, OrderInv, Ordered, s
    <2>2. n.old.version # n.new.version
      BY <1>1, <1>4, <1>6 DEF WellFormed, Same
    <2>3. n.old.version \in Int /\ n.new.version \in Int
      BY <1>3, <1>6, ElemTyped DEF IInv, Same
    <2>4. QED
      BY <2>1, <2>2, <2>3
  <1>7. QED
    BY <1>1, <1>2, <1>4, <1>5, <1>6 DEF WellFormed, n

\* A handler goes one step along the chain: what was said before stays true of the rest.
LEMMA HandledSaid ==
    ASSUME IInv, NEW k \in Kind, Handle(k), NEW e \in Event,
           NEW x \in Elems(k)', Same(x, e.obj),
           \/ e.type # "deleted" /\ Same(Seen(k), e.obj) /\ e.obj.version <= Seen(k).version
           \/ e \in EventsOf(notes[k][1])
    PROVE  e.type # "deleted" /\ Same(Seen(k)', e.obj) /\ e.obj.version <= Seen(k)'.version
  <1> DEFINE s == Chain(k)
  <1>1. /\ 1 \in DOMAIN s /\ 2 \in DOMAIN s /\ s[1] = Seen(k) /\ s[2] = Seen(k)'
    BY HandleChain DEF IInv
  <1>2. PICK j \in DOMAIN s : 2 <= j /\ x = s[j]
    BY HandleChain DEF IInv
  <1>3. Ordered(s) /\ DOMAIN s \subseteq Int
    BY ChainDomain DEF IInv, ChainInv, OrderInv
  <1>4. Seen(k) \in Elems(k) /\ Seen(k)' \in Elems(k)
    BY <1>1 DEF Elems, ElemsOf
  <1> HIDE DEF s
  <1>5. Same(Seen(k), x) =>
            Same(Seen(k)', Seen(k)) /\ Seen(k).version <= Seen(k)'.version
    <2>1. ASSUME Same(Seen(k), x)
          PROVE  Same(Seen(k)', Seen(k)) /\ Seen(k).version <= Seen(k)'.version
      <3>1. Same(s[1], s[j]) /\ 1 <= j /\ 1 <= 2
        BY <2>1, <1>1, <1>2, <1>3
      <3>2. Same(s[2], s[1])
        BY <3>1, <1>1, <1>2, <1>3 DEF Ordered
      <3>3. Same(s[1], s[2])
        BY <3>2 DEF Same
      <3>4. s[1].version <= s[2].version
        BY <3>1, <3>3, <1>1, <1>3 DEF Ordered
      <3>5. QED
        BY <3>2, <3>4, <1>1
    <2>2. QED
      BY <2>1
  <1>6. e.obj.version \in Int
    BY SyncAssumption DEF Event, Object, UID
  <1>7. CASE e.type # "deleted" /\ Same(Seen(k), e.obj) /\ e.obj.version <= Seen(k).version
    <2>1. Same(Seen(k), x)
      BY <1>7 DEF Same
    <2>2. Seen(k).version \in Int /\ Seen(k)'.version \in Int
      BY <1>4, <1>5, <2>1, ElemTyped DEF Same, IInv
    <2>3. QED
      BY <1>5, <1>6, <1>7, <2>1, <2>2 DEF Same
  <1>8. CASE e \in EventsOf(notes[k][1])
    <2>1. /\ e.obj # NoObject
          /\ e.type = "deleted" => e.obj = Seen(k) /\ Seen(k)' = NoObject
          /\ e.type # "deleted" => e.obj = Seen(k)'
      BY <1>8, EventPlace
    <2>2. e.type # "deleted"
      BY <2>1, <1>5 DEF Same
    <2>3. QED
      BY <2>1, <2>2, <1>6 DEF Same
  <1>9. QED
    BY <1>7, <1>8

LEMMA HandleStep ==
    ASSUME IInv, Base', NEW k \in Kind, Handle(k)
    PROVE  IInv'
  <1>1. Shrinks /\ ChainInv'
    BY StepShrinks, ShrinksKeep DEF IInv
  <1>2. Outgoing \in Seq(Event) /\ Len(Outgoing) \in Nat
    BY OutgoingTyped DEF IInv
  <1>3. ASSUME NEW l \in Kind, NEW x \in Elems(l)', x # NoObject PROVE x \in Elems(l)
    BY <1>1, <1>3 DEF Shrinks
  <1>4. \A l \in Kind \ {k} : Seen(l)' = Seen(l)
    BY HandleChain DEF IInv
  <1>5. ASSUME NEW i \in 1..Len(Outgoing), NEW l \in Kind, NEW x \in Elems(l)',
               Same(x, Outgoing[i].obj)
        PROVE  /\ Outgoing[i].type # "deleted"
               /\ Same(Seen(l)', Outgoing[i].obj)
               /\ Outgoing[i].obj.version <= Seen(l)'.version
    <2>1. x \in Elems(l) /\ Outgoing[i] \in Event
      BY <1>2, <1>3, <1>5 DEF Same
    <2>2. /\ Outgoing[i].type # "deleted"
          /\ Same(Seen(l), Outgoing[i].obj)
          /\ Outgoing[i].obj.version <= Seen(l).version
      BY <1>5, <2>1 DEF IInv, SaidInv
    <2>3. CASE l = k
      BY <1>5, <2>1, <2>2, <2>3, HandledSaid
    <2>4. CASE l # k
      BY <1>4, <2>2, <2>4
    <2>5. QED
      BY <2>3, <2>4
  <1>6. CASE Outgoing' = Outgoing
    <2>1. Fewer
      BY <1>6 DEF Fewer
    <2>2. SaidInv'
      BY <1>5, <1>6 DEF SaidInv, Same
    <2>3. FreshInv' /\ InOrder(Outgoing')
      BY <1>1, <2>1, FewerFresh, FewerInOrder DEF IInv
    <2>4. QED
      BY <1>1, <2>2, <2>3 DEF IInv, InOrder
  <1>7. ASSUME NEW e \in EventsOf(notes[k][1]), Pushed(Outgoing', Outgoing, e)
        PROVE  IInv'
    <2> DEFINE n == Len(Outgoing)
    <2>1. /\ n \in Nat /\ n = Len(Outgoing) /\ Len(Outgoing') = n + 1 /\ Outgoing'[n + 1] = e
          /\ \A i \in 1..n : Outgoing'[i] = Outgoing[i] /\ Outgoing[i] \in Event
      BY <1>2, <1>7 DEF Pushed
    <2> HIDE DEF n
    <2>2. \A i \in 1..(n + 1) : i \in 1..n \/ i = n + 1
      BY <2>1
    <2>3. /\ e \in Event /\ e.obj \in Elems(k) /\ e.obj # NoObject
          /\ e.type = "deleted" => e.obj = Seen(k) /\ Seen(k)' = NoObject
          /\ e.type # "deleted" => e.obj = Seen(k)'
          /\ Same(Seen(k), Seen(k)') => Seen(k).version < Seen(k)'.version
      BY EventPlace
    <2>4. SaidInv'
      <3>1. SUFFICES ASSUME NEW i \in 1..(n + 1), NEW l \in Kind, NEW x \in Elems(l)',
                            Same(x, Outgoing'[i].obj)
                     PROVE  /\ Outgoing'[i].type # "deleted"
                            /\ Same(Seen(l)', Outgoing'[i].obj)
                            /\ Outgoing'[i].obj.version <= Seen(l)'.version
        BY <2>1 DEF SaidInv, Same
      <3>2. CASE i \in 1..n
        BY <3>1, <3>2, <2>1, <1>5
      <3>3. CASE i = n + 1
        <4>1. x \in Elems(l) /\ Same(x, e.obj)
          BY <3>1, <3>3, <2>1, <1>3 DEF Same
        <4>2. l = k
          BY <4>1, <2>3 DEF IInv, ChainInv, KindInv
        <4>3. e.type # "deleted" /\ Same(Seen(k)', e.obj) /\ e.obj.version <= Seen(k)'.version
          BY <4>1, <4>2, <2>3, HandledSaid
        <4>4. QED
          BY <4>2, <4>3, <3>3, <2>1
      <3>4. QED
        BY <3>2, <3>3, <2>2
    <2>5. FreshInv'
      <3>1. e.obj.uid <= version
        BY <2>3 DEF IInv, FreshInv
      <3>2. \A i \in 1..(n + 1) : Outgoing'[i].obj.uid <= version
        BY <3>1, <2>1, <2>2 DEF IInv, FreshInv
      <3>3. \A l \in Kind : \A x \in Elems(l)' :
                x # NoObject => x.uid <= version /\ x.version <= version
        BY <1>3 DEF IInv, FreshInv
      <3>4. QED
        BY <3>2, <3>3, <2>1, <1>1 DEF FreshInv, Shrinks
    <2>6. ASSUME NEW i \in 1..n, Outgoing[i].obj.uid = e.obj.uid
          PROVE  /\ Outgoing[i].type # "deleted"
                 /\ e.type = "deleted" \/ Outgoing[i].obj.version < e.obj.version
      <3>1. Outgoing[i].obj \in Object /\ Outgoing[i].obj.version \in Int
        BY <2>1, SyncAssumption DEF Event, Object, UID
      <3>2. Same(e.obj, Outgoing[i].obj)
        BY <3>1, <2>3, <2>6, SentinelAssumption DEF Same
      <3>3. /\ Outgoing[i].type # "deleted"
            /\ Same(Seen(k), Outgoing[i].obj)
            /\ Outgoing[i].obj.version <= Seen(k).version
        BY <3>2, <2>1, <2>3 DEF IInv, SaidInv
      <3>4. CASE e.type # "deleted"
        <4>1. Same(Seen(k), Seen(k)')
          BY <3>2, <3>3, <3>4, <2>3 DEF Same
        <4>2. Seen(k) \in Elems(k)
          BY ChainHas DEF IInv
        <4>3. Seen(k).version \in Int /\ Seen(k)'.version \in Int
          BY <4>1, <4>2, <3>4, <2>3, ElemTyped DEF Same, IInv
        <4>4. QED
          BY <4>1, <4>3, <3>1, <3>3, <3>4, <2>3
      <3>5. QED
        BY <3>3, <3>4
    <2>7. InOrder(Outgoing')
      <3>1. SUFFICES ASSUME NEW i \in 1..(n + 1), NEW j \in 1..(n + 1), i < j,
                            Outgoing'[i].obj.uid = Outgoing'[j].obj.uid
                     PROVE  /\ Outgoing'[i].type # "deleted"
                            /\ \/ Outgoing'[j].type = "deleted"
                               \/ Outgoing'[i].obj.version < Outgoing'[j].obj.version
        BY <2>1 DEF InOrder
      <3>2. i \in 1..n
        BY <2>1, <3>1
      <3>3. CASE j \in 1..n
        BY <3>1, <3>2, <3>3, <2>1 DEF IInv, InOrder
      <3>4. CASE j = n + 1
        BY <3>1, <3>2, <3>4, <2>1, <2>6
      <3>5. QED
        BY <3>3, <3>4, <2>2
    <2>8. QED
      BY <1>1, <2>4, <2>5, <2>7 DEF IInv, InOrder
  <1>8. QED
    BY <1>6, <1>7, HandleOutgoing DEF IInv
-----------------------------------------------------------------------------
(* The theorem *)

LEMMA IInvInit == Init => IInv
  <1> SUFFICES ASSUME Init PROVE IInv
    OBVIOUS
  <1>1. Base
    BY BaseInit
  <1>2. Outgoing = << >> /\ Len(<< >>) = 0
    BY DEF Init, Outgoing
  <1>3. ASSUME NEW k \in Kind
        PROVE  DOMAIN Chain(k) = 1..2 /\ Chain(k)[1] = NoObject /\ Chain(k)[2] = NoObject
    BY <1>2 DEF Init, Chain, ChainOf, SeenOf
  <1>4. \A k \in Kind : Elems(k) = {NoObject}
    BY <1>3 DEF Elems, ElemsOf
  <1>5. OrderInv
    BY <1>3 DEF OrderInv, Ordered, Same
  <1>6. KindInv /\ FreshInv /\ SaidInv /\ InOrder(Outgoing)
    BY <1>2, <1>4 DEF KindInv, FreshInv, SaidInv, InOrder, Same
  <1>7. QED
    BY <1>1, <1>5, <1>6 DEF IInv, ChainInv

LEMMA IInvStep == IInv /\ [Next]_vars => IInv'
  <1> SUFFICES ASSUME IInv, [Next]_vars PROVE IInv'
    OBVIOUS
  <1>1. Base /\ Base'
    BY BaseInductive DEF IInv
  <1>2. ASSUME NEW k \in Kind, NEW obj \in Some, Change(k, obj), NewState(k, obj) PROVE IInv'
    BY <1>1, <1>2, ChangeStep
  <1>3. ASSUME NEW k \in Kind, Handle(k) PROVE IInv'
    BY <1>1, <1>3, HandleStep
  <1>4. CASE (\E k \in Kind : Inform(k)) \/ Sends \/ Snaps \/ UNCHANGED vars
    BY <1>1, <1>4, QuietStep
  <1>5. CASE Restart
    BY <1>1, <1>5, RestartStep
  <1>6. QED
    BY <1>1, <1>2, <1>3, <1>4, <1>5, NextCases DEF Sends, Snaps

\* onAdd, onUpdate, onDelete, sendEvent: whatever the cluster, the watches and the
\* relists do, the events of an object leave the operator in the order of its versions,
\* each version once, the deletion last.
THEOREM EventsLeaveInOrder == Spec => []EventsInOrder
  <1>1. Spec => []IInv
    BY IInvInit, IInvStep, PTL DEF Spec
  <1>2. IInv => EventsInOrder
    BY DEF IInv, InOrder, EventsInOrder
  <1>3. QED
    BY <1>1, <1>2, PTL
===============================================================================
