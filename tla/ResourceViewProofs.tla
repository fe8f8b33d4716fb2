--------------------------- MODULE ResourceViewProofs ---------------------------
(***************************************************************************)
(* What the platform knows, for any number of kinds, any buffer and any    *)
(* bounds.  Of an object whose last change was not lost, the last event on *)
(* its way says what the handlers have seen; once there is none, and no    *)
(* notification that will make one, the platform has what the informers    *)
(* have.                                                                   *)
(***************************************************************************)
EXTENDS ResourceEventsProofs

\* x as far as it concerns the UID u.
At(x, u) == IF x # NoObject /\ x.uid = u THEN {x} ELSE {}
SeenOn(u) == UNION {At(Seen(k), u) : k \in Kind}
CachedOn(u) == UNION {At(cache[k], u) : k \in Kind}

\* The notification n will make an event, and concerns u.
About(n, u) == EventsOf(n) # {} /\ u \in Uids({n.old, n.new})

\* The state that notification i of no starts from, ca being the one they end with.
Before(no, ca, i) == IF i = Len(no) + 1 THEN ca ELSE no[i].old
Quiet(no, ca, u) ==
    \A i \in 1..(Len(no) + 1) :
        (\A j \in 1..Len(no) : i <= j => ~About(no[j], u)) => At(Before(no, ca, i), u) = At(ca, u)

\* The states of an object have different versions.
VersionInv ==
    \A k \in Kind : \A x, y \in Elems(k) :
        x # NoObject /\ y # NoObject /\ x.version = y.version => x = y

\* Where no event about u will be made any more, nothing happens to u either.
QuietInv == \A k \in Kind, u \in UID : Quiet(notes[k], cache[k], u)

\* An object whose deletion was confirmed is nowhere on its way.
BuriedInv ==
    \A u \in buried :
        /\ u <= version
        /\ \A k \in Kind : \A x \in Elems(k) : At(x, u) = {}
        /\ \A i \in 1..Len(Outgoing) : Outgoing[i].obj.uid # u

\* What the caches of the first m kinds have of u.
Listable(u, m) == UNION {At(cache[k], u) : k \in {l \in Kind : l <= m}}

\* Where nothing changed since, the snapshot has what the caches have.
SnapshotInv ==
    \A u \in UID \ changed :
        snapshot.phase # "accepted" =>
            {o \in snapshot.objects : o.uid = u} = Listable(u, snapshot.upto)

Said(e) == IF e.type = "deleted" THEN {} ELSE {e.obj}
Outstanding(u) == \E i \in 1..Len(Outgoing) : Outgoing[i].obj.uid = u

\* The informer of u has yet to list it, which will make an event.
Unheard(u) == \E k \in Kind \ listed : At(cluster[k], u) # {}

LastWordInv ==
    \A u \in UID \ missed : \A i \in 1..Len(Outgoing) :
        /\ Outgoing[i].obj.uid = u
        /\ \A j \in 1..Len(Outgoing) : i < j => Outgoing[j].obj.uid # u
        => Said(Outgoing[i]) = SeenOn(u)

KnownInv ==
    \A u \in UID \ missed :
        ~Outstanding(u) /\ ~Noted(u) => Known(u) = CachedOn(u) \/ Unheard(u)

VInv == /\ IInv /\ VersionInv /\ QuietInv /\ BuriedInv /\ SnapshotInv
        /\ LastWordInv /\ KnownInv
-----------------------------------------------------------------------------
(* Basic facts *)

\* A notification that makes no event about u leaves u as it is.
LEMMA NotAbout ==
    ASSUME Base, VersionInv, NEW k \in Kind, NEW n \in Note, WellFormed(n),
           n.old \in Elems(k), n.new \in Elems(k), NEW u, ~About(n, u)
    PROVE  At(n.old, u) = At(n.new, u)
  <1>1. CASE EventsOf(n) # {}
    <2>1. u \notin Uids({n.old, n.new})
      BY <1>1 DEF About
    <2>2. At(n.old, u) = {} /\ At(n.new, u) = {}
      BY <2>1 DEF At, Uids
    <2>3. QED
      BY <2>2
  <1>2. CASE EventsOf(n) = {}
    <2>1. n.type \in EventType
      BY DEF Note
    <2>2. n.type = "modified" /\ SameVersion(n.old, n.new)
      BY <1>2, <2>1 DEF EventsOf, EventType
    <2>3. n.old = n.new
      BY <2>2 DEF SameVersion, WellFormed, VersionInv
    <2>4. QED
      BY <2>3
  <1>3. QED
    BY <1>1, <1>2

\* An object is of the kind that has it.
LEMMA OnlyKind ==
    ASSUME IInv, NEW k \in Kind, NEW x \in Elems(k), x # NoObject
    PROVE  /\ SeenOn(x.uid) = At(Seen(k), x.uid)
           /\ CachedOn(x.uid) = At(cache[k], x.uid)
  <1>1. \A l \in Kind : \A y \in Elems(l) : y # NoObject /\ y.uid = x.uid => l = k
    BY DEF IInv, ChainInv, KindInv, Same
  <1>2. \A l \in Kind : Seen(l) \in Elems(l) /\ cache[l] \in Elems(l)
    BY ChainHas DEF IInv
  <1>3. \A l \in Kind \ {k} : At(Seen(l), x.uid) = {} /\ At(cache[l], x.uid) = {}
    BY <1>1, <1>2 DEF At
  <1>4. QED
    BY <1>3 DEF SeenOn, CachedOn

\* Once no event about u will be made, the handlers have seen what the caches have.
LEMMA AllSeen ==
    ASSUME IInv, QuietInv, NEW u \in UID, ~Noted(u)
    PROVE  SeenOn(u) = CachedOn(u)
  <1>1. ASSUME NEW k \in Kind PROVE At(Seen(k), u) = At(cache[k], u)
    <2> DEFINE n == Len(notes[k])
    <2>1. n \in Nat /\ n = Len(notes[k]) /\ notes[k] \in Seq(Note)
      BY PathTyped DEF IInv
    <2>2. \A j \in 1..n : ~About(notes[k][j], u)
      BY DEF Noted, About, ElementsOf
    <2>3. n # 0 => Seen(k) = notes[k][1].old
      BY DEF Seen, SeenOf
    <2>4. n = 0 => Seen(k) = cache[k]
      BY DEF Seen, SeenOf
    <2> HIDE DEF n
    <2>5. 1 \in 1..(n + 1) /\ (n # 0 => 1 # n + 1)
      BY <2>1
    <2>6. At(Before(notes[k], cache[k], 1), u) = At(cache[k], u)
      BY <2>1, <2>2, <2>5 DEF QuietInv, Quiet
    <2>7. CASE n = 0
      BY <2>4, <2>7
    <2>8. CASE n # 0
      <3>1. Before(notes[k], cache[k], 1) = notes[k][1].old
        BY <2>1, <2>5, <2>8 DEF Before
      <3>2. QED
        BY <3>1, <2>3, <2>6, <2>8
    <2>9. QED
      BY <2>7, <2>8
  <1>2. QED
    BY <1>1 DEF SeenOn, CachedOn

LEMMA CachedIs ==
    ASSUME Base, NEW u \in UID
    PROVE  Cached(u) = CachedOn(u)
  <1>1. cache \in [Kind -> Some] /\ Len(cache) = NumKinds /\ Kind = 1..NumKinds
    BY SyncAssumption, LenProperties DEF Base, TypeOK, Some, Kind
  <1>2. ElementsOf(cache) = {cache[k] : k \in Kind}
    BY <1>1 DEF ElementsOf
  <1>3. QED
    BY <1>2 DEF Cached, CachedOn, At

LEMMA PendingIs ==
    ASSUME Base, NEW u
    PROVE  Queued(u) \/ InHand(u) <=> Outstanding(u)
  <1> DEFINE n == Len(eventChan)
  <1>1. n \in Nat /\ n = Len(eventChan)
        /\ (hand = NoEvent => Outgoing = eventChan)
        /\ (hand # NoEvent =>
                /\ Len(Outgoing) = n + 1 /\ Outgoing[1] = hand
                /\ \A i \in 1..n : Outgoing[i + 1] = eventChan[i])
    BY OutgoingTyped
  <1>2. Queued(u) <=> \E i \in 1..n : eventChan[i].obj.uid = u
    BY DEF Queued, ElementsOf
  <1> HIDE DEF n
  <1>3. CASE hand = NoEvent
    BY <1>1, <1>2, <1>3 DEF InHand, Outstanding
  <1>4. CASE hand # NoEvent
    <2>1. \A i \in 1..(n + 1) : i = 1 \/ (i - 1 \in 1..n /\ (i - 1) + 1 = i)
      BY <1>1
    <2>2. \A i \in 1..n : i + 1 \in 1..(n + 1)
      BY <1>1
    <2>3. 1 \in 1..(n + 1)
      BY <1>1
    <2>4. ASSUME Outstanding(u) PROVE Queued(u) \/ InHand(u)
      <3>1. PICK i \in 1..(n + 1) : Outgoing[i].obj.uid = u
        BY <1>1, <1>4, <2>4 DEF Outstanding
      <3>2. CASE i = 1
        BY <3>1, <3>2, <1>1, <1>4 DEF InHand
      <3>3. CASE i - 1 \in 1..n /\ (i - 1) + 1 = i
        BY <3>1, <3>3, <1>1, <1>2, <1>4
      <3>4. QED
        BY <3>2, <3>3, <2>1
    <2>5. Queued(u) => Outstanding(u)
      BY <1>1, <1>2, <1>4, <2>2 DEF Outstanding
    <2>6. InHand(u) => Outstanding(u)
      BY <1>1, <1>4, <2>3 DEF InHand, Outstanding
    <2>7. QED
      BY <2>4, <2>5, <2>6
  <1>5. QED
    BY <1>3, <1>4
-----------------------------------------------------------------------------
(* Versions and deletions *)

LEMMA ElemKept ==
    ASSUME Shrinks, NEW k \in Kind, NEW x \in Elems(k)', x # NoObject
    PROVE  x \in Elems(k)
  BY DEF Shrinks

LEMMA VersionsKept ==
    ASSUME VersionInv, Shrinks
    PROVE  VersionInv'
  BY ElemKept DEF VersionInv

LEMMA VersionsChange ==
    ASSUME IInv, VersionInv, NEW k \in Kind, NEW obj \in Some, Change(k, obj), NewState(k, obj)
    PROVE  VersionInv'
  <1>1. \A l \in Kind : \A x \in Elems(l) :
            x # NoObject => x.version \in Int /\ x.version <= version
    BY ElemTyped DEF IInv, FreshInv
  <1>2. version \in Int
    BY SyncAssumption DEF IInv, Base, TypeOK
  <1>3. \A l \in Kind : \A x \in Elems(l)' : x \in Elems(l) \/ x = obj
    BY ChangeElems DEF IInv
  <1>4. obj # NoObject => obj.version = version + 1
    BY DEF NewState
  <1>5. SUFFICES ASSUME NEW l \in Kind, NEW x \in Elems(l)', NEW y \in Elems(l)',
                        x # NoObject, y # NoObject, x.version = y.version
                 PROVE  x = y
    BY DEF VersionInv
  <1>6. CASE x \in Elems(l) /\ y \in Elems(l)
    BY <1>5, <1>6 DEF VersionInv
  <1>7. CASE x = obj /\ y \in Elems(l)
    BY <1>1, <1>2, <1>4, <1>5, <1>7
  <1>8. CASE y = obj /\ x \in Elems(l)
    BY <1>1, <1>2, <1>4, <1>5, <1>8
  <1>9. QED
    BY <1>3, <1>6, <1>7, <1>8

LEMMA BuriedKept ==
    ASSUME IInv, BuriedInv, Shrinks, buried' = buried,
           Fewer \/ \E k \in Kind : Handle(k)
    PROVE  BuriedInv'
  <1>1. SUFFICES ASSUME NEW u \in buried
                 PROVE  /\ u <= version
                        /\ \A k \in Kind : \A x \in Elems(k)' : At(x, u) = {}
                        /\ \A i \in 1..Len(Outgoing') : Outgoing'[i].obj.uid # u
    BY DEF BuriedInv, Shrinks, At
  <1>2. /\ u <= version
        /\ \A k \in Kind : \A x \in Elems(k) : At(x, u) = {}
        /\ \A i \in 1..Len(Outgoing) : Outgoing[i].obj.uid # u
    BY DEF BuriedInv
  <1>3. \A k \in Kind : \A x \in Elems(k)' : At(x, u) = {}
    BY <1>2, ElemKept DEF At
  <1>4. CASE Fewer
    BY <1>2, <1>3, <1>4, FewerFrom DEF IInv
  <1>5. ASSUME NEW k \in Kind, Handle(k)
        PROVE  \A i \in 1..Len(Outgoing') : Outgoing'[i].obj.uid # u
    <2>1. CASE Outgoing' = Outgoing
      BY <2>1, <1>2
    <2>2. ASSUME NEW e \in EventsOf(notes[k][1]), Pushed(Outgoing', Outgoing, e)
          PROVE  \A i \in 1..Len(Outgoing') : Outgoing'[i].obj.uid # u
      <3>1. e.obj \in Elems(k) /\ e.obj # NoObject
        BY <1>5, EventPlace
      <3>2. e.obj.uid # u
        BY <3>1, <1>2 DEF At
      <3>3. Len(Outgoing) \in Nat
        BY OutgoingTyped DEF IInv
      <3>4. QED
        BY <2>2, <3>2, <3>3, <1>2 DEF Pushed
    <2>3. QED
      BY <1>5, <2>1, <2>2, HandleOutgoing DEF IInv
  <1>6. QED
    BY <1>2, <1>3, <1>4, <1>5

LEMMA BuriedChange ==
    ASSUME IInv, BuriedInv, NEW k \in Kind, NEW obj \in Some, Change(k, obj), NewState(k, obj)
    PROVE  BuriedInv'
  <1>1. version \in Int /\ version' = version + 1 /\ Outgoing' = Outgoing /\ buried' = buried
        /\ buried \subseteq UID
    BY SyncAssumption DEF IInv, Base, TypeOK, Change, Outgoing
  <1>2. SUFFICES ASSUME NEW u \in buried
                 PROVE  /\ u <= version + 1
                        /\ \A l \in Kind : \A x \in Elems(l)' : At(x, u) = {}
                        /\ \A i \in 1..Len(Outgoing) : Outgoing[i].obj.uid # u
    BY <1>1 DEF BuriedInv, At
  <1>3. /\ u <= version
        /\ \A l \in Kind : \A x \in Elems(l) : At(x, u) = {}
        /\ \A i \in 1..Len(Outgoing) : Outgoing[i].obj.uid # u
    BY DEF BuriedInv
  <1>4. u \in Int
    BY <1>1, SyncAssumption DEF UID
  <1>5. At(obj, u) = {}
    <2>1. cluster[k] \in Elems(k)
      BY ChainHas DEF IInv
    <2>2. ~(cluster[k] # NoObject /\ cluster[k].uid = u)
      BY <1>3, <2>1 DEF At
    <2>3. obj # NoObject => obj.uid # u
      BY <1>1, <1>3, <1>4, <2>2 DEF NewState, Same
    <2>4. QED
      BY <2>3 DEF At
  <1>6. \A l \in Kind : \A x \in Elems(l)' : x \in Elems(l) \/ x = obj
    BY ChangeElems DEF IInv
  <1>7. QED
    BY <1>1, <1>3, <1>4, <1>5, <1>6

\* A confirmed deletion was the last event of its object, and its handlers saw it go.
LEMMA BuriedSends ==
    ASSUME IInv, BuriedInv, Shrinks, Sends, Base'
    PROVE  BuriedInv'
  <1>1. Outgoing' = Outgoing \/ (hand # NoEvent /\ hand' = NoEvent /\ Later(Outgoing', Outgoing))
    BY SendsOutgoing DEF IInv
  <1>2. Fewer
    BY <1>1 DEF Fewer
  <1>3. CASE buried' = buried
    BY <1>2, <1>3, BuriedKept
  <1>4. CASE buried' # buried
    <2> DEFINE v == hand.obj.uid
               n == Len(Outgoing)
    <2>1. hand # NoEvent /\ hand' = NoEvent /\ hand.type = "deleted" /\ buried' = buried \cup {v}
      BY <1>4 DEF Sends, Receive, EventApplied, EventFails
    <2>2. hand \in Event /\ hand.obj \in Object
      BY <2>1 DEF IInv, Base, TypeOK, Event
    <2>3. Outgoing[1] = hand /\ n \in Nat /\ n >= 1 /\ n = Len(Outgoing)
      <3>1. Len(eventChan) \in Nat /\ n = Len(eventChan) + 1 /\ Outgoing[1] = hand
        BY <2>1, OutgoingTyped DEF IInv
      <3>2. QED
        BY <3>1
    <2> HIDE DEF v, n
    <2>4. 1 \in 1..n
      BY <2>3
    <2>5. v <= version
      BY <2>3, <2>4 DEF IInv, FreshInv, v
    <2>6. \A k \in Kind : \A x \in Elems(k) : At(x, v) = {}
      <3>1. SUFFICES ASSUME NEW k \in Kind, NEW x \in Elems(k), x # NoObject, x.uid = v
                     PROVE  FALSE
        BY DEF At
      <3>2. Same(x, Outgoing[1].obj)
        BY <3>1, <2>2, <2>3, SentinelAssumption DEF Same, v
      <3>3. Outgoing[1].type # "deleted"
        BY <3>2, <2>3, <2>4 DEF IInv, SaidInv
      <3>4. QED
        BY <3>3, <2>1, <2>3
    <2>7. \A i \in 2..n : Outgoing[i].obj.uid # v
      <3>1. ASSUME NEW i \in 2..n, Outgoing[i].obj.uid = v PROVE FALSE
        <4>1. 1 < i /\ i \in 1..n
          BY <2>3
        <4>2. Outgoing[1].type # "deleted"
          BY <4>1, <3>1, <2>3, <2>4 DEF IInv, InOrder, v
        <4>3. QED
          BY <4>2, <2>1, <2>3
      <3>2. QED
        BY <3>1
    <2>8. \A i \in 1..Len(Outgoing') : \E j \in 2..n : Outgoing'[i] = Outgoing[j]
      <3>1. Outgoing' # Outgoing
        <4>1. hand' = NoEvent
          BY <2>1
        <4>2. Outgoing' = eventChan' /\ Len(eventChan) = n - 1 /\ eventChan' = eventChan
          <5>1. eventChan' = eventChan
            BY <1>4 DEF Sends, Receive, EventApplied, EventFails
          <5>2. (hand = NoEvent => Outgoing = eventChan)'
            BY OutgoingTyped, PTL
          <5>3. Len(Outgoing) = Len(eventChan) + 1 /\ Len(eventChan) \in Nat
            BY <2>1, OutgoingTyped DEF IInv
          <5>4. QED
            BY <4>1, <5>1, <5>2, <5>3, <2>3
        <4>3. QED
          BY <4>2, <2>3
      <3>2. Len(Outgoing') = n - 1 /\ \A i \in 1..(n - 1) : Outgoing'[i] = Outgoing[i + 1]
        BY <1>1, <3>1, <2>3 DEF Later
      <3>3. \A i \in 1..(n - 1) : i + 1 \in 2..n
        BY <2>3
      <3>4. QED
        BY <3>2, <3>3
    <2>9. ASSUME NEW u \in buried'
          PROVE  /\ u <= version
                 /\ \A k \in Kind : \A x \in Elems(k)' : At(x, u) = {}
                 /\ \A i \in 1..Len(Outgoing') : Outgoing'[i].obj.uid # u
      <3>1. /\ u <= version
            /\ \A k \in Kind : \A x \in Elems(k) : At(x, u) = {}
            /\ \A i \in 2..n : Outgoing[i].obj.uid # u
        <4>1. CASE u = v
          BY <4>1, <2>5, <2>6, <2>7
        <4>2. CASE u \in buried
          <5>1. \A i \in 2..n : i \in 1..n
            BY <2>3
          <5>2. QED
            BY <4>2, <5>1, <2>3 DEF BuriedInv
        <4>3. QED
          BY <4>1, <4>2, <2>1, <2>9
      <3>2. \A k \in Kind : \A x \in Elems(k)' : At(x, u) = {}
        BY <3>1, ElemKept DEF At
      <3>3. QED
        BY <3>1, <3>2, <2>8
    <2>10. QED
      BY <2>9 DEF BuriedInv, Shrinks, At
  <1>5. QED
    BY <1>3, <1>4
-----------------------------------------------------------------------------
(* Notifications and caches *)

LEMMA QuietPushed ==
    ASSUME NEW no \in Seq(Note), NEW no2 \in Seq(Note), NEW n, NEW u,
           Pushed(no2, no, n), Quiet(no, n.old, u),
           ~About(n, u) => At(n.old, u) = At(n.new, u)
    PROVE  Quiet(no2, n.new, u)
  <1> DEFINE m == Len(no)
  <1>1. /\ m \in Nat /\ m = Len(no) /\ Len(no2) = m + 1 /\ no2[m + 1] = n
        /\ \A i \in 1..m : no2[i] = no[i]
    BY DEF Pushed
  <1> HIDE DEF m
  <1>2. SUFFICES ASSUME NEW i \in 1..(m + 2),
                        \A j \in 1..(m + 1) : i <= j => ~About(no2[j], u)
                 PROVE  At(Before(no2, n.new, i), u) = At(n.new, u)
    BY <1>1 DEF Quiet
  <1>3. CASE i = m + 2
    BY <1>1, <1>3 DEF Before
  <1>4. i <= m + 1 => At(n.old, u) = At(n.new, u)
    <2>1. m + 1 \in 1..(m + 1)
      BY <1>1
    <2>2. QED
      BY <2>1, <1>1, <1>2
  <1>5. CASE i = m + 1
    <2>1. Before(no2, n.new, i) = n.old
      BY <1>1, <1>5 DEF Before
    <2>2. QED
      BY <2>1, <1>1, <1>4, <1>5
  <1>6. CASE i <= m
    <2>1. i \in 1..m /\ i \in 1..(m + 1) /\ i # m + 1 /\ i # m + 2 /\ \A j \in 1..m : j \in 1..(m + 1)
      BY <1>1, <1>6
    <2>2. \A j \in 1..m : i <= j => ~About(no[j], u)
      BY <2>1, <1>1, <1>2
    <2>3. At(Before(no, n.old, i), u) = At(n.old, u)
      BY <2>1, <2>2, <1>1 DEF Quiet
    <2>4. Before(no, n.old, i) = Before(no2, n.new, i)
      BY <2>1, <1>1 DEF Before
    <2>5. QED
      BY <2>1, <2>3, <2>4, <1>4
  <1>7. QED
    BY <1>1, <1>3, <1>5, <1>6

LEMMA QuietTail ==
    ASSUME NEW no \in Seq(Note), NEW no2 \in Seq(Note), NEW ca, NEW u,
           Later(no2, no), Quiet(no, ca, u)
    PROVE  Quiet(no2, ca, u)
  <1> DEFINE m == Len(no)
  <1>1. /\ m \in Nat /\ m = Len(no) /\ m >= 1 /\ Len(no2) = m - 1
        /\ \A i \in 1..(m - 1) : no2[i] = no[i + 1]
    BY DEF Later
  <1> HIDE DEF m
  <1>2. SUFFICES ASSUME NEW i \in 1..m,
                        \A j \in 1..(m - 1) : i <= j => ~About(no2[j], u)
                 PROVE  At(Before(no2, ca, i), u) = At(ca, u)
    BY <1>1 DEF Quiet
  <1>3. ASSUME NEW j \in 1..m, i + 1 <= j PROVE ~About(no[j], u)
    <2>1. j - 1 \in 1..(m - 1) /\ i <= j - 1 /\ (j - 1) + 1 = j
      BY <1>1, <1>3
    <2>2. no2[j - 1] = no[j]
      BY <2>1, <1>1
    <2>3. ~About(no2[j - 1], u)
      BY <2>1, <1>2
    <2>4. QED
      BY <2>2, <2>3
  <1>4. i + 1 \in 1..(m + 1)
    BY <1>1
  <1>5. At(Before(no, ca, i + 1), u) = At(ca, u)
    BY <1>1, <1>3, <1>4 DEF Quiet
  <1>6. Before(no, ca, i + 1) = Before(no2, ca, i)
    <2>1. CASE i = m
      BY <2>1, <1>1 DEF Before
    <2>2. CASE i # m
      <3>1. i \in 1..(m - 1) /\ i + 1 # m + 1 /\ i # (m - 1) + 1
        BY <2>2, <1>1
      <3>2. no2[i] = no[i + 1]
        BY <3>1, <1>1
      <3>3. QED
        BY <3>1, <3>2, <1>1 DEF Before
    <2>3. QED
      BY <2>1, <2>2
  <1>7. QED
    BY <1>5, <1>6

\* An informer queues a note of what it did to its cache.
LEMMA InformNote ==
    ASSUME IInv, VersionInv, Base', NEW k \in Kind, Inform(k)
    PROVE  /\ \A l \in Kind \ {k} : notes'[l] = notes[l] /\ cache'[l] = cache[l]
           /\ changed' = IF cache[k] # cache'[k] /\ k <= snapshot.upto
                         THEN changed \cup Uids({cache[k], cache'[k]}) ELSE changed
           /\ \/ notes' = notes /\ cache' = cache /\ cache[k] = NoObject
              \/ \E n \in Note :
                    /\ WellFormed(n) /\ n.old = cache[k] /\ n.new = cache'[k]
                    /\ Pushed(notes'[k], notes[k], n)
                    /\ \A u : ~About(n, u) => At(n.old, u) = At(n.new, u)
           /\ listed' = listed \/ (listed' = listed \cup {k} /\ cache'[k] = cluster[k])
  <1>0. Base
    BY DEF IInv
  <1>1. PICK obj \in Some, relist \in BOOLEAN :
            /\ UpdateCache(k, obj, relist)
            /\ listed' = listed \/ (listed' = listed \cup {k} /\ obj = cluster[k])
    BY <1>0, InformEffect
  <1>2. Silent(k, obj) \/ \E n \in Note : Notifies(k, obj, n)
    BY <1>0, <1>1, CacheEffect
  <1>3. \A l \in Kind \ {k} : notes'[l] = notes[l] /\ cache'[l] = cache[l]
    BY <1>0, <1>2, NotesKept
  <1>4. cache'[k] = obj
    BY <1>0, <1>1 DEF UpdateCache, Base, TypeOK
  <1>5. changed' = IF cache[k] # cache'[k] /\ k <= snapshot.upto
                   THEN changed \cup Uids({cache[k], cache'[k]}) ELSE changed
    BY <1>1, <1>4 DEF UpdateCache
  <1>6. ASSUME NEW n \in Note, Notifies(k, obj, n)
        PROVE  /\ WellFormed(n) /\ n.old = cache[k] /\ n.new = cache'[k]
               /\ Pushed(notes'[k], notes[k], n)
               /\ \A u : ~About(n, u) => At(n.old, u) = At(n.new, u)
    <2>1. WellFormed(n) /\ n.old = cache[k] /\ n.new = cache'[k]
      BY <1>4, <1>6 DEF Notifies
    <2>2. notes \in [Kind -> Seq(Note)] /\ notes[k] \in Seq(Note)
      BY <1>0 DEF Base, TypeOK
    <2>3. notes'[k] = Append(notes[k], n)
      BY <2>2, <1>6 DEF Notifies
    <2>4. Pushed(notes'[k], notes[k], n)
      BY <2>2, <2>3, AppendProperties DEF Pushed
    <2>5. n.old \in Elems(k)
      BY <1>0, <2>1, ChainHas
    <2>6. n.new \in Elems(k)
      <3>1. (cache[k] \in Elems(k))'
        BY ChainHas, PTL
      <3>2. Elems(k)' \subseteq Elems(k)
        BY <1>0, InformChain, DrawnElems DEF Elems
      <3>3. QED
        BY <2>1, <3>1, <3>2
    <2>7. \A u : ~About(n, u) => At(n.old, u) = At(n.new, u)
      BY <1>0, <2>1, <2>5, <2>6, NotAbout
    <2>8. QED
      BY <2>1, <2>4, <2>7
  <1>7. CASE Silent(k, obj)
    BY <1>1, <1>3, <1>4, <1>5, <1>7 DEF Silent
  <1>8. CASE \E n \in Note : Notifies(k, obj, n)
    BY <1>1, <1>3, <1>4, <1>5, <1>6, <1>8
  <1>9. QED
    BY <1>2, <1>7, <1>8

LEMMA QuietInform ==
    ASSUME IInv, VersionInv, QuietInv, Base', NEW k \in Kind, Inform(k)
    PROVE  QuietInv'
  <1>1. SUFFICES ASSUME NEW l \in Kind, NEW u \in UID PROVE Quiet(notes'[l], cache'[l], u)
    BY DEF QuietInv, Quiet, Before
  <1>2. Quiet(notes[l], cache[l], u) /\ \A v \in Kind : notes[v] \in Seq(Note)
    BY PathTyped DEF QuietInv, IInv
  <1>3. \A v \in Kind : notes'[v] \in Seq(Note)
    BY DEF Base, TypeOK
  <1>4. CASE notes'[l] = notes[l] /\ cache'[l] = cache[l]
    BY <1>2, <1>4
  <1>5. ASSUME l = k, NEW n \in Note, n.old = cache[k], n.new = cache'[k],
               Pushed(notes'[k], notes[k], n), \A v : ~About(n, v) => At(n.old, v) = At(n.new, v)
        PROVE  Quiet(notes'[l], cache'[l], u)
    <2>1. Quiet(notes[k], n.old, u)
      BY <1>2, <1>5
    <2>2. Quiet(notes'[k], n.new, u)
      BY <2>1, <1>2, <1>3, <1>5, QuietPushed
    <2>3. QED
      BY <2>2, <1>5
  <1>6. QED
    BY <1>4, <1>5, InformNote

LEMMA QuietHandle ==
    ASSUME IInv, QuietInv, Base', NEW k \in Kind, Handle(k)
    PROVE  QuietInv'
  <1>1. SUFFICES ASSUME NEW l \in Kind, NEW u \in UID PROVE Quiet(notes'[l], cache'[l], u)
    BY DEF QuietInv, Quiet, Before
  <1>2. Quiet(notes[l], cache[l], u)
    BY DEF QuietInv
  <1>3. /\ \A v \in Kind \ {k} : notes'[v] = notes[v]
        /\ cache' = cache /\ notes[k] \in Seq(Note) /\ notes'[k] \in Seq(Note)
        /\ Later(notes'[k], notes[k])
    BY HandleFacts DEF IInv, Later
  <1>4. CASE l # k
    BY <1>2, <1>3, <1>4
  <1>5. CASE l = k
    BY <1>2, <1>3, <1>5, QuietTail
  <1>6. QED
    BY <1>4, <1>5

LEMMA QuietRestart ==
    ASSUME Restart
    PROVE  QuietInv'
  <1>1. notes' = [k \in Kind |-> << >>] /\ Len(<< >>) = 0
    BY DEF Restart
  <1>2. SUFFICES ASSUME NEW k \in Kind, NEW u \in UID PROVE Quiet(notes'[k], cache'[k], u)
    BY DEF QuietInv, Quiet, Before
  <1>3. QED
    BY <1>1 DEF Quiet, Before
-----------------------------------------------------------------------------
(* The snapshot *)

LEMMA SnapshotKept ==
    ASSUME SnapshotInv, UNCHANGED <<cache, snapshot, changed>>
    PROVE  SnapshotInv'
  BY DEF SnapshotInv, Listable

LEMMA SnapshotReset ==
    ASSUME snapshot' = NoSnapshot
    PROVE  SnapshotInv'
  <1>1. \A l \in Kind : ~(l <= 0)
    BY SyncAssumption DEF Kind
  <1>2. QED
    BY <1>1 DEF SnapshotInv, Listable, NoSnapshot

LEMMA SnapshotInform ==
    ASSUME IInv, VersionInv, SnapshotInv, Base', NEW k \in Kind, Inform(k)
    PROVE  SnapshotInv'
  <1>1. /\ \A l \in Kind \ {k} : cache'[l] = cache[l]
        /\ changed' = IF cache[k] # cache'[k] /\ k <= snapshot.upto
                      THEN changed \cup Uids({cache[k], cache'[k]}) ELSE changed
    BY InformNote
  <1>2. snapshot' = snapshot
    BY InformEffect DEF IInv, senderVars
  <1>3. ASSUME NEW u \in UID \ changed'
        PROVE  u \notin changed /\ (k <= snapshot.upto => At(cache'[k], u) = At(cache[k], u))
    <2>1. CASE cache[k] # cache'[k] /\ k <= snapshot.upto
      <3>1. u \notin changed /\ u \notin Uids({cache[k], cache'[k]})
        BY <1>1, <2>1
      <3>2. At(cache[k], u) = {} /\ At(cache'[k], u) = {}
        BY <3>1 DEF At, Uids
      <3>3. QED
        BY <3>1, <3>2
    <2>2. CASE ~(cache[k] # cache'[k] /\ k <= snapshot.upto)
      BY <1>1, <2>2
    <2>3. QED
      BY <2>1, <2>2
  <1>4. ASSUME NEW u \in UID \ changed'
        PROVE  \A l \in {x \in Kind : x <= snapshot.upto} : At(cache'[l], u) = At(cache[l], u)
    BY <1>1, <1>3
  <1>5. ASSUME NEW u \in UID \ changed', snapshot.phase # "accepted"
        PROVE  {o \in snapshot.objects : o.uid = u}
                 = UNION {At(cache'[l], u) : l \in {x \in Kind : x <= snapshot.upto}}
    <2>1. {o \in snapshot.objects : o.uid = u} = Listable(u, snapshot.upto)
      BY <1>3, <1>5 DEF SnapshotInv
    <2>2. QED
      BY <2>1, <1>4 DEF Listable
  <1>6. QED
    BY <1>2, <1>5 DEF SnapshotInv, Listable

LEMMA SnapshotSnaps ==
    ASSUME Base, SnapshotInv, Snaps
    PROVE  SnapshotInv'
  <1>1. cache' = cache
    BY PathKept
  <1>2. CASE ListKind
    <2> DEFINE m == snapshot.upto
    <2>1. /\ snapshot' = [phase |-> "listing", upto |-> m + 1,
                          objects |-> snapshot.objects \cup ({cache[m + 1]} \ {NoObject})]
          /\ snapshot.phase # "accepted" /\ changed' = changed
      BY <1>2 DEF ListKind
    <2>2. m \in Nat /\ m + 1 \in Kind
      <3>1. m \in 0..NumKinds /\ NumKinds \in Nat \ {0}
        BY SyncAssumption DEF Base, TypeOK
      <3>2. m = 0 \/ m < NumKinds
        BY <1>2 DEF ListKind, Base, PhaseInv, NoSnapshot, LastKind
      <3> HIDE DEF m
      <3>3. QED
        BY <3>1, <3>2 DEF Kind
    <2>3. snapshot'.upto = m + 1 /\ snapshot'.phase # "accepted"
          /\ snapshot'.objects = snapshot.objects \cup ({cache[m + 1]} \ {NoObject})
      BY <2>1
    <2> HIDE DEF m
    <2>4. {l \in Kind : l <= m + 1} = {l \in Kind : l <= m} \cup {m + 1}
      <3>1. ASSUME NEW l \in Kind PROVE l <= m + 1 <=> l <= m \/ l = m + 1
        <4>1. l \in Int
          BY DEF Kind
        <4>2. QED
          BY <4>1, <2>2
      <3>2. QED
        BY <2>2, <3>1
    <2>5. ASSUME NEW u \in UID \ changed
          PROVE  {o \in snapshot'.objects : o.uid = u}
                   = UNION {At(cache[l], u) : l \in {x \in Kind : x <= m + 1}}
      <3>1. {o \in snapshot.objects : o.uid = u}
              = UNION {At(cache[l], u) : l \in {x \in Kind : x <= m}}
        BY <2>1 DEF SnapshotInv, Listable, m
      <3>2. {o \in {cache[m + 1]} \ {NoObject} : o.uid = u} = At(cache[m + 1], u)
        BY DEF At
      <3>3. UNION {At(cache[l], u) : l \in {x \in Kind : x <= m + 1}}
              = (UNION {At(cache[l], u) : l \in {x \in Kind : x <= m}}) \cup At(cache[m + 1], u)
        BY <2>4
      <3>4. {o \in snapshot'.objects : o.uid = u}
              = {o \in snapshot.objects : o.uid = u}
                \cup {o \in {cache[m + 1]} \ {NoObject} : o.uid = u}
        BY <2>3
      <3>5. QED
        BY <3>1, <3>2, <3>3, <3>4
    <2>6. QED
      BY <1>1, <2>1, <2>3, <2>5 DEF SnapshotInv, Listable
  <1>3. CASE BuildPayload
    <2>1. /\ snapshot' = [snapshot EXCEPT !.phase = "sending"]
          /\ snapshot.phase = "listing" /\ changed' = changed
      BY <1>3 DEF BuildPayload
    <2>2. snapshot'.upto = snapshot.upto /\ snapshot'.objects = snapshot.objects
      BY <2>1 DEF Base, TypeOK
    <2>3. QED
      BY <1>1, <2>1, <2>2 DEF SnapshotInv, Listable
  <1>4. CASE SnapshotApplied
    <2>1. changed' = changed /\ (snapshot' = snapshot \/ snapshot'.phase = "accepted")
      BY <1>4 DEF SnapshotApplied, Base, TypeOK
    <2>2. QED
      BY <1>1, <2>1 DEF SnapshotInv, Listable
  <1>5. CASE SnapshotAbandoned \/ SnapshotRecorded
    BY <1>5, SnapshotReset DEF SnapshotAbandoned, SnapshotRecorded
  <1>6. QED
    BY <1>2, <1>3, <1>4, <1>5 DEF Snaps
-----------------------------------------------------------------------------
(* The last word *)

LEMMA LastWordKept ==
    ASSUME LastWordInv, Outgoing' = Outgoing, \A k \in Kind : Seen(k)' = Seen(k),
           \A u \in UID \ missed' : Outstanding(u) => u \notin missed
    PROVE  LastWordInv'
  <1>1. \A u : SeenOn(u)' = SeenOn(u)
    BY DEF SeenOn
  <1>2. SUFFICES ASSUME NEW u \in UID \ missed', NEW i \in 1..Len(Outgoing),
                        Outgoing[i].obj.uid = u,
                        \A j \in 1..Len(Outgoing) : i < j => Outgoing[j].obj.uid # u
                 PROVE  Said(Outgoing[i]) = SeenOn(u)
    BY <1>1 DEF LastWordInv, Said
  <1>3. u \notin missed
    BY <1>2 DEF Outstanding
  <1>4. QED
    BY <1>2, <1>3 DEF LastWordInv

LEMMA LastWordSent ==
    ASSUME Base, LastWordInv, Later(Outgoing', Outgoing), \A k \in Kind : Seen(k)' = Seen(k),
           missed \subseteq missed'
    PROVE  LastWordInv'
  <1> DEFINE n == Len(Outgoing)
  <1>1. /\ n \in Nat /\ n = Len(Outgoing) /\ Len(Outgoing') = n - 1
        /\ \A i \in 1..(n - 1) : Outgoing'[i] = Outgoing[i + 1]
    BY OutgoingTyped DEF Later
  <1> HIDE DEF n
  <1>2. \A u : SeenOn(u)' = SeenOn(u)
    BY DEF SeenOn
  <1>3. SUFFICES ASSUME NEW u \in UID \ missed, NEW i \in 1..(n - 1),
                        Outgoing'[i].obj.uid = u,
                        \A j \in 1..(n - 1) : i < j => Outgoing'[j].obj.uid # u
                 PROVE  Said(Outgoing'[i]) = SeenOn(u)
    BY <1>1, <1>2 DEF LastWordInv, Said
  <1>4. i + 1 \in 1..n /\ Outgoing[i + 1].obj.uid = u
    BY <1>1, <1>3
  <1>5. ASSUME NEW j \in 1..n, i + 1 < j PROVE Outgoing[j].obj.uid # u
    <2>1. j - 1 \in 1..(n - 1) /\ i < j - 1 /\ (j - 1) + 1 = j
      BY <1>1, <1>5
    <2>2. Outgoing'[j - 1] = Outgoing[j] /\ Outgoing'[j - 1].obj.uid # u
      BY <1>1, <1>3, <2>1
    <2>3. QED
      BY <2>2
  <1>6. Said(Outgoing[i + 1]) = SeenOn(u)
    BY <1>1, <1>4, <1>5 DEF LastWordInv
  <1>7. QED
    BY <1>1, <1>6

\* The event of a notification says all of what the handlers saw with it, but for an
\* object that another one has replaced, which is missed.
LEMMA HandledAbout ==
    ASSUME IInv, VersionInv, NEW k \in Kind, Handle(k), NEW u \in UID \ missed'
    PROVE  \/ About(notes[k][1], u) /\ \E e \in EventsOf(notes[k][1]) :
                Pushed(Outgoing', Outgoing, e) /\ e.obj.uid = u /\ Said(e) = SeenOn(u)'
           \/ /\ ~About(notes[k][1], u) /\ u \notin missed /\ SeenOn(u)' = SeenOn(u)
              /\ \/ Outgoing' = Outgoing
                 \/ \E e \in EventsOf(notes[k][1]) :
                        Pushed(Outgoing', Outgoing, e) /\ e.obj.uid # u
  <1> DEFINE n == notes[k][1]
  <1>1. /\ n \in Note /\ WellFormed(n) /\ hand' = hand /\ Len(notes[k]) >= 1
        /\ Len(notes[k]) \in Nat
        /\ \/ EventsOf(n) = {} /\ UNCHANGED <<eventChan, missed>>
           \/ \E e \in EventsOf(n) :
                \/ /\ eventChan' = Append(eventChan, e)
                   /\ missed' = (missed \ {e.obj.uid}) \cup Replaced(n)
                \/ /\ missed' = missed \cup {e.obj.uid} \cup Replaced(n)
                   /\ UNCHANGED eventChan
    BY HandleFacts DEF IInv
  <1>2. /\ Seen(k) = n.old /\ Seen(k)' = n.new
        /\ \A l \in Kind \ {k} : Seen(l)' = Seen(l)
    BY HandleChain DEF IInv
  <1>3. n.old \in Elems(k) /\ n.new \in Elems(k)
    <2>1. 1 \in 1..Len(notes[k])
      BY <1>1
    <2>2. QED
      BY <2>1, ChainHas DEF IInv
  <1>e. \A e \in EventsOf(n) :
            /\ e \in Event /\ e.obj \in Elems(k) /\ e.obj # NoObject
            /\ e.type = "deleted" => e.obj = Seen(k) /\ Seen(k)' = NoObject
            /\ e.type # "deleted" => e.obj = Seen(k)'
    BY EventPlace
  <1> HIDE DEF n
  <1>4. ASSUME NEW e \in EventsOf(n), eventChan' = Append(eventChan, e)
        PROVE  Pushed(Outgoing', Outgoing, e)
    <2>1. /\ Outgoing \in Seq(Event) /\ eventChan \in Seq(Event)
          /\ hand \in Event \cup {NoEvent} /\ e \in Event
      BY OutgoingTyped, <1>e DEF IInv, Base, TypeOK
    <2>2. Outgoing' = Append(Outgoing, e)
      BY <1>1, <1>4, <2>1 DEF Outgoing
    <2>3. QED
      BY <2>1, <2>2, AppendProperties DEF Pushed
  <1>5. CASE ~About(n, u)
    <2>1. At(n.old, u) = At(n.new, u)
      BY <1>1, <1>3, <1>5, NotAbout DEF IInv
    <2>2. \A l \in Kind : At(Seen(l)', u) = At(Seen(l), u)
      BY <1>2, <2>1
    <2>3. SeenOn(u)' = SeenOn(u)
      BY <2>2 DEF SeenOn, At
    <2>4. \A e \in EventsOf(n) : e.obj.uid # u
      <3>1. ASSUME NEW e \in EventsOf(n) PROVE e.obj.uid # u
        <4>1. e.obj \in {n.old, n.new} \ {NoObject}
          BY <1>2, <1>e
        <4>2. e.obj.uid \in Uids({n.old, n.new})
          BY <4>1 DEF Uids
        <4>3. QED
          BY <4>2, <1>5 DEF About
      <3>2. QED
        BY <3>1
    <2>5. u \notin missed
      BY <1>1, <2>4
    <2>6. Outgoing' = Outgoing \/ \E e \in EventsOf(n) : Pushed(Outgoing', Outgoing, e)
      BY HandleOutgoing DEF IInv, n
    <2>7. QED
      BY <1>5, <2>3, <2>4, <2>5, <2>6 DEF n
  <1>6. CASE About(n, u)
    <2>1. EventsOf(n) # {} /\ u \in Uids({n.old, n.new})
      BY <1>6 DEF About
    <2>2. PICK e \in EventsOf(n) :
                \/ /\ eventChan' = Append(eventChan, e)
                   /\ missed' = (missed \ {e.obj.uid}) \cup Replaced(n)
                \/ /\ missed' = missed \cup {e.obj.uid} \cup Replaced(n)
                   /\ UNCHANGED eventChan
      BY <1>1, <2>1
    <2>3. u \notin Replaced(n)
      BY <2>2
    <2>4. e.obj.uid = u
      <3>1. \/ e.type = "added" /\ n.type = "added" /\ e.obj = n.new
            \/ e.type = "modified" /\ n.type = "modified" /\ e.obj = n.new
            \/ e.type = "deleted" /\ n.type = "deleted" /\ e.obj = n.old
        BY <1>1, EventTyped
      <3>2. CASE n.type = "modified"
        <4>1. u \in Uids({n.new})
          BY <3>2, <2>1, <2>3 DEF Replaced, Uids
        <4>2. QED
          BY <4>1, <3>1, <3>2 DEF Uids
      <3>3. CASE n.type # "modified"
        BY <3>1, <3>3, <2>1, <1>1 DEF WellFormed, Uids
      <3>4. QED
        BY <3>2, <3>3
    <2>5. eventChan' = Append(eventChan, e)
      BY <2>2, <2>4
    <2>6. Pushed(Outgoing', Outgoing, e)
      BY <1>4, <2>5
    <2>7. Said(e) = SeenOn(u)'
      <3>1. e.obj \in Elems(k) /\ e.obj # NoObject
        BY <1>e
      <3>2. SeenOn(u) = At(Seen(k), u)
        BY <3>1, <2>4, OnlyKind
      <3>3. \A l \in Kind \ {k} : At(Seen(l), u) = {}
        <4>1. ASSUME NEW l \in Kind \ {k}, At(Seen(l), u) # {} PROVE FALSE
          <5>1. Seen(l) \in Elems(l) /\ Same(Seen(l), e.obj)
            BY <4>1, <3>1, <2>4, ChainHas DEF At, Same, IInv
          <5>2. QED
            BY <5>1, <3>1 DEF IInv, ChainInv, KindInv
        <4>2. QED
          BY <4>1
      <3>4. \A l \in Kind \ {k} : At(Seen(l)', u) = {}
        BY <1>2, <3>3
      <3>5. SeenOn(u)' = At(Seen(k)', u)
        BY <3>4 DEF SeenOn, At
      <3>6. CASE e.type = "deleted"
        BY <3>5, <3>6, <1>e DEF Said, At
      <3>7. CASE e.type # "deleted"
        BY <3>1, <3>5, <3>7, <2>4, <1>e DEF Said, At
      <3>8. QED
        BY <3>6, <3>7
    <2>8. QED
      BY <1>6, <2>4, <2>6, <2>7 DEF n
  <1>7. QED
    BY <1>5, <1>6

LEMMA LastWordHandled ==
    ASSUME IInv, VersionInv, LastWordInv, NEW k \in Kind, Handle(k)
    PROVE  LastWordInv'
  <1> DEFINE n == Len(Outgoing)
  <1>1. n \in Nat /\ n = Len(Outgoing)
    BY OutgoingTyped DEF IInv
  <1> HIDE DEF n
  <1>2. SUFFICES ASSUME NEW u \in UID \ missed', NEW i \in 1..Len(Outgoing'),
                        Outgoing'[i].obj.uid = u,
                        \A j \in 1..Len(Outgoing') : i < j => Outgoing'[j].obj.uid # u
                 PROVE  Said(Outgoing'[i]) = SeenOn(u)'
    BY DEF LastWordInv, Said
  <1>3. ASSUME NEW e \in EventsOf(notes[k][1]), Pushed(Outgoing', Outgoing, e)
        PROVE  /\ Len(Outgoing') = n + 1 /\ Outgoing'[n + 1] = e
               /\ i \in 1..n \/ i = n + 1
               /\ \A j \in 1..n : Outgoing'[j] = Outgoing[j]
    BY <1>1, <1>3 DEF Pushed
  <1>4. ASSUME NEW e \in EventsOf(notes[k][1]), Pushed(Outgoing', Outgoing, e),
               e.obj.uid = u, Said(e) = SeenOn(u)'
        PROVE  Said(Outgoing'[i]) = SeenOn(u)'
    <2>1. i = n + 1
      <3>1. n + 1 \in 1..Len(Outgoing') /\ Outgoing'[n + 1].obj.uid = u
        BY <1>1, <1>3, <1>4
      <3>2. ~(i < n + 1)
        BY <3>1, <1>2
      <3>3. QED
        BY <3>2, <1>1, <1>3, <1>4
    <2>2. QED
      BY <2>1, <1>3, <1>4
  <1>5. ASSUME u \notin missed, SeenOn(u)' = SeenOn(u), Outgoing' = Outgoing
        PROVE  Said(Outgoing'[i]) = SeenOn(u)'
    BY <1>2, <1>5 DEF LastWordInv
  <1>6. ASSUME u \notin missed, SeenOn(u)' = SeenOn(u),
               NEW e \in EventsOf(notes[k][1]), Pushed(Outgoing', Outgoing, e), e.obj.uid # u
        PROVE  Said(Outgoing'[i]) = SeenOn(u)'
    <2>1. i \in 1..n /\ Outgoing'[i] = Outgoing[i]
      BY <1>2, <1>3, <1>6
    <2>2. ASSUME NEW j \in 1..n, i < j PROVE Outgoing[j].obj.uid # u
      <3>1. j \in 1..Len(Outgoing') /\ Outgoing'[j] = Outgoing[j]
        BY <1>1, <1>3, <1>6
      <3>2. QED
        BY <3>1, <2>2, <1>2
    <2>3. Said(Outgoing[i]) = SeenOn(u)
      BY <2>1, <2>2, <1>1, <1>2, <1>6 DEF LastWordInv
    <2>4. QED
      BY <2>1, <2>3, <1>6
  <1>7. QED
    BY <1>4, <1>5, <1>6, HandledAbout
-----------------------------------------------------------------------------
(* What the platform knows *)

LEMMA NotedIs ==
    ASSUME NEW u
    PROVE  Noted(u) <=> \E k \in Kind : \E i \in 1..Len(notes[k]) : About(notes[k][i], u)
  BY DEF Noted, About, ElementsOf

\* While the platform, the caches and the notifications stay as they are.
LEMMA KnownKept ==
    ASSUME KnownInv, UNCHANGED <<view, cache, notes, listed, cluster>>,
           \A u \in UID \ missed' : Outstanding(u)' \/ (u \notin missed /\ ~Outstanding(u))
    PROVE  KnownInv'
  <1>1. \A u : (Known(u)' = Known(u)) /\ (CachedOn(u)' = CachedOn(u))
               /\ (Unheard(u)' <=> Unheard(u)) /\ (Noted(u)' <=> Noted(u))
    BY DEF Known, CachedOn, Unheard, At, Noted, Uids, ElementsOf, EventsOf, SameVersion
  <1>2. QED
    BY <1>1 DEF KnownInv

LEMMA KnownChange ==
    ASSUME Base, KnownInv, NEW k \in Kind, NEW obj \in Some, Change(k, obj)
    PROVE  KnownInv'
  <1>1. /\ cluster' = [cluster EXCEPT ![k] = obj]
        /\ missed' = IF k \in listed THEN missed
                     ELSE missed \cup (Uids({cluster[k]}) \ Uids({obj}))
        /\ UNCHANGED <<listed, cache, notes, eventChan, hand, view>>
    BY DEF Change
  <1>2. \A u : (Known(u)' = Known(u)) /\ (CachedOn(u)' = CachedOn(u))
               /\ (Outstanding(u)' <=> Outstanding(u)) /\ (Noted(u)' <=> Noted(u))
    BY <1>1 DEF Known, CachedOn, Outstanding, Outgoing, Noted, Uids, ElementsOf, EventsOf,
               SameVersion
  <1>3. ASSUME NEW u \in UID \ missed', Unheard(u) PROVE Unheard(u)'
    <2>1. PICK l \in Kind \ listed : At(cluster[l], u) # {}
      BY <1>3 DEF Unheard
    <2>2. CASE l # k
      <3>1. cluster'[l] = cluster[l]
        BY <1>1, <2>2 DEF Base, TypeOK
      <3>2. QED
        BY <1>1, <2>1, <3>1 DEF Unheard, At
    <2>3. CASE l = k
      <3>1. cluster'[k] = obj
        BY <1>1 DEF Base, TypeOK
      <3>2. u \in Uids({cluster[k]})
        BY <2>1, <2>3 DEF At, Uids
      <3>3. u \in Uids({obj})
        BY <1>1, <2>1, <2>3, <3>2
      <3>4. At(obj, u) # {}
        BY <3>3 DEF Uids, At
      <3>5. QED
        BY <1>1, <2>1, <2>3, <3>1, <3>4 DEF Unheard, At
    <2>4. QED
      BY <2>2, <2>3
  <1>4. QED
    BY <1>1, <1>2, <1>3 DEF KnownInv

LEMMA KnownInform ==
    ASSUME IInv, VersionInv, KnownInv, Base', NEW k \in Kind, Inform(k)
    PROVE  KnownInv'
  <1>1. UNCHANGED <<cluster, view, missed, eventChan, hand>>
    BY InformEffect DEF IInv, clusterVars
  <1>2. /\ \A l \in Kind \ {k} : notes'[l] = notes[l] /\ cache'[l] = cache[l]
        /\ \/ notes' = notes /\ cache' = cache /\ cache[k] = NoObject
           \/ \E n \in Note :
                 /\ WellFormed(n) /\ n.old = cache[k] /\ n.new = cache'[k]
                 /\ Pushed(notes'[k], notes[k], n)
                 /\ \A u : ~About(n, u) => At(n.old, u) = At(n.new, u)
        /\ listed' = listed \/ (listed' = listed \cup {k} /\ cache'[k] = cluster[k])
    BY InformNote
  <1>3. SUFFICES ASSUME NEW u \in UID \ missed, ~Outstanding(u), ~Noted(u)'
                 PROVE  Known(u) = CachedOn(u)' \/ Unheard(u)'
    BY <1>1 DEF KnownInv, Known, Outstanding, Outgoing
  <1>4. \A l \in Kind : \A i \in 1..Len(notes'[l]) : ~About(notes'[l][i], u)
    BY <1>3, NotedIs DEF Noted, About, Uids, ElementsOf, EventsOf, SameVersion
  <1>5. ASSUME NEW n \in Note, Pushed(notes'[k], notes[k], n)
        PROVE  ~About(n, u) /\ \A i \in 1..Len(notes[k]) : ~About(notes[k][i], u)
    <2> DEFINE m == Len(notes[k])
    <2>1. notes[k] \in Seq(Note)
      BY PathTyped DEF IInv
    <2>2. /\ m \in Nat /\ m = Len(notes[k]) /\ Len(notes'[k]) = m + 1 /\ notes'[k][m + 1] = n
          /\ \A i \in 1..m : notes'[k][i] = notes[k][i]
      BY <1>5, <2>1 DEF Pushed
    <2> HIDE DEF m
    <2>3. m + 1 \in 1..(m + 1) /\ \A i \in 1..m : i \in 1..(m + 1)
      BY <2>2
    <2>4. QED
      BY <1>4, <2>2, <2>3
  <1>6. ~Noted(u)
    <2>1. \A i \in 1..Len(notes[k]) : ~About(notes[k][i], u)
      BY <1>2, <1>4, <1>5
    <2>2. \A l \in Kind : \A i \in 1..Len(notes[l]) : ~About(notes[l][i], u)
      BY <1>2, <1>4, <2>1
    <2>3. QED
      BY <2>2, NotedIs
  <1>7. At(cache'[k], u) = At(cache[k], u)
    BY <1>2, <1>5
  <1>8. CachedOn(u)' = CachedOn(u)
    <2>1. \A l \in Kind : At(cache'[l], u) = At(cache[l], u)
      BY <1>2, <1>7
    <2>2. QED
      BY <2>1 DEF CachedOn, At
  <1>9. Known(u) = CachedOn(u) \/ Unheard(u)
    BY <1>3, <1>6 DEF KnownInv
  <1>10. ASSUME Unheard(u) PROVE Unheard(u)'
    <2>1. PICK l \in Kind \ listed : At(cluster[l], u) # {}
      BY <1>10 DEF Unheard
    <2>2. CASE l \notin listed'
      BY <1>1, <2>1, <2>2 DEF Unheard, At
    <2>3. CASE l \in listed'
      <3>1. l = k /\ cache'[k] = cluster[k]
        BY <1>2, <2>1, <2>3
      <3>2. cache[k] = NoObject
        BY <2>1, <3>1 DEF IInv, Base, UnlistedInv
      <3>3. At(cache'[k], u) # {} /\ At(cache[k], u) = {}
        BY <2>1, <3>1, <3>2 DEF At
      <3>4. QED
        BY <1>7, <3>3
    <2>4. QED
      BY <2>2, <2>3
  <1>11. QED
    BY <1>8, <1>9, <1>10

LEMMA KnownHandle ==
    ASSUME IInv, VersionInv, KnownInv, Base', NEW k \in Kind, Handle(k)
    PROVE  KnownInv'
  <1>1. /\ UNCHANGED <<cluster, view, cache, listed>>
        /\ \A l \in Kind \ {k} : notes'[l] = notes[l]
        /\ notes[k] \in Seq(Note) /\ Later(notes'[k], notes[k])
    BY HandleFacts DEF IInv, Later
  <1>2. SUFFICES ASSUME NEW u \in UID \ missed', ~Outstanding(u)', ~Noted(u)'
                 PROVE  Known(u) = CachedOn(u) \/ Unheard(u)
    BY <1>1 DEF KnownInv, Known, CachedOn, Unheard, At
  <1>o. \A i \in 1..Len(Outgoing') : Outgoing'[i].obj.uid # u
    BY <1>2 DEF Outstanding
  <1>n. Len(Outgoing) \in Nat
    BY OutgoingTyped DEF IInv
  <1>3. ~About(notes[k][1], u) /\ u \notin missed
    <2>1. ASSUME NEW e \in EventsOf(notes[k][1]), Pushed(Outgoing', Outgoing, e), e.obj.uid = u
          PROVE  FALSE
      <3>1. Len(Outgoing) + 1 \in 1..Len(Outgoing') /\ Outgoing'[Len(Outgoing) + 1] = e
        BY <1>n, <2>1 DEF Pushed
      <3>2. QED
        BY <1>o, <2>1, <3>1
    <2>2. QED
      BY <2>1, HandledAbout
  <1>4. ~Outstanding(u)
    <2>1. \A i \in 1..Len(Outgoing) : i \in 1..Len(Outgoing') /\ Outgoing'[i] = Outgoing[i]
      <3>1. CASE Outgoing' = Outgoing
        BY <3>1
      <3>2. ASSUME NEW e, Pushed(Outgoing', Outgoing, e)
            PROVE  \A i \in 1..Len(Outgoing) : i \in 1..Len(Outgoing') /\ Outgoing'[i] = Outgoing[i]
        BY <1>n, <3>2 DEF Pushed
      <3>3. QED
        BY <3>1, <3>2, HandleOutgoing DEF IInv
    <2>2. QED
      BY <2>1, <1>o DEF Outstanding
  <1>5. ~Noted(u)
    <2>1. \A l \in Kind : \A i \in 1..Len(notes'[l]) : ~About(notes'[l][i], u)
      BY <1>2, NotedIs DEF Noted, About, Uids, ElementsOf, EventsOf, SameVersion
    <2>2. ASSUME NEW i \in 1..Len(notes[k]) PROVE ~About(notes[k][i], u)
      <3> DEFINE m == Len(notes[k])
      <3>1. /\ m \in Nat /\ m = Len(notes[k]) /\ Len(notes'[k]) = m - 1
            /\ \A j \in 1..(m - 1) : notes'[k][j] = notes[k][j + 1]
        BY <1>1 DEF Later
      <3> HIDE DEF m
      <3>2. CASE i = 1
        BY <1>3, <3>2
      <3>3. CASE i # 1
        <4>1. i - 1 \in 1..(m - 1) /\ (i - 1) + 1 = i
          BY <3>1, <3>3
        <4>2. notes'[k][i - 1] = notes[k][i]
          BY <3>1, <4>1
        <4>3. ~About(notes'[k][i - 1], u)
          BY <2>1, <3>1, <4>1
        <4>4. QED
          BY <4>2, <4>3
      <3>4. QED
        BY <3>2, <3>3
    <2>3. \A l \in Kind : \A i \in 1..Len(notes[l]) : ~About(notes[l][i], u)
      BY <1>1, <2>1, <2>2
    <2>4. QED
      BY <2>3, NotedIs
  <1>6. QED
    BY <1>2, <1>3, <1>4, <1>5 DEF KnownInv

LEMMA SendsKeep ==
    ASSUME Sends
    PROVE  /\ UNCHANGED <<cluster, cache, notes, listed, snapshot, changed>>
           /\ missed \subseteq missed' /\ \A k \in Kind : Seen(k)' = Seen(k)
  BY DEF Sends, Receive, EventApplied, EventFails, clusterVars, informerVars, senderVars, Seen

\* What the platform knows of an object is what the event in hand says, or what it was.
LEMMA AppliedIs ==
    ASSUME Base, EventApplied, NEW u
    PROVE  Known(u)' = IF u = hand.obj.uid THEN Said(hand) ELSE Known(u)
  <1>1. view' = Applied(hand)
    BY DEF EventApplied
  <1>2. CASE hand.type = "deleted"
    BY <1>1, <1>2 DEF Applied, Known, Said
  <1>3. CASE hand.type # "deleted"
    BY <1>1, <1>3 DEF Applied, Known, Said
  <1>4. QED
    BY <1>2, <1>3

LEMMA KnownSends ==
    ASSUME IInv, QuietInv, LastWordInv, KnownInv, Base', Sends
    PROVE  LastWordInv' /\ KnownInv'
  <1>1. /\ UNCHANGED <<cluster, cache, notes, listed>>
        /\ missed \subseteq missed' /\ \A k \in Kind : Seen(k)' = Seen(k)
    BY SendsKeep
  <1>2. Outgoing' = Outgoing \/ (hand # NoEvent /\ hand' = NoEvent /\ Later(Outgoing', Outgoing))
    BY SendsOutgoing DEF IInv
  <1>3. LastWordInv'
    BY <1>1, <1>2, LastWordKept, LastWordSent DEF IInv
  <1>a. \A u : /\ CachedOn(u)' = CachedOn(u)
               /\ Unheard(u)' <=> Unheard(u)
               /\ Noted(u)' <=> Noted(u)
    BY <1>1 DEF CachedOn, Unheard, At, Noted, Uids, ElementsOf, EventsOf, SameVersion
  <1>4. SUFFICES ASSUME NEW u \in UID \ missed', ~Outstanding(u)', ~Noted(u)
                 PROVE  Known(u)' = CachedOn(u) \/ Unheard(u)
    BY <1>3, <1>a DEF KnownInv
  <1>5. u \in UID \ missed
    BY <1>1
  <1>6. CASE ~Outstanding(u)
    <2>1. Known(u) = CachedOn(u) \/ Unheard(u)
      BY <1>4, <1>5, <1>6 DEF KnownInv
    <2>2. Known(u)' = Known(u)
      <3>1. CASE EventApplied
        <4>1. ~InHand(u)
          BY <1>6, PendingIs DEF IInv
        <4>2. u # hand.obj.uid
          BY <3>1, <4>1 DEF InHand, EventApplied
        <4>3. QED
          BY <3>1, <4>2, AppliedIs DEF IInv
      <3>2. CASE Receive \/ EventFails
        BY <3>2 DEF Receive, EventFails, Known
      <3>3. QED
        BY <3>1, <3>2 DEF Sends
    <2>3. QED
      BY <2>1, <2>2
  <1>7. CASE Outstanding(u)
    <2> DEFINE n == Len(Outgoing)
    <2>1. hand # NoEvent /\ hand' = NoEvent /\ Later(Outgoing', Outgoing)
      BY <1>2, <1>4, <1>7 DEF Outstanding
    <2>2. /\ n \in Nat /\ n >= 1 /\ n = Len(Outgoing) /\ Outgoing[1] = hand
          /\ Len(Outgoing') = n - 1 /\ \A i \in 1..(n - 1) : Outgoing'[i] = Outgoing[i + 1]
      BY <2>1, OutgoingTyped DEF IInv, Later
    <2> HIDE DEF n
    <2>3. ASSUME NEW j \in 1..n, 1 < j PROVE Outgoing[j].obj.uid # u
      <3>1. j - 1 \in 1..(n - 1) /\ (j - 1) + 1 = j
        BY <2>2, <2>3
      <3>2. Outgoing'[j - 1] = Outgoing[j] /\ Outgoing'[j - 1].obj.uid # u
        BY <3>1, <2>2, <1>4 DEF Outstanding
      <3>3. QED
        BY <3>2
    <2>4. 1 \in 1..n /\ \A j \in 1..n : j = 1 \/ 1 < j
      BY <2>2
    <2>5. hand.obj.uid = u
      BY <1>7, <2>2, <2>3, <2>4 DEF Outstanding
    <2>6. Said(hand) = SeenOn(u)
      BY <1>5, <2>2, <2>3, <2>4, <2>5 DEF LastWordInv
    <2>7. SeenOn(u) = CachedOn(u)
      BY <1>4, AllSeen
    <2>8. EventApplied
      <3>1. CASE EventFails
        <4>1. Queued(u)
          BY <3>1, <1>4, <2>5 DEF EventFails
        <4>2. (Queued(u) \/ InHand(u) <=> Outstanding(u))'
          BY PendingIs, PTL
        <4>3. Queued(u)'
          BY <3>1, <4>1 DEF EventFails, Queued
        <4>4. QED
          BY <4>2, <4>3, <1>4
      <3>2. CASE Receive
        BY <3>2, <2>1 DEF Receive
      <3>3. QED
        BY <3>1, <3>2 DEF Sends
    <2>9. Known(u)' = Said(hand)
      BY <2>5, <2>8, AppliedIs DEF IInv
    <2>10. QED
      BY <2>6, <2>7, <2>9
  <1>8. QED
    BY <1>6, <1>7

LEMMA KnownSnaps ==
    ASSUME IInv, SnapshotInv, LastWordInv, KnownInv, Base', Snaps
    PROVE  LastWordInv' /\ KnownInv'
  <1>1. UNCHANGED <<cluster, cache, notes, listed, eventChan, hand>>
    BY PathKept DEF Snaps, ListKind, BuildPayload, SnapshotApplied, SnapshotAbandoned,
                    SnapshotRecorded
  <1>2. Outgoing' = Outgoing /\ \A k \in Kind : Seen(k)' = Seen(k)
    BY <1>1 DEF Outgoing, Seen
  <1>3. CASE ~SnapshotApplied
    <2>1. view' = view /\ missed' = missed
      BY <1>3 DEF Snaps, ListKind, BuildPayload, SnapshotAbandoned, SnapshotRecorded
    <2>2. \A u : Outstanding(u)' <=> Outstanding(u)
      BY <1>2 DEF Outstanding
    <2>3. LastWordInv'
      BY <1>2, <2>1, LastWordKept
    <2>4. KnownInv'
      BY <1>1, <2>1, <2>2, KnownKept
    <2>5. QED
      BY <2>3, <2>4
  <1>4. CASE SnapshotApplied
    <2>1. /\ view' = snapshot.objects /\ snapshot.phase = "sending"
          /\ missed' = {u \in UID : u \in IF Pending(u) THEN missed ELSE changed}
      BY <1>4 DEF SnapshotApplied
    <2>2. ASSUME NEW u \in UID \ missed', Outstanding(u) PROVE u \notin missed
      <3>1. Pending(u)
        BY <2>2, PendingIs DEF Pending, IInv
      <3>2. QED
        BY <2>1, <3>1
    <2>3. LastWordInv'
      BY <1>2, <2>2, LastWordKept
    <2>4. ASSUME NEW u \in UID \ missed', ~Outstanding(u), ~Noted(u)
          PROVE  Known(u)' = CachedOn(u)
      <3>1. ~Pending(u)
        BY <2>4, PendingIs DEF Pending, IInv
      <3>2. u \in UID \ changed
        BY <2>1, <3>1
      <3>3. {o \in snapshot.objects : o.uid = u} = Listable(u, snapshot.upto)
        BY <2>1, <3>2 DEF SnapshotInv
      <3>4. snapshot.upto = NumKinds
        BY <2>1 DEF IInv, Base, PhaseInv
      <3>5. {l \in Kind : l <= NumKinds} = Kind
        BY SyncAssumption DEF Kind
      <3>6. QED
        BY <2>1, <3>3, <3>4, <3>5 DEF Listable, CachedOn, Known
    <2>5. \A u : (CachedOn(u)' = CachedOn(u)) /\ (Outstanding(u)' <=> Outstanding(u))
                 /\ (Noted(u)' <=> Noted(u))
      BY <1>1, <1>2 DEF CachedOn, At, Outstanding, Noted, Uids, ElementsOf, EventsOf, SameVersion
    <2>6. KnownInv'
      BY <2>4, <2>5 DEF KnownInv
    <2>7. QED
      BY <2>3, <2>6
  <1>5. QED
    BY <1>3, <1>4

LEMMA KnownRestart ==
    ASSUME IInv, KnownInv, Restart
    PROVE  LastWordInv' /\ KnownInv'
  <1>1. /\ UNCHANGED <<cluster, view>> /\ listed' = {}
        /\ eventChan' = << >> /\ hand' = NoEvent /\ cache' = [k \in Kind |-> NoObject]
        /\ missed' = {u \in UID : \/ u \in missed \/ Pending(u)
                                 \/ \E k \in Kind : u \in Uids({cache[k]}) \ Uids({cluster[k]})}
    BY DEF Restart, clusterVars
  <1>2. Outgoing' = << >> /\ Len(<< >>) = 0
    BY <1>1 DEF Outgoing
  <1>3. LastWordInv'
    BY <1>2 DEF LastWordInv
  <1>4. ASSUME NEW u \in UID \ missed'
        PROVE  (Known(u)' = CachedOn(u)') \/ Unheard(u)'
    <2>1. u \notin missed /\ ~Pending(u)
          /\ \A k \in Kind : u \in Uids({cache[k]}) => u \in Uids({cluster[k]})
      BY <1>1
    <2>2. ~Outstanding(u) /\ ~Noted(u)
      BY <2>1, PendingIs DEF Pending, IInv
    <2>3. Known(u) = CachedOn(u) \/ Unheard(u)
      BY <2>1, <2>2 DEF KnownInv
    <2>4. CachedOn(u)' = {}
      BY <1>1 DEF CachedOn, At
    <2>5. CASE \E k \in Kind : At(cluster[k], u) # {}
      BY <1>1, <2>5 DEF Unheard, At
    <2>6. CASE \A k \in Kind : At(cluster[k], u) = {}
      <3>1. \A k \in Kind : At(cache[k], u) = {}
        BY <2>1, <2>6 DEF At, Uids
      <3>2. CachedOn(u) = {} /\ ~Unheard(u)
        BY <2>6, <3>1 DEF CachedOn, Unheard
      <3>3. Known(u)' = {}
        BY <1>1, <2>3, <3>2 DEF Known
      <3>4. QED
        BY <2>4, <3>3
    <2>7. QED
      BY <2>5, <2>6
  <1>5. KnownInv'
    BY <1>4 DEF KnownInv
  <1>6. QED
    BY <1>3, <1>5
-----------------------------------------------------------------------------
(* The theorems *)

LEMMA VInvInit == Init => VInv
  <1> SUFFICES ASSUME Init PROVE VInv
    OBVIOUS
  <1>1. IInv
    BY IInvInit
  <1>2. Outgoing = << >> /\ Len(<< >>) = 0
    BY DEF Init, Outgoing
  <1>3. ASSUME NEW k \in Kind
        PROVE  DOMAIN Chain(k) = 1..2 /\ Chain(k)[1] = NoObject /\ Chain(k)[2] = NoObject
    BY <1>2 DEF Init, Chain, ChainOf, SeenOf
  <1>4. \A k \in Kind : Elems(k) = {NoObject}
    BY <1>3 DEF Elems, ElemsOf
  <1>5. VersionInv /\ BuriedInv
    BY <1>4 DEF VersionInv, BuriedInv, Init
  <1>6. QuietInv
    BY <1>2 DEF Init, QuietInv, Quiet, Before
  <1>7. SnapshotInv
    <2>1. \A l \in Kind : ~(l <= 0)
      BY SyncAssumption DEF Kind
    <2>2. QED
      BY <2>1 DEF Init, SnapshotInv, Listable, NoSnapshot
  <1>8. LastWordInv
    BY <1>2 DEF LastWordInv
  <1>9. KnownInv
    BY DEF Init, KnownInv, Known, CachedOn, At
  <1>10. QED
    BY <1>1, <1>5, <1>6, <1>7, <1>8, <1>9 DEF VInv

LEMMA VInvStep == VInv /\ [Next]_vars => VInv'
  <1> SUFFICES ASSUME VInv, [Next]_vars PROVE VInv'
    OBVIOUS
  <1>1. /\ IInv /\ VersionInv /\ QuietInv /\ BuriedInv /\ SnapshotInv /\ LastWordInv /\ KnownInv
        /\ Base
    BY DEF VInv, IInv
  <1>2. IInv' /\ Base'
    BY <1>1, IInvStep DEF IInv
  <1>3. ASSUME NEW k \in Kind, NEW obj \in Some, Change(k, obj), NewState(k, obj)
        PROVE  VInv'
    <2>1. UNCHANGED <<cache, notes, snapshot, changed, eventChan, hand>> /\ missed \subseteq missed'
      BY <1>3 DEF Change, senderVars
    <2>2. VersionInv' /\ BuriedInv'
      BY <1>1, <1>3, VersionsChange, BuriedChange
    <2>3. QuietInv' /\ SnapshotInv'
      BY <1>1, <2>1, SnapshotKept DEF QuietInv, Quiet, Before
    <2>4. LastWordInv'
      BY <1>1, <2>1, LastWordKept DEF Outgoing, Seen
    <2>5. KnownInv'
      BY <1>1, <1>3, KnownChange
    <2>6. QED
      BY <1>2, <2>2, <2>3, <2>4, <2>5 DEF VInv
  <1>4. ASSUME NEW k \in Kind, Inform(k) PROVE VInv'
    <2>1. UNCHANGED <<eventChan, hand, buried, missed>>
      BY <1>1, <1>4, InformEffect
    <2>2. Shrinks /\ Fewer
      BY <1>1, <1>4, <2>1, StepShrinks DEF IInv, Fewer, Outgoing
    <2>3. VersionInv' /\ BuriedInv'
      BY <1>1, <2>1, <2>2, VersionsKept, BuriedKept
    <2>4. QuietInv' /\ SnapshotInv' /\ KnownInv'
      BY <1>1, <1>2, <1>4, QuietInform, SnapshotInform, KnownInform
    <2>5. LastWordInv'
      BY <1>1, <1>4, <2>1, InformChain, LastWordKept DEF Outgoing
    <2>6. QED
      BY <1>2, <2>3, <2>4, <2>5 DEF VInv
  <1>5. ASSUME NEW k \in Kind, Handle(k) PROVE VInv'
    <2>1. UNCHANGED <<cache, snapshot, changed, buried>>
      BY <1>1, <1>5, HandleFacts
    <2>2. Shrinks
      BY <1>1, <1>5, StepShrinks DEF IInv
    <2>3. VersionInv' /\ BuriedInv' /\ SnapshotInv'
      BY <1>1, <1>5, <2>1, <2>2, VersionsKept, BuriedKept, SnapshotKept
    <2>4. QuietInv' /\ KnownInv' /\ LastWordInv'
      BY <1>1, <1>2, <1>5, QuietHandle, KnownHandle, LastWordHandled
    <2>5. QED
      BY <1>2, <2>3, <2>4 DEF VInv
  <1>6. CASE Sends
    <2>1. Shrinks
      BY <1>1, <1>6, StepShrinks DEF IInv
    <2>2. UNCHANGED <<cache, notes, snapshot, changed>>
      BY <1>6, SendsKeep
    <2>3. VersionInv' /\ BuriedInv' /\ SnapshotInv'
      BY <1>1, <1>2, <1>6, <2>1, <2>2, VersionsKept, BuriedSends, SnapshotKept
    <2>4. QuietInv'
      BY <1>1, <2>2 DEF QuietInv, Quiet, Before
    <2>5. LastWordInv' /\ KnownInv'
      BY <1>1, <1>2, <1>6, KnownSends
    <2>6. QED
      BY <1>2, <2>3, <2>4, <2>5 DEF VInv
  <1>7. CASE Snaps
    <2>1. UNCHANGED <<cache, notes, eventChan, hand, buried>>
      BY <1>7, PathKept DEF Snaps, ListKind, BuildPayload, SnapshotApplied, SnapshotAbandoned,
                            SnapshotRecorded
    <2>2. Shrinks /\ Fewer
      BY <1>1, <1>7, <2>1, StepShrinks DEF IInv, Fewer, Outgoing
    <2>3. VersionInv' /\ BuriedInv' /\ SnapshotInv'
      BY <1>1, <1>7, <2>1, <2>2, VersionsKept, BuriedKept, SnapshotSnaps
    <2>4. QuietInv'
      BY <1>1, <2>1 DEF QuietInv, Quiet, Before
    <2>5. LastWordInv' /\ KnownInv'
      BY <1>1, <1>2, <1>7, KnownSnaps
    <2>6. QED
      BY <1>2, <2>3, <2>4, <2>5 DEF VInv
  <1>8. CASE Restart
    <2>1. eventChan' = << >> /\ hand' = NoEvent /\ buried' = buried /\ snapshot' = NoSnapshot
      BY <1>8 DEF Restart
    <2>2. Shrinks /\ Fewer
      BY <1>1, <1>8, <2>1, StepShrinks DEF IInv, Fewer, Outgoing
    <2>3. VersionInv' /\ BuriedInv' /\ SnapshotInv'
      BY <1>1, <2>1, <2>2, VersionsKept, BuriedKept, SnapshotReset
    <2>4. QuietInv' /\ LastWordInv' /\ KnownInv'
      BY <1>1, <1>8, QuietRestart, KnownRestart
    <2>5. QED
      BY <1>2, <2>3, <2>4 DEF VInv
  <1>9. CASE UNCHANGED vars
    <2>1. /\ UNCHANGED <<cluster, version, watch, listed, cache, notes>>
          /\ UNCHANGED <<eventChan, hand, snapshot, view, changed, buried, missed>>
      BY <1>9 DEF vars, clusterVars, informerVars, senderVars
    <2>2. Shrinks /\ Fewer
      BY <1>1, <1>9, <2>1, StepShrinks DEF IInv, Fewer, Outgoing
    <2>3. VersionInv' /\ BuriedInv' /\ SnapshotInv'
      BY <1>1, <2>1, <2>2, VersionsKept, BuriedKept, SnapshotKept
    <2>4. QuietInv'
      BY <1>1, <2>1 DEF QuietInv, Quiet, Before
    <2>5. LastWordInv'
      BY <1>1, <2>1, LastWordKept DEF Outgoing, Seen
    <2>6. KnownInv'
      <3>1. \A u : Outstanding(u)' <=> Outstanding(u)
        BY <2>1 DEF Outstanding, Outgoing
      <3>2. QED
        BY <1>1, <2>1, <3>1, KnownKept
    <2>7. QED
      BY <1>2, <2>3, <2>4, <2>5, <2>6 DEF VInv
  <1>10. QED
    BY <1>1, <1>3, <1>4, <1>5, <1>6, <1>7, <1>8, <1>9, NextCases DEF Sends, Snaps
-----------------------------------------------------------------------------
(* The watch: what it has yet to deliver ends in the state of the cluster *)

LastState(k) == IF watch[k] = << >> THEN cache[k] ELSE watch[k][Len(watch[k])]
WatchInv == \A k \in listed : LastState(k) = cluster[k]

LEMMA WatchStep == Base /\ WatchInv /\ [Next]_vars => WatchInv'
  <1> SUFFICES ASSUME Base, WatchInv, [Next]_vars PROVE WatchInv'
    OBVIOUS
  <1>1. /\ watch \in [Kind -> Seq(Some)] /\ cluster \in [Kind -> Some]
        /\ cache \in [Kind -> Some] /\ listed \subseteq Kind
    BY DEF Base, TypeOK, Some
  <1>2. ASSUME NEW k \in Kind, NEW obj \in Some, Change(k, obj) PROVE WatchInv'
    <2>1. listed' = listed /\ cache' = cache /\ cluster' = [cluster EXCEPT ![k] = obj]
      BY <1>2 DEF Change
    <2>2. CASE k \in listed
      <3>1. watch' = [watch EXCEPT ![k] = Append(@, obj)]
        BY <1>2, <2>2 DEF Change
      <3>2. watch'[k] = Append(watch[k], obj) /\ watch[k] \in Seq(Some)
        BY <1>1, <3>1
      <3>3. watch'[k] # << >> /\ watch'[k][Len(watch'[k])] = obj
        BY <3>2
      <3>4. \A l \in Kind \ {k} : watch'[l] = watch[l] /\ cluster'[l] = cluster[l]
        BY <1>1, <2>1, <3>1
      <3>5. cluster'[k] = obj
        BY <1>1, <2>1
      <3>6. QED
        BY <1>1, <2>1, <3>3, <3>4, <3>5 DEF WatchInv, LastState
    <2>3. CASE k \notin listed
      <3>1. watch' = watch
        BY <1>2, <2>3 DEF Change
      <3>2. \A l \in listed : cluster'[l] = cluster[l]
        BY <1>1, <2>1, <2>3
      <3>3. QED
        BY <2>1, <3>1, <3>2 DEF WatchInv, LastState
    <2>4. QED
      BY <2>2, <2>3
  <1>3. ASSUME NEW k \in Kind, List(k) \/ Relist(k) PROVE WatchInv'
    <2>1. /\ cluster' = cluster /\ cache' = [cache EXCEPT ![k] = cluster[k]]
          /\ listed' = listed \cup {k}
      BY <1>3 DEF List, Relist, UpdateCache, clusterVars
    <2>2. watch'[k] = << >> /\ \A l \in Kind \ {k} : watch'[l] = watch[l]
      BY <1>1, <1>3 DEF List, Relist, Base, UnlistedInv
    <2>3. cache'[k] = cluster[k] /\ \A l \in Kind \ {k} : cache'[l] = cache[l]
      BY <1>1, <2>1
    <2>4. QED
      BY <1>1, <2>1, <2>2, <2>3 DEF WatchInv, LastState
  <1>4. ASSUME NEW k \in Kind, Watch(k) PROVE WatchInv'
    <2>1. /\ cluster' = cluster /\ listed' = listed /\ watch[k] # << >>
          /\ cache' = [cache EXCEPT ![k] = Head(watch[k])]
          /\ watch' = [watch EXCEPT ![k] = Tail(@)]
      BY <1>4 DEF Watch, UpdateCache, clusterVars
    <2>2. watch[k] \in Seq(Some) /\ k \in listed
      BY <1>1, <2>1 DEF Base, UnlistedInv
    <2>3. watch[k][Len(watch[k])] = cluster[k]
      BY <2>1, <2>2 DEF WatchInv, LastState
    <2>4. /\ cache'[k] = watch[k][1] /\ watch'[k] \in Seq(Some)
          /\ Len(watch[k]) \in Nat /\ Len(watch[k]) >= 1
          /\ Len(watch'[k]) = Len(watch[k]) - 1
          /\ \A i \in 1..(Len(watch[k]) - 1) : watch'[k][i] = watch[k][i + 1]
      BY <1>1, <2>1, <2>2, TailFacts
    <2>5. LastState(k)' = cluster[k]
      <3>1. CASE watch'[k] = << >>
        <4>1. Len(watch'[k]) = 0
          BY <3>1, EmptySeq
        <4>2. QED
          BY <2>3, <2>4, <3>1, <4>1, <2>1 DEF LastState
      <3>2. CASE watch'[k] # << >>
        <4>1. Len(watch'[k]) \in Nat /\ Len(watch'[k]) >= 1
          BY <2>4, <3>2, EmptySeq
        <4>2. watch'[k][Len(watch'[k])] = watch[k][Len(watch[k])]
          BY <2>4, <4>1
        <4>3. QED
          BY <2>3, <3>2, <4>2 DEF LastState
      <3>3. QED
        BY <3>1, <3>2
    <2>6. \A l \in Kind \ {k} : LastState(l)' = LastState(l)
      BY <1>1, <2>1 DEF LastState
    <2>7. QED
      BY <1>1, <2>1, <2>5, <2>6 DEF WatchInv
  <1>5. CASE Restart
    BY <1>5 DEF Restart, WatchInv
  <1>6. CASE UNCHANGED <<cluster, watch, listed, cache>>
    BY <1>6 DEF WatchInv, LastState
  <1>7. ASSUME NEW k \in Kind, Handle(k) PROVE WatchInv'
    BY <1>6, <1>7 DEF Handle, clusterVars, informerVars
  <1>8. QED
    BY <1>2, <1>3, <1>4, <1>5, <1>6, <1>7, NextCases, PathKept DEF Inform, Sends, Snaps

LEMMA PresentIs ==
    ASSUME Base, WatchInv, listed = Kind, \A k \in Kind : watch[k] = << >>, NEW u
    PROVE  Present(u) = Cached(u)
  <1>1. cluster \in [Kind -> Some] /\ cache \in [Kind -> Some]
    BY DEF Base, TypeOK, Some
  <1>2. \A k \in Kind : cluster[k] = cache[k]
    BY DEF WatchInv, LastState
  <1>3. cluster = cache
    BY <1>1, <1>2
  <1>4. QED
    BY <1>3 DEF Present, Cached

\* onAdd, onUpdate, onDelete, GetCurrentState: of an object about which nothing is on its
\* way the platform knows exactly what the informer has, be it from events, snapshots, or
\* both in any order, unless its last change was lost or overtaken by the snapshot.
THEOREM PlatformConverges == Spec => []Converged
  <1>1. Spec => [](VInv /\ WatchInv)
    <2>1. Init => WatchInv
      BY DEF Init, WatchInv
    <2>2. VInv => Base
      BY DEF VInv, IInv
    <2>3. QED
      BY <2>1, <2>2, VInvInit, VInvStep, WatchStep, PTL DEF Spec
  <1>2. VInv /\ WatchInv => Converged
    <2>1. SUFFICES ASSUME VInv, WatchInv, listed = Kind, NEW u \in UID \ missed, ~Pending(u)
                   PROVE  /\ Known(u) = Cached(u)
                          /\ (\A k \in Kind : watch[k] = << >>) => Known(u) = Present(u)
      BY DEF Converged
    <2>2. IInv /\ KnownInv /\ Base
      BY <2>1 DEF VInv, IInv
    <2>3. ~Outstanding(u) /\ ~Noted(u)
      BY <2>1, <2>2, PendingIs DEF Pending
    <2>4. ~Unheard(u)
      BY <2>1 DEF Unheard
    <2>5. Known(u) = CachedOn(u)
      BY <2>2, <2>3, <2>4 DEF KnownInv
    <2>6. Known(u) = Cached(u)
      BY <2>2, <2>5, CachedIs
    <2>7. QED
      BY <2>1, <2>2, <2>6, PresentIs
  <1>3. QED
    BY <1>1, <1>2, PTL

\* onDelete, SendEvent: an object whose deletion the platform confirmed does not come
\* back, unless by a snapshot that listed it before it was deleted.
THEOREM DeletedStayDeleted == Spec => []NoResurrection
  <1>1. Spec => []VInv
    BY VInvInit, VInvStep, PTL DEF Spec
  <1>2. VInv => NoResurrection
    <2>1. SUFFICES ASSUME VInv, NEW u \in buried, u \in Uids(view), u \notin missed
                   PROVE  FALSE
      BY DEF NoResurrection
    <2>2. IInv /\ KnownInv /\ BuriedInv /\ Base
      BY <2>1 DEF VInv, IInv
    <2>3. u \in UID \ missed
      BY <2>1, <2>2 DEF Base, TypeOK
    <2>4. /\ \A k \in Kind : \A x \in Elems(k) : At(x, u) = {}
          /\ ~Outstanding(u)
      BY <2>2 DEF BuriedInv, Outstanding
    <2>5. \A k \in Kind : At(cache[k], u) = {} /\ At(cluster[k], u) = {}
      BY <2>2, <2>4, ChainHas
    <2>6. ~Noted(u)
      <3>1. ASSUME NEW k \in Kind, NEW i \in 1..Len(notes[k]) PROVE ~About(notes[k][i], u)
        <4>1. notes[k][i].old \in Elems(k) /\ notes[k][i].new \in Elems(k)
          BY <2>2, ChainHas
        <4>2. At(notes[k][i].old, u) = {} /\ At(notes[k][i].new, u) = {}
          BY <2>4, <4>1
        <4>3. QED
          BY <4>2 DEF About, Uids, At
      <3>2. QED
        BY <3>1, NotedIs
    <2>7. Known(u) = {}
      <3>1. CachedOn(u) = {} /\ ~Unheard(u)
        BY <2>5 DEF CachedOn, Unheard
      <3>2. QED
        BY <3>1, <2>2, <2>3, <2>4, <2>6 DEF KnownInv
    <2>8. QED
      BY <2>1, <2>7 DEF Known, Uids
  <1>3. QED
    BY <1>1, <1>2, PTL
===============================================================================
