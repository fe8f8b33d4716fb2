-------------------------- MODULE ResourceSyncProofs --------------------------
(***************************************************************************)
(* Safety of ResourceSync for any number of kinds, any buffer and any      *)
(* bounds.                                                                 *)
(*                                                                         *)
(* The argument follows an object through the states in which it is on its *)
(* way: for each kind, Chain is what the handlers have seen last, then the *)
(* notifications, then the watch, then the cluster.  No step does anything *)
(* to a chain but drop or repeat elements and add a new state at the end.  *)
(***************************************************************************)
EXTENDS ResourceSync, SequenceTheorems, TLAPS

Some == Object \cup {NoObject}

\* Of a kind with notifications no, watch wa, cache ca and cluster state cl: what its
\* handlers have been told of, and what lies between that and the cluster.
SeenOf(no, ca) == IF Len(no) = 0 THEN ca ELSE no[1].old
ChainOf(no, wa, ca, cl) ==
    [i \in 1..(Len(no) + Len(wa) + 2) |->
        IF i = 1 THEN SeenOf(no, ca)
        ELSE IF i <= Len(no) + 1 THEN no[i - 1].new
        ELSE IF i <= Len(no) + Len(wa) + 1 THEN wa[i - Len(no) - 1]
        ELSE cl]

\* What is known of s = ChainOf(no, wa, ca, cl) for n notifications and m states in the watch.
Shape(s, n, m, no, ca, cl) ==
    /\ n \in Nat /\ m \in Nat
    /\ DOMAIN s = 1..(n + m + 2)
    /\ s[1] = SeenOf(no, ca) /\ s[n + m + 2] = cl
    /\ \A i \in 1..n : s[i + 1] = no[i].new
    /\ \A i \in 1..(n + m + 2) : s[i] \in Some

Pushed(t, s, x) == Len(t) = Len(s) + 1 /\ t[Len(s) + 1] = x /\ \A i \in 1..Len(s) : t[i] = s[i]
Popped(t, s, x) ==
    /\ Len(s) >= 1 /\ Len(t) = Len(s) - 1 /\ s[1] = x
    /\ \A i \in 1..(Len(s) - 1) : t[i] = s[i + 1]

Seen(k) == SeenOf(notes[k], cache[k])
Chain(k) == ChainOf(notes[k], watch[k], cache[k], cluster[k])
ElemsOf(s) == {s[i] : i \in DOMAIN s}
Elems(k) == ElemsOf(Chain(k))

Same(x, y) == x # NoObject /\ y # NoObject /\ x.uid = y.uid

\* In a chain the states of one object are neighbours and their versions grow.
Ordered(s) ==
    \A i, j \in DOMAIN s :
        i <= j /\ Same(s[i], s[j]) =>
            /\ s[i].version <= s[j].version
            /\ \A l \in DOMAIN s : i <= l /\ l <= j => Same(s[l], s[i])

\* t is made of elements of s, in the order of s.
Drawn(t, s) ==
    \E f \in [DOMAIN t -> DOMAIN s] :
        /\ \A i, j \in DOMAIN t : i <= j => f[i] <= f[j]
        /\ \A i \in DOMAIN t : t[i] = s[f[i]]

Extend(s, n, obj) == [i \in 1..(n + 1) |-> IF i <= n THEN s[i] ELSE obj]
WellFormed(n) ==
    /\ n.type = "added" => n.old = NoObject /\ n.new # NoObject
    /\ n.type = "modified" => n.old # NoObject /\ n.new # NoObject
    /\ n.type = "deleted" => n.old # NoObject /\ n.new = NoObject

\* Each notification starts from the state the one before it ends with.
NoteInv ==
    \A k \in Kind : \A i \in 1..Len(notes[k]) :
        /\ WellFormed(notes[k][i])
        /\ notes[k][i].new = IF i = Len(notes[k]) THEN cache[k] ELSE notes[k][i + 1].old

UnlistedInv ==
    \A k \in Kind \ listed : notes[k] = << >> /\ watch[k] = << >> /\ cache[k] = NoObject

PhaseInv ==
    /\ snapshot.phase = "none" => snapshot = NoSnapshot
    /\ snapshot.phase = "sending" => snapshot.upto = NumKinds

Base == TypeOK /\ NoteInv /\ UnlistedInv /\ PhaseInv

\* What UpdateCache does: it tells nobody, or it queues the notification n.
Silent(k, obj) == cache[k] = NoObject /\ obj = NoObject /\ notes' = notes /\ cache' = cache
Notifies(k, obj, n) ==
    /\ n \in Note /\ WellFormed(n)
    /\ n.old = cache[k] /\ n.new = obj
    /\ notes' = [notes EXCEPT ![k] = Append(@, n)]
    /\ cache' = [cache EXCEPT ![k] = obj]

Inform(k) == List(k) \/ Watch(k) \/ Relist(k)

\* The states that the cluster goes to.
NewState(k, obj) ==
    obj # NoObject =>
        obj.version = version + 1 /\ (obj.uid = version + 1 \/ Same(cluster[k], obj))
-----------------------------------------------------------------------------
(* Types *)

LEMMA CacheEffect ==
    ASSUME Base, NEW k \in Kind, NEW obj \in Some, NEW relist \in BOOLEAN,
           UpdateCache(k, obj, relist)
    PROVE  Silent(k, obj) \/ \E n \in Note : Notifies(k, obj, n)
  <1> DEFINE note(type) == [type |-> type, old |-> cache[k], new |-> obj, tombstone |-> FALSE]
  <1>1. cache[k] \in Some /\ cache \in [Kind -> Some]
    BY DEF Base, TypeOK, Some
  <1>2. CASE cache[k] = NoObject /\ obj = NoObject
    BY <1>1, <1>2 DEF UpdateCache, Silent
  <1>3. CASE cache[k] = NoObject /\ obj # NoObject
    <2>1. note("added") \in Note /\ WellFormed(note("added"))
      BY <1>1, <1>3 DEF Note, EventType, Some, WellFormed
    <2>2. Notifies(k, obj, note("added"))
      BY <2>1, <1>3 DEF UpdateCache, Notifies
    <2>3. QED
      BY <2>1, <2>2
  <1>4. CASE cache[k] # NoObject /\ obj # NoObject
    <2>1. note("modified") \in Note /\ WellFormed(note("modified"))
      BY <1>1, <1>4 DEF Note, EventType, Some, WellFormed
    <2>2. Notifies(k, obj, note("modified"))
      BY <2>1, <1>4 DEF UpdateCache, Notifies
    <2>3. QED
      BY <2>1, <2>2
  <1>5. CASE cache[k] # NoObject /\ obj = NoObject
    <2> DEFINE d == [note("deleted") EXCEPT !.tombstone = relist]
    <2>1. d \in Note /\ WellFormed(d) /\ d.old = cache[k] /\ d.new = obj
      BY <1>1, <1>5 DEF Note, EventType, Some, WellFormed
    <2>2. Notifies(k, obj, d)
      BY <2>1, <1>5 DEF UpdateCache, Notifies
    <2>3. QED
      BY <2>1, <2>2
  <1>6. QED
    BY <1>2, <1>3, <1>4, <1>5

LEMMA InformEffect ==
    ASSUME Base, NEW k \in Kind, Inform(k)
    PROVE  \E obj \in Some, relist \in BOOLEAN :
               /\ UpdateCache(k, obj, relist)
               /\ \/ Watch(k) /\ watch[k] # << >> /\ obj = Head(watch[k])
                     /\ watch' = [watch EXCEPT ![k] = Tail(@)] /\ listed' = listed
                  \/ obj = cluster[k] /\ watch' = [watch EXCEPT ![k] = << >>]
                     /\ listed' = listed \cup {k}
               /\ UNCHANGED <<clusterVars, eventChan, hand, senderVars, view, buried, missed>>
  <1>1. cluster[k] \in Some /\ watch[k] \in Seq(Some) /\ watch \in [Kind -> Seq(Some)]
    BY DEF Base, TypeOK, Some
  <1>2. CASE List(k)
    <2>1. watch[k] = << >>
      BY <1>2 DEF List, Base, UnlistedInv
    <2>2. [watch EXCEPT ![k] = << >>] = watch
      BY <1>1, <2>1
    <2>3. QED
      BY <1>1, <1>2, <2>2 DEF List, Some
  <1>3. CASE Watch(k)
    <2>1. Head(watch[k]) \in Some
      BY <1>1, <1>3 DEF Watch
    <2>2. QED
      BY <1>3, <2>1 DEF Watch
  <1>4. CASE Relist(k)
    <2>1. listed \cup {k} = listed
      BY <1>4 DEF Relist
    <2>2. QED
      BY <1>1, <1>4, <2>1 DEF Relist, Some
  <1>5. QED
    BY <1>2, <1>3, <1>4 DEF Inform
-----------------------------------------------------------------------------
(* Chains *)

LEMMA DrawnOrdered ==
    ASSUME NEW s, NEW t, Ordered(s), Drawn(t, s), DOMAIN t \subseteq Int, DOMAIN s \subseteq Int
    PROVE  Ordered(t)
  <1>1. PICK f \in [DOMAIN t -> DOMAIN s] :
            /\ \A i, j \in DOMAIN t : i <= j => f[i] <= f[j]
            /\ \A i \in DOMAIN t : t[i] = s[f[i]]
    BY DEF Drawn
  <1>2. SUFFICES ASSUME NEW i \in DOMAIN t, NEW j \in DOMAIN t, i <= j, Same(t[i], t[j])
                 PROVE  /\ t[i].version <= t[j].version
                        /\ \A l \in DOMAIN t : i <= l /\ l <= j => Same(t[l], t[i])
    BY DEF Ordered
  <1>3. f[i] <= f[j] /\ Same(s[f[i]], s[f[j]]) /\ f[i] \in DOMAIN s /\ f[j] \in DOMAIN s
    BY <1>1, <1>2
  <1>4. \A l \in DOMAIN t : i <= l /\ l <= j => f[i] <= f[l] /\ f[l] <= f[j] /\ f[l] \in DOMAIN s
    BY <1>1
  <1>5. QED
    BY <1>1, <1>3, <1>4 DEF Ordered

LEMMA ExtendOrdered ==
    ASSUME NEW n \in Nat \ {0}, NEW s, DOMAIN s = 1..n, Ordered(s),
           \A i \in 1..n : s[i] \in Some, NEW obj \in Some,
           \/ \A i \in 1..n : ~Same(s[i], obj)
           \/ Same(s[n], obj) /\ s[n].version <= obj.version
    PROVE  Ordered(Extend(s, n, obj))
  <1> DEFINE t == Extend(s, n, obj)
  <1>1. /\ DOMAIN t = 1..(n + 1) /\ t[n + 1] = obj
        /\ \A i \in 1..n : t[i] = s[i]
    BY DEF Extend
  <1> HIDE DEF t
  <1>2. SUFFICES ASSUME NEW i \in 1..(n + 1), NEW j \in 1..(n + 1), i <= j, Same(t[i], t[j])
                 PROVE  /\ t[i].version <= t[j].version
                        /\ \A l \in 1..(n + 1) : i <= l /\ l <= j => Same(t[l], t[i])
    BY <1>1 DEF Ordered, t
  <1>3. CASE j <= n
    BY <1>1, <1>2, <1>3 DEF Ordered
  <1>4. CASE j = n + 1 /\ i <= n
    <2>1. Same(s[i], obj) /\ i \in 1..n /\ n \in 1..n
      BY <1>1, <1>2, <1>4
    <2>2. Same(s[n], obj) /\ s[n].version <= obj.version
      BY <2>1
    <2>3. Same(s[i], s[n])
      BY <2>1, <2>2 DEF Same
    <2>4. s[i].version <= s[n].version /\ \A l \in 1..n : i <= l => Same(s[l], s[i])
      BY <2>1, <2>3 DEF Ordered
    <2>5. s[i].version \in Int /\ s[n].version \in Int /\ obj.version \in Int
      BY <2>1, <2>2 DEF Same, Some, Object, UID
    <2>6. s[i].version <= obj.version
      BY <2>2, <2>4, <2>5
    <2>7. ASSUME NEW l \in 1..(n + 1), i <= l PROVE Same(t[l], t[i])
      <3>1. CASE l = n + 1
        BY <3>1, <1>1, <2>1 DEF Same
      <3>2. CASE l # n + 1
        BY <3>2, <2>7, <1>1, <2>1, <2>4
      <3>3. QED
        BY <3>1, <3>2
    <2>8. QED
      BY <1>1, <1>4, <2>1, <2>6, <2>7
  <1>5. CASE i = n + 1
    <2>1. j = n + 1
      BY <1>2, <1>5
    <2>2. obj # NoObject /\ obj.version \in Int
      BY <1>1, <1>2, <1>5 DEF Same, Some, Object, UID
    <2>3. \A l \in 1..(n + 1) : i <= l => l = n + 1
      BY <1>5
    <2>4. QED
      BY <1>1, <1>2, <1>5, <2>1, <2>2, <2>3 DEF Same
  <1>6. QED
    BY <1>2, <1>3, <1>4, <1>5

LEMMA ChainOfFacts ==
    ASSUME NEW no \in Seq(Note), NEW wa \in Seq(Some), NEW ca \in Some, NEW cl \in Some
    PROVE  Shape(ChainOf(no, wa, ca, cl), Len(no), Len(wa), no, ca, cl)
  <1> DEFINE s == ChainOf(no, wa, ca, cl)
             n == Len(no)
             m == Len(wa)
  <1>1. n \in Nat /\ m \in Nat
    OBVIOUS
  <1>2. \A i \in 1..n : no[i] \in Note
    OBVIOUS
  <1>3. \A i \in 1..n : no[i].old \in Some /\ no[i].new \in Some
    BY <1>2 DEF Note, Some
  <1>4. \A i \in 1..m : wa[i] \in Some
    OBVIOUS
  <1>5. n # 0 => 1 \in 1..n
    BY <1>1
  <1>6. SeenOf(no, ca) \in Some
    BY <1>3, <1>5 DEF SeenOf
  <1>7. DOMAIN s = 1..(n + m + 2)
    BY DEF ChainOf
  <1>8. \A i \in 1..(n + m + 2) :
            s[i] = IF i = 1 THEN SeenOf(no, ca)
                   ELSE IF i <= n + 1 THEN no[i - 1].new
                   ELSE IF i <= n + m + 1 THEN wa[i - n - 1]
                   ELSE cl
    BY DEF ChainOf
  <1> HIDE DEF s, n, m
  <1>9. s[1] = SeenOf(no, ca) /\ s[n + m + 2] = cl
    BY <1>1, <1>8
  <1>10. \A i \in 1..n : s[i + 1] = no[i].new
    BY <1>1, <1>8
  <1>11. ASSUME NEW i \in 1..(n + m + 2) PROVE s[i] \in Some
    <2>1. CASE i = 1
      BY <2>1, <1>6, <1>9
    <2>2. CASE i # 1 /\ i <= n + 1
      <3>1. i - 1 \in 1..n
        BY <2>2, <1>1
      <3>2. QED
        BY <3>1, <2>2, <1>3, <1>8
    <2>3. CASE i > n + 1 /\ i <= n + m + 1
      <3>1. i - n - 1 \in 1..m /\ i # 1
        BY <2>3, <1>1
      <3>2. s[i] = wa[i - n - 1]
        BY <3>1, <2>3, <1>1, <1>8
      <3>3. QED
        BY <3>1, <3>2, <1>4
    <2>4. CASE i > n + m + 1
      BY <2>4, <1>1, <1>8
    <2>5. QED
      BY <2>1, <2>2, <2>3, <2>4, <1>1
  <1>12. QED
    <2>1. Shape(s, n, m, no, ca, cl)
      BY <1>1, <1>7, <1>9, <1>10, <1>11 DEF Shape
    <2>2. QED
      BY <2>1 DEF s, n, m

LEMMA ChainOfWatch ==
    ASSUME NEW no \in Seq(Note), NEW wa \in Seq(Some), NEW ca \in Some, NEW cl \in Some
    PROVE  \A i \in 1..Len(wa) : ChainOf(no, wa, ca, cl)[Len(no) + 1 + i] = wa[i]
  <1> DEFINE s == ChainOf(no, wa, ca, cl)
             n == Len(no)
             m == Len(wa)
  <1>1. n \in Nat /\ m \in Nat
    OBVIOUS
  <1>2. \A j \in 1..(n + m + 2) :
            j # 1 /\ j > n + 1 /\ j <= n + m + 1 => s[j] = wa[j - n - 1]
    BY <1>1 DEF ChainOf
  <1> HIDE DEF s, n, m
  <1>3. ASSUME NEW i \in 1..m PROVE s[n + 1 + i] = wa[i]
    <2> DEFINE j == n + 1 + i
    <2>1. /\ j \in 1..(n + m + 2) /\ j # 1 /\ j > n + 1 /\ j <= n + m + 1
          /\ j - n - 1 = i
      BY <1>1
    <2> HIDE DEF j
    <2>2. s[j] = wa[i]
      BY <1>2, <2>1
    <2>3. QED
      BY <2>2 DEF j
  <1>4. QED
    BY <1>3 DEF s, n, m

LEMMA TailFacts ==
    ASSUME NEW S, NEW s \in Seq(S), s # << >>
    PROVE  /\ Tail(s) \in Seq(S) /\ Len(s) \in Nat /\ Len(s) >= 1
           /\ Len(Tail(s)) = Len(s) - 1
           /\ \A i \in 1..(Len(s) - 1) : Tail(s)[i] = s[i + 1]
           /\ Head(s) = s[1] /\ s[1] \in S
  <1>1. Len(s) \in Nat \ {0}
    BY EmptySeq
  <1>2. /\ Tail(s) \in Seq(S) /\ Len(Tail(s)) = Len(s) - 1 /\ Head(s) \in S
        /\ \A i \in 1..Len(Tail(s)) : Tail(s)[i] = s[i + 1]
    BY HeadTailProperties
  <1>3. Head(s) = s[1]
    BY DEF Head
  <1>4. QED
    BY <1>1, <1>2, <1>3

\* What a step does to a chain: no2 and wa2 stand for the notifications and the watch
\* after it.
LEMMA WatchNotified ==
    ASSUME NEW no \in Seq(Note), NEW wa \in Seq(Some), NEW ca \in Some, NEW cl \in Some,
           NEW no2 \in Seq(Note), NEW wa2 \in Seq(Some), NEW n \in Note, n.old = ca,
           Pushed(no2, no, n), Popped(wa2, wa, n.new)
    PROVE  /\ SeenOf(no2, n.new) = SeenOf(no, ca)
           /\ Drawn(ChainOf(no2, wa2, n.new, cl), ChainOf(no, wa, ca, cl))
  <1> USE DEF Pushed, Popped
  <1>1. Len(no) \in Nat /\ Len(wa) \in Nat
    OBVIOUS
  <1>2. SeenOf(no2, n.new) = SeenOf(no, ca)
    BY <1>1 DEF SeenOf
  <1> DEFINE s == ChainOf(no, wa, ca, cl)
             t == ChainOf(no2, wa2, n.new, cl)
             p == Len(no) + Len(wa) + 2
  <1>3. DOMAIN s = 1..p /\ DOMAIN t = 1..p /\ p \in Nat
    BY <1>1 DEF ChainOf
  <1>4. ASSUME NEW i \in 1..p PROVE t[i] = s[i]
    <2>1. CASE i = 1
      BY <2>1, <1>1, <1>2 DEF ChainOf
    <2>2. CASE i # 1 /\ i <= Len(no) + 1
      <3>1. i - 1 \in 1..Len(no)
        BY <2>2, <1>1
      <3>2. s[i] = no[i - 1].new
        BY <2>2, <1>1 DEF ChainOf
      <3>3. t[i] = no2[i - 1].new
        BY <2>2, <1>1 DEF ChainOf
      <3>4. QED
        BY <3>1, <3>2, <3>3
    <2>3. CASE i = Len(no) + 2
      <3>1. s[i] = wa[1]
        BY <2>3, <1>1 DEF ChainOf
      <3>2. t[i] = no2[Len(no) + 1].new
        BY <2>3, <1>1 DEF ChainOf
      <3>3. QED
        BY <3>1, <3>2
    <2>4. CASE i > Len(no) + 2 /\ i <= Len(no) + Len(wa) + 1
      <3>1. i - Len(no) - 2 \in 1..(Len(wa) - 1) /\ (i - Len(no) - 2) + 1 = i - Len(no) - 1
        BY <2>4, <1>1
      <3>2. s[i] = wa[i - Len(no) - 1]
        BY <2>4, <1>1 DEF ChainOf
      <3>3. t[i] = wa2[i - (Len(no) + 1) - 1]
        BY <2>4, <1>1 DEF ChainOf
      <3>4. i - (Len(no) + 1) - 1 = i - Len(no) - 2
        BY <1>1
      <3>5. QED
        BY <3>1, <3>2, <3>3, <3>4
    <2>5. CASE i > Len(no) + Len(wa) + 1
      BY <2>5, <1>1 DEF ChainOf
    <2>6. QED
      BY <2>1, <2>2, <2>3, <2>4, <2>5, <1>1
  <1> HIDE DEF s, t, p
  <1>5. Drawn(t, s)
    <2> DEFINE f == [i \in DOMAIN t |-> i]
    <2>1. f \in [DOMAIN t -> DOMAIN s]
      BY <1>3
    <2>2. QED
      BY <2>1, <1>3, <1>4 DEF Drawn
  <1>6. QED
    BY <1>2, <1>5 DEF s, t

LEMMA WatchSilent ==
    ASSUME NEW no \in Seq(Note), NEW wa \in Seq(Some), NEW ca \in Some, NEW cl \in Some,
           NEW wa2 \in Seq(Some),
           Len(wa) >= 1, Len(wa2) = Len(wa) - 1,
           \A i \in 1..(Len(wa) - 1) : wa2[i] = wa[i + 1]
    PROVE  Drawn(ChainOf(no, wa2, ca, cl), ChainOf(no, wa, ca, cl))
  <1>1. Len(no) \in Nat /\ Len(wa) \in Nat
    OBVIOUS
  <1> DEFINE s == ChainOf(no, wa, ca, cl)
             t == ChainOf(no, wa2, ca, cl)
             p == Len(no) + Len(wa) + 1
             a == Len(no) + 1
             f == [i \in 1..p |-> IF i <= a THEN i ELSE i + 1]
  <1>2. DOMAIN s = 1..(p + 1) /\ DOMAIN t = 1..p /\ p \in Nat /\ a \in Nat
    BY <1>1 DEF ChainOf
  <1>3. ASSUME NEW i \in 1..p PROVE t[i] = IF i <= a THEN s[i] ELSE s[i + 1]
    <2>1. CASE i <= a
      BY <2>1, <1>1 DEF ChainOf
    <2>2. CASE i > a /\ i < p
      <3> DEFINE l == i - Len(no) - 1
      <3>1. l \in 1..Len(wa2) /\ l \in 1..(Len(wa) - 1) /\ l + 1 \in 1..Len(wa)
        BY <2>2, <1>1
      <3>2. i = Len(no) + 1 + l /\ i + 1 = Len(no) + 1 + (l + 1)
        BY <2>2, <1>1
      <3>3. /\ \A j \in 1..Len(wa2) : t[Len(no) + 1 + j] = wa2[j]
            /\ \A j \in 1..Len(wa) : s[Len(no) + 1 + j] = wa[j]
        BY ChainOfWatch
      <3> HIDE DEF l, s, t, p, a
      <3>4. t[i] = wa2[l] /\ s[i + 1] = wa[l + 1]
        BY <3>1, <3>2, <3>3
      <3>5. QED
        BY <2>2, <3>1, <3>4, <1>2
    <2>3. CASE i > a /\ i = p
      BY <2>3, <1>1 DEF ChainOf
    <2>4. i <= a \/ (i > a /\ i < p) \/ (i > a /\ i = p)
      <3>1. i \in Int /\ p \in Int /\ a \in Int /\ i <= p
        BY <1>2
      <3> HIDE DEF p, a
      <3>2. QED
        BY <3>1
    <2> HIDE DEF s, t, p, a
    <2>5. QED
      BY <2>1, <2>2, <2>3, <2>4
  <1> HIDE DEF s, t, p, a
  <1>4. f \in [DOMAIN t -> DOMAIN s]
    BY <1>2
  <1>5. \A i, j \in DOMAIN t : i <= j => f[i] <= f[j]
    BY <1>2
  <1>6. \A i \in DOMAIN t : t[i] = s[f[i]]
    BY <1>2, <1>3
  <1>7. Drawn(t, s)
    BY <1>4, <1>5, <1>6 DEF Drawn
  <1>8. QED
    BY <1>7 DEF s, t

LEMMA Listed ==
    ASSUME NEW no \in Seq(Note), NEW wa \in Seq(Some), NEW ca \in Some, NEW cl \in Some
    PROVE  /\ \A no2 \in Seq(Note), n \in Note :
                /\ n.old = ca /\ n.new = cl
                /\ Len(no2) = Len(no) + 1 /\ no2[Len(no) + 1] = n
                /\ \A i \in 1..Len(no) : no2[i] = no[i]
                => /\ SeenOf(no2, cl) = SeenOf(no, ca)
                   /\ Drawn(ChainOf(no2, << >>, cl, cl), ChainOf(no, wa, ca, cl))
           /\ Drawn(ChainOf(no, << >>, ca, cl), ChainOf(no, wa, ca, cl))
  <1>1. Len(no) \in Nat /\ Len(wa) \in Nat
    OBVIOUS
  <1>2. Len(<< >>) = 0
    OBVIOUS
  <1> DEFINE s == ChainOf(no, wa, ca, cl)
             p == Len(no) + Len(wa) + 2
             a == Len(no) + 1
  <1>3. /\ DOMAIN s = 1..p /\ p \in Nat /\ a \in Nat /\ a < p /\ 1 <= a
        /\ s[1] = SeenOf(no, ca) /\ s[p] = cl
        /\ \A i \in 2..a : s[i] = no[i - 1].new
    BY <1>1 DEF ChainOf
  <1>4. ASSUME NEW t, NEW q \in Nat, DOMAIN t = 1..q,
               \A i \in 1..q : t[i] = IF i <= a THEN s[i] ELSE s[p]
        PROVE  Drawn(t, s)
    <2> HIDE DEF s, p, a
    <2> DEFINE f == [i \in 1..q |-> IF i <= a THEN i ELSE p]
    <2>1. f \in [DOMAIN t -> DOMAIN s]
      BY <1>3, <1>4
    <2>2. \A i, j \in DOMAIN t : i <= j => f[i] <= f[j]
      BY <1>3, <1>4
    <2>3. \A i \in DOMAIN t : t[i] = s[f[i]]
      BY <1>3, <1>4
    <2>4. QED
      BY <2>1, <2>2, <2>3 DEF Drawn
  <1>5. ASSUME NEW no2 \in Seq(Note), NEW n \in Note, n.old = ca, n.new = cl,
               Len(no2) = Len(no) + 1, no2[Len(no) + 1] = n,
               \A i \in 1..Len(no) : no2[i] = no[i]
        PROVE  /\ SeenOf(no2, cl) = SeenOf(no, ca)
               /\ Drawn(ChainOf(no2, << >>, cl, cl), s)
    <2>1. SeenOf(no2, cl) = SeenOf(no, ca)
      BY <1>1, <1>5 DEF SeenOf
    <2> DEFINE t == ChainOf(no2, << >>, cl, cl)
    <2>2. /\ DOMAIN t = 1..(a + 2) /\ a + 2 \in Nat
          /\ t[1] = SeenOf(no2, cl) /\ t[a + 2] = cl
          /\ \A i \in 2..(a + 1) : t[i] = no2[i - 1].new
      BY <1>1, <1>2, <1>5 DEF ChainOf
    <2> HIDE DEF s, t, p
    <2>3. ASSUME NEW i \in 1..(a + 2) PROVE t[i] = IF i <= a THEN s[i] ELSE s[p]
      <3>1. CASE i = 1
        BY <3>1, <2>1, <2>2, <1>3
      <3>2. CASE i \in 2..a
        <4>1. i - 1 \in 1..Len(no) /\ i \in 2..(a + 1)
          BY <3>2, <1>1
        <4>2. QED
          BY <4>1, <3>2, <2>2, <1>3, <1>5
      <3>3. CASE i = a + 1
        <4>1. t[i] = no2[Len(no) + 1].new
          BY <3>3, <2>2, <1>1
        <4>2. QED
          BY <4>1, <3>3, <1>3, <1>5
      <3>4. CASE i = a + 2
        BY <3>4, <2>2, <1>3
      <3>5. QED
        BY <3>1, <3>2, <3>3, <3>4, <1>3
    <2>4. Drawn(t, s)
      BY <1>4, <2>2, <2>3
    <2>5. QED
      BY <2>1, <2>4 DEF t
  <1>6. Drawn(ChainOf(no, << >>, ca, cl), s)
    <2> DEFINE t == ChainOf(no, << >>, ca, cl)
    <2>1. /\ DOMAIN t = 1..(a + 1) /\ a + 1 \in Nat
          /\ t[1] = SeenOf(no, ca) /\ t[a + 1] = cl
          /\ \A i \in 2..a : t[i] = no[i - 1].new
      BY <1>1, <1>2 DEF ChainOf
    <2> HIDE DEF s, t, p, a
    <2>2. \A i \in 1..(a + 1) : t[i] = IF i <= a THEN s[i] ELSE s[p]
      BY <1>3, <2>1
    <2>3. Drawn(t, s)
      BY <1>4, <2>1, <2>2
    <2>4. QED
      BY <2>3 DEF t
  <1>7. QED
    BY <1>5, <1>6

LEMMA Handled ==
    ASSUME NEW no \in Seq(Note), NEW wa \in Seq(Some), NEW ca \in Some, NEW cl \in Some,
           NEW no2 \in Seq(Note), Len(no) >= 1, Len(no2) = Len(no) - 1,
           \A i \in 1..(Len(no) - 1) : no2[i] = no[i + 1],
           no[1].new = IF Len(no) = 1 THEN ca ELSE no[2].old
    PROVE  LET s == ChainOf(no, wa, ca, cl)
               t == ChainOf(no2, wa, ca, cl)
               p == Len(no) + Len(wa) + 1
           IN  /\ DOMAIN s = 1..(p + 1) /\ DOMAIN t = 1..p
               /\ \A i \in 1..p : t[i] = s[i + 1]
               /\ SeenOf(no2, ca) = no[1].new /\ SeenOf(no, ca) = no[1].old
               /\ s[1] = no[1].old /\ s[2] = no[1].new
               /\ Drawn(t, s)
  <1>1. Len(no) \in Nat /\ Len(wa) \in Nat
    OBVIOUS
  <1> DEFINE s == ChainOf(no, wa, ca, cl)
             t == ChainOf(no2, wa, ca, cl)
             p == Len(no) + Len(wa) + 1
             f == [i \in 1..p |-> i + 1]
  <1>2. DOMAIN s = 1..(p + 1) /\ DOMAIN t = 1..p /\ p \in Nat
    BY <1>1 DEF ChainOf
  <1>3. SeenOf(no2, ca) = no[1].new
    BY <1>1 DEF SeenOf
  <1>4. SeenOf(no, ca) = no[1].old
    BY DEF SeenOf
  <1>5. s[1] = no[1].old /\ s[2] = no[1].new
    <2>1. 1 \in 1..(p + 1) /\ 2 \in 1..(p + 1) /\ 2 <= Len(no) + 1 /\ 2 - 1 = 1
      BY <1>1
    <2>2. QED
      BY <2>1, <1>1, <1>4 DEF ChainOf
  <1>6. ASSUME NEW i \in 1..p PROVE t[i] = s[i + 1]
    <2>1. CASE i = 1
      <3>1. t[1] = SeenOf(no2, ca) /\ i + 1 = 2
        BY <2>1, <1>1 DEF ChainOf
      <3>2. QED
        BY <3>1, <2>1, <1>3, <1>5
    <2>2. CASE i # 1 /\ i <= Len(no)
      <3>1. i - 1 \in 1..(Len(no) - 1) /\ (i - 1) + 1 = (i + 1) - 1
        BY <2>2, <1>1
      <3>2. t[i] = no2[i - 1].new
        BY <2>2, <1>1 DEF ChainOf
      <3>3. s[i + 1] = no[(i + 1) - 1].new
        BY <2>2, <1>1 DEF ChainOf
      <3>4. QED
        BY <3>1, <3>2, <3>3
    <2>3. CASE i > Len(no) /\ i < p
      <3>1. i - (Len(no) - 1) - 1 = (i + 1) - Len(no) - 1
        BY <1>1
      <3>2. t[i] = wa[i - (Len(no) - 1) - 1]
        BY <2>3, <1>1 DEF ChainOf
      <3>3. s[i + 1] = wa[(i + 1) - Len(no) - 1]
        BY <2>3, <1>1 DEF ChainOf
      <3>4. QED
        BY <3>1, <3>2, <3>3
    <2>4. CASE i = p
      BY <2>4, <1>1 DEF ChainOf
    <2>5. i = 1 \/ (i # 1 /\ i <= Len(no)) \/ (i > Len(no) /\ i < p) \/ i = p
      <3>1. i \in Int /\ p \in Int /\ i <= p
        BY <1>2
      <3> HIDE DEF p
      <3>2. QED
        BY <3>1, <1>1
    <2> HIDE DEF s, t, p
    <2>6. QED
      BY <2>1, <2>2, <2>3, <2>4, <2>5
  <1> HIDE DEF s, t, p
  <1>7. Drawn(t, s)
    <2>1. f \in [DOMAIN t -> DOMAIN s]
      BY <1>2
    <2>2. \A i, j \in DOMAIN t : i <= j => f[i] <= f[j]
      BY <1>2
    <2>3. \A i \in DOMAIN t : t[i] = s[f[i]]
      BY <1>2, <1>6
    <2>4. QED
      BY <2>1, <2>2, <2>3 DEF Drawn
  <1>8. QED
    BY <1>2, <1>3, <1>4, <1>5, <1>6, <1>7 DEF s, t, p

LEMMA ClusterChanged ==
    ASSUME NEW no \in Seq(Note), NEW wa \in Seq(Some), NEW ca \in Some, NEW cl \in Some,
           NEW obj \in Some, NEW wa2 \in Seq(Some),
           \/ wa2 = wa
           \/ /\ Len(wa2) = Len(wa) + 1 /\ wa2[Len(wa) + 1] = obj
              /\ \A i \in 1..Len(wa) : wa2[i] = wa[i]
    PROVE  Drawn(ChainOf(no, wa2, ca, obj),
                 Extend(ChainOf(no, wa, ca, cl), Len(no) + Len(wa) + 2, obj))
  <1>1. Len(no) \in Nat /\ Len(wa) \in Nat /\ Len(wa2) \in Nat
    OBVIOUS
  <1> DEFINE c == ChainOf(no, wa, ca, cl)
             p == Len(no) + Len(wa) + 2
             s == Extend(c, p, obj)
             t == ChainOf(no, wa2, ca, obj)
             q == Len(no) + Len(wa2) + 2
             f == [i \in 1..q |-> IF i < p THEN i ELSE p + 1]
  <1>2. /\ DOMAIN s = 1..(p + 1) /\ p \in Nat /\ s[p + 1] = obj
        /\ \A i \in 1..p : s[i] = c[i]
    BY <1>1 DEF Extend
  <1>3. DOMAIN t = 1..q /\ q \in Nat /\ q \in {p, p + 1}
    BY <1>1 DEF ChainOf
  <1>4. ASSUME NEW i \in 1..q, i < p PROVE t[i] = c[i]
    <2>1. CASE i <= Len(no) + 1
      BY <2>1, <1>1, <1>4 DEF ChainOf
    <2>2. CASE i > Len(no) + 1
      <3>1. i - Len(no) - 1 \in 1..Len(wa)
        BY <2>2, <1>1, <1>4
      <3>2. c[i] = wa[i - Len(no) - 1]
        BY <2>2, <1>1, <1>4 DEF ChainOf
      <3>3. t[i] = wa2[i - Len(no) - 1]
        BY <2>2, <1>1, <1>4 DEF ChainOf
      <3>4. QED
        BY <3>1, <3>2, <3>3
    <2>3. QED
      BY <2>1, <2>2, <1>1
  <1>5. \A i \in 1..q : i >= p => t[i] = obj
    <2>1. t[q] = obj
      BY ChainOfFacts DEF Shape
    <2>2. CASE wa2 = wa
      <3>1. q = p
        BY <2>2
      <3> HIDE DEF t, p, q
      <3>2. QED
        BY <1>2, <1>3, <2>1, <3>1
    <2>3. CASE wa2 # wa
      <3>1. /\ Len(wa2) = Len(wa) + 1 /\ wa2[Len(wa) + 1] = obj
            /\ Len(wa) + 1 \in 1..Len(wa2)
        BY <2>3, <1>1
      <3>2. \A l \in 1..Len(wa2) : t[Len(no) + 1 + l] = wa2[l]
        BY ChainOfWatch
      <3>3. p = Len(no) + 1 + (Len(wa) + 1) /\ q = p + 1
        BY <3>1, <1>1
      <3> HIDE DEF t, p, q
      <3>4. t[p] = obj
        BY <3>1, <3>2, <3>3
      <3>5. QED
        BY <1>2, <1>3, <2>1, <3>3, <3>4
    <2>4. QED
      BY <2>2, <2>3
  <1> HIDE DEF s, t, c, p, q
  <1>6. f \in [DOMAIN t -> DOMAIN s]
    BY <1>2, <1>3
  <1>7. \A i, j \in DOMAIN t : i <= j => f[i] <= f[j]
    BY <1>2, <1>3
  <1>8. \A i \in DOMAIN t : t[i] = s[f[i]]
    BY <1>2, <1>3, <1>4, <1>5
  <1>9. Drawn(t, s)
    BY <1>6, <1>7, <1>8 DEF Drawn
  <1>10. QED
    BY <1>9 DEF s, t, c, p
-----------------------------------------------------------------------------
(* The basic invariant *)

LEMMA NextCases ==
    ASSUME Base, [Next]_vars
    PROVE  \/ \E k \in Kind : \E obj \in Some : Change(k, obj) /\ NewState(k, obj)
           \/ \E k \in Kind : Inform(k)
           \/ \E k \in Kind : Handle(k)
           \/ Receive \/ EventApplied \/ EventFails
           \/ ListKind \/ BuildPayload
           \/ SnapshotApplied \/ SnapshotAbandoned \/ SnapshotRecorded
           \/ Restart \/ UNCHANGED vars
  <1>1. ASSUME NEW k \in Kind, Cluster(k)
        PROVE  \E obj \in Some : Change(k, obj) /\ NewState(k, obj)
    <2>1. cluster[k] \in Some /\ version \in Nat /\ MaxChanges \in Nat
      BY SyncAssumption DEF Base, TypeOK, Some
    <2>2. CASE Create(k)
      <3> DEFINE obj == [uid |-> version + 1, version |-> version + 1]
      <3>1. Change(k, obj) /\ version < MaxChanges
        BY <2>2 DEF Create, Change
      <3>2. obj \in Some
        BY <3>1, <2>1 DEF Some, Object, UID
      <3>3. NewState(k, obj)
        BY DEF NewState
      <3>4. QED
        BY <3>1, <3>2, <3>3
    <2>3. CASE Modify(k)
      <3> DEFINE obj == [cluster[k] EXCEPT !.version = version + 1]
      <3>1. Change(k, obj) /\ version < MaxChanges /\ cluster[k] # NoObject
        BY <2>3 DEF Modify, Change
      <3>2. cluster[k] \in Object
        BY <2>1, <3>1 DEF Some
      <3>3. obj \in Object /\ obj.version = version + 1 /\ obj.uid = cluster[k].uid
        BY <3>1, <3>2, <2>1 DEF Object, UID
      <3>4. NewState(k, obj)
        BY <3>1, <3>3 DEF NewState, Same
      <3>5. QED
        BY <3>1, <3>3, <3>4 DEF Some
    <2>4. CASE Delete(k)
      BY <2>4 DEF Delete, NewState, Some
    <2>5. QED
      BY <1>1, <2>2, <2>3, <2>4 DEF Cluster
  <1>2. QED
    BY <1>1 DEF Next, Informer, Inform, Processor, Reconcile

LEMMA BaseInit == Init => Base
  <1> SUFFICES ASSUME Init PROVE Base
    OBVIOUS
  <1>1. TypeOK
    <2>1. Len(<< >>) = 0 /\ 0 <= BufferSize /\ 0 \in 0..MaxChanges /\ 0 \in 0..MaxFaults
          /\ 0 \in 0..NumKinds
      BY SyncAssumption
    <2>2. snapshot \in [phase : {"none", "listing", "sending", "accepted"},
                        upto : 0..NumKinds, objects : SUBSET Object]
      BY <2>1 DEF Init, NoSnapshot
    <2>3. /\ watch \in [Kind -> Seq(Object \cup {NoObject})]
          /\ notes \in [Kind -> Seq(Note)]
          /\ eventChan \in Seq(Event)
      BY DEF Init
    <2>4. cluster \in [Kind -> Object \cup {NoObject}] /\ cache \in [Kind -> Object \cup {NoObject}]
      BY DEF Init
    <2>5. hand \in Event \cup {NoEvent} /\ Len(eventChan) <= BufferSize
      BY <2>1 DEF Init
    <2>6. QED
      BY <2>1, <2>2, <2>3, <2>4, <2>5 DEF Init, TypeOK
  <1>2. NoteInv
    BY DEF Init, NoteInv
  <1>3. UnlistedInv /\ PhaseInv
    BY DEF Init, UnlistedInv, PhaseInv, NoSnapshot
  <1>4. QED
    BY <1>1, <1>2, <1>3 DEF Base

\* A notification gives rise to an event about one of its two states.
LEMMA EventTyped ==
    ASSUME NEW n \in Note, WellFormed(n), NEW e \in EventsOf(n)
    PROVE  /\ e \in Event
           /\ \/ e.type = "added" /\ n.type = "added" /\ e.obj = n.new
              \/ e.type = "modified" /\ n.type = "modified" /\ e.obj = n.new
                 /\ n.old.version # n.new.version
              \/ e.type = "deleted" /\ n.type = "deleted" /\ e.obj = n.old
  <1>1. n.type \in EventType
    BY DEF Note
  <1>2. CASE n.type = "added"
    <2>1. e = [type |-> "added", obj |-> n.new]
      BY <1>2 DEF EventsOf
    <2>2. n.new \in Object
      BY <1>2 DEF WellFormed, Note
    <2>3. QED
      BY <2>1, <2>2, <1>2 DEF Event, EventType
  <1>3. CASE n.type = "modified"
    <2>1. e = [type |-> "modified", obj |-> n.new] /\ n.old.version # n.new.version
      BY <1>3 DEF EventsOf, SameVersion
    <2>2. n.new \in Object
      BY <1>3 DEF WellFormed, Note
    <2>3. QED
      BY <2>1, <2>2, <1>3 DEF Event, EventType
  <1>4. CASE n.type = "deleted"
    <2>1. e = [type |-> "deleted", obj |-> n.old]
      BY <1>4 DEF EventsOf
    <2>2. n.old \in Object
      BY <1>4 DEF WellFormed, Note
    <2>3. QED
      BY <2>1, <2>2, <1>4 DEF Event, EventType
  <1>5. QED
    BY <1>1, <1>2, <1>3, <1>4 DEF EventType

LEMMA UidsTyped ==
    ASSUME NEW x \in Some, NEW y \in Some
    PROVE  Uids({x, y}) \subseteq UID /\ Uids({x}) \subseteq UID
  BY DEF Uids, Some, Object

LEMMA BaseChange ==
    ASSUME Base, NEW k \in Kind, NEW obj \in Some, Change(k, obj)
    PROVE  Base'
  <1> USE DEF Change
  <1>1. /\ cluster' = [cluster EXCEPT ![k] = obj] /\ version' = version + 1
        /\ version < MaxChanges
        /\ UNCHANGED <<listed, cache, notes, eventChan, hand, snapshot, recorded, view,
                       faults, changed, buried>>
    BY DEF senderVars
  <1>2. watch' \in [Kind -> Seq(Some)]
    <2>1. watch[k] \in Seq(Some) /\ watch \in [Kind -> Seq(Some)]
      BY DEF Base, TypeOK, Some
    <2>2. Append(watch[k], obj) \in Seq(Some)
      BY <2>1
    <2>3. QED
      BY <2>1, <2>2
  <1>3. missed' \subseteq UID
    <2>1. cluster[k] \in Some /\ missed \subseteq UID
      BY DEF Base, TypeOK, Some
    <2>2. Uids({cluster[k]}) \subseteq UID
      BY <2>1, UidsTyped
    <2>3. QED
      BY <2>1, <2>2
  <1>4. cluster' \in [Kind -> Some] /\ version' \in 0..MaxChanges
    BY <1>1, SyncAssumption DEF Base, TypeOK, Some
  <1> USE DEF Change
  <1>5. TypeOK'
    BY <1>1, <1>2, <1>3, <1>4 DEF Base, TypeOK, Some
  <1>6. NoteInv'
    BY <1>1 DEF Base, NoteInv
  <1>7. \A l \in Kind \ listed : watch'[l] = watch[l]
    BY DEF Base, TypeOK
  <1>8. UnlistedInv'
    BY <1>1, <1>7 DEF Base, UnlistedInv
  <1>9. PhaseInv'
    BY <1>1 DEF Base, PhaseInv, NoSnapshot
  <1>10. QED
    BY <1>5, <1>6, <1>8, <1>9 DEF Base

LEMMA NotesKept ==
    ASSUME Base, NEW k \in Kind, NEW obj \in Some,
           Silent(k, obj) \/ \E n \in Note : Notifies(k, obj, n)
    PROVE  /\ NoteInv' /\ notes' \in [Kind -> Seq(Note)] /\ cache' \in [Kind -> Some]
           /\ \A l \in Kind \ {k} : notes'[l] = notes[l] /\ cache'[l] = cache[l]
  <1>1. notes \in [Kind -> Seq(Note)] /\ cache \in [Kind -> Some]
    BY DEF Base, TypeOK, Some
  <1>2. CASE Silent(k, obj)
    BY <1>1, <1>2 DEF Silent, Base, NoteInv
  <1>3. CASE \E n \in Note : Notifies(k, obj, n)
    <2>1. PICK n \in Note : Notifies(k, obj, n)
      BY <1>3
    <2>2. notes[k] \in Seq(Note)
      BY <1>1
    <2>3. /\ Append(notes[k], n) \in Seq(Note)
          /\ Len(Append(notes[k], n)) = Len(notes[k]) + 1
          /\ \A i \in 1..Len(notes[k]) : Append(notes[k], n)[i] = notes[k][i]
          /\ Append(notes[k], n)[Len(notes[k]) + 1] = n
      BY <2>2, AppendProperties
    <2>4. /\ notes'[k] = Append(notes[k], n) /\ cache'[k] = obj
          /\ \A l \in Kind \ {k} : notes'[l] = notes[l] /\ cache'[l] = cache[l]
      BY <1>1, <2>1 DEF Notifies
    <2>5. notes' \in [Kind -> Seq(Note)] /\ cache' \in [Kind -> Some]
      BY <1>1, <2>1, <2>3 DEF Notifies
    <2>6. WellFormed(n) /\ n.old = cache[k] /\ n.new = obj
      BY <2>1 DEF Notifies
    <2>7. ASSUME NEW i \in 1..(Len(notes[k]) + 1)
          PROVE  /\ WellFormed(notes'[k][i])
                 /\ notes'[k][i].new = IF i = Len(notes[k]) + 1 THEN cache'[k]
                                       ELSE notes'[k][i + 1].old
      <3>1. Len(notes[k]) \in Nat
        BY <2>2
      <3>2. CASE i = Len(notes[k]) + 1
        BY <3>2, <2>3, <2>4, <2>6
      <3>3. CASE i = Len(notes[k])
        <4>1. i \in 1..Len(notes[k]) /\ i # Len(notes[k]) + 1
          BY <3>1, <3>3
        <4>2. WellFormed(notes[k][i]) /\ notes[k][i].new = cache[k]
          BY <4>1, <3>3 DEF Base, NoteInv
        <4>3. notes'[k][i] = notes[k][i] /\ notes'[k][i + 1] = n
          BY <4>1, <3>3, <2>3, <2>4
        <4>4. QED
          BY <4>1, <4>2, <4>3, <2>6
      <3>4. CASE i < Len(notes[k])
        <4>1. i \in 1..Len(notes[k]) /\ i + 1 \in 1..Len(notes[k]) /\ i # Len(notes[k])
              /\ i # Len(notes[k]) + 1
          BY <3>1, <3>4
        <4>2. WellFormed(notes[k][i]) /\ notes[k][i].new = notes[k][i + 1].old
          BY <4>1 DEF Base, NoteInv
        <4>3. notes'[k][i] = notes[k][i] /\ notes'[k][i + 1] = notes[k][i + 1]
          BY <4>1, <2>3, <2>4
        <4>4. QED
          BY <4>1, <4>2, <4>3
      <3>5. QED
        BY <3>1, <3>2, <3>3, <3>4
    <2>8. NoteInv'
      <3>1. Len(notes'[k]) = Len(notes[k]) + 1
        BY <2>3, <2>4
      <3>2. ASSUME NEW l \in Kind, NEW i \in 1..Len(notes'[l])
            PROVE  /\ WellFormed(notes'[l][i])
                   /\ notes'[l][i].new = IF i = Len(notes'[l]) THEN cache'[l]
                                         ELSE notes'[l][i + 1].old
        <4>1. CASE l = k
          BY <4>1, <3>1, <2>7
        <4>2. CASE l # k
          <5>1. notes'[l] = notes[l] /\ cache'[l] = cache[l]
            BY <4>2, <2>4
          <5>2. i \in 1..Len(notes[l])
            BY <5>1
          <5>3. /\ WellFormed(notes[l][i])
                /\ notes[l][i].new = IF i = Len(notes[l]) THEN cache[l] ELSE notes[l][i + 1].old
            BY <5>2 DEF Base, NoteInv
          <5>4. QED
            BY <5>1, <5>3
        <4>3. QED
          BY <4>1, <4>2
      <3>3. QED
        BY <3>2 DEF NoteInv
    <2>9. QED
      BY <2>4, <2>5, <2>8
  <1>4. QED
    BY <1>2, <1>3

LEMMA BaseInform ==
    ASSUME Base, NEW k \in Kind, Inform(k)
    PROVE  Base'
  <1>1. PICK obj \in Some, relist \in BOOLEAN :
               /\ UpdateCache(k, obj, relist)
               /\ \/ Watch(k) /\ watch[k] # << >> /\ obj = Head(watch[k])
                     /\ watch' = [watch EXCEPT ![k] = Tail(@)] /\ listed' = listed
                  \/ obj = cluster[k] /\ watch' = [watch EXCEPT ![k] = << >>]
                     /\ listed' = listed \cup {k}
               /\ UNCHANGED <<clusterVars, eventChan, hand, senderVars, view, buried, missed>>
    BY InformEffect
  <1>2. Silent(k, obj) \/ \E n \in Note : Notifies(k, obj, n)
    BY <1>1, CacheEffect
  <1>3. /\ NoteInv' /\ notes' \in [Kind -> Seq(Note)] /\ cache' \in [Kind -> Some]
        /\ \A l \in Kind \ {k} : notes'[l] = notes[l] /\ cache'[l] = cache[l]
    BY <1>2, NotesKept
  <1>4. watch \in [Kind -> Seq(Some)] /\ watch[k] \in Seq(Some) /\ cache[k] \in Some
    BY DEF Base, TypeOK, Some
  <1>5. /\ watch' \in [Kind -> Seq(Some)]
        /\ \A l \in Kind \ {k} : watch'[l] = watch[l]
    <2>1. watch[k] # << >> => Tail(watch[k]) \in Seq(Some)
      BY <1>4
    <2>2. << >> \in Seq(Some)
      OBVIOUS
    <2>3. QED
      BY <1>1, <1>4, <2>1, <2>2
  <1>6. listed' \subseteq Kind /\ listed \subseteq listed'
    BY <1>1 DEF Base, TypeOK
  <1>7. k \in listed'
    <2>1. CASE watch[k] # << >>
      BY <2>1, <1>1 DEF Base, UnlistedInv
    <2>2. CASE listed' = listed \cup {k}
      BY <2>2
    <2>3. QED
      BY <1>1, <2>1, <2>2
  <1>8. changed' \subseteq UID
    <2>1. Uids({cache[k], obj}) \subseteq UID
      BY <1>4, UidsTyped
    <2>2. changed \subseteq UID
      BY DEF Base, TypeOK
    <2>3. QED
      BY <1>1, <2>1, <2>2 DEF UpdateCache
  <1>9. faults' \in 0..MaxFaults
    <2>1. faults' = faults \/ (faults' = faults + 1 /\ faults < MaxFaults)
      BY DEF Inform, List, Watch, Relist
    <2>2. QED
      BY <2>1, SyncAssumption DEF Base, TypeOK
  <1>10. TypeOK'
    BY <1>1, <1>3, <1>5, <1>6, <1>8, <1>9
       DEF Base, TypeOK, Some, clusterVars, senderVars
  <1>11. UnlistedInv'
    BY <1>3, <1>5, <1>6, <1>7 DEF Base, UnlistedInv
  <1>12. PhaseInv'
    BY <1>1 DEF Base, PhaseInv, NoSnapshot, senderVars
  <1>13. QED
    BY <1>3, <1>10, <1>11, <1>12 DEF Base

\* Handle takes the first notification n.
LEMMA HandleFacts ==
    ASSUME Base, NEW k \in Kind, Handle(k)
    PROVE  LET n == notes[k][1] IN
           /\ n \in Note /\ WellFormed(n) /\ n = Head(notes[k])
           /\ notes[k] \in Seq(Note) /\ Len(notes[k]) \in Nat /\ Len(notes[k]) >= 1
           /\ notes' = [notes EXCEPT ![k] = Tail(notes[k])]
           /\ notes' \in [Kind -> Seq(Note)]
           /\ notes'[k] \in Seq(Note) /\ Len(notes'[k]) = Len(notes[k]) - 1
           /\ \A i \in 1..(Len(notes[k]) - 1) : notes'[k][i] = notes[k][i + 1]
           /\ n.new = IF Len(notes[k]) = 1 THEN cache[k] ELSE notes[k][2].old
           /\ \A l \in Kind \ {k} : notes'[l] = notes[l]
           /\ UNCHANGED <<cluster, version, watch, listed, cache, hand, snapshot, recorded,
                          view, faults, changed, buried>>
           /\ \/ EventsOf(n) = {} /\ UNCHANGED <<eventChan, missed>>
              \/ \E e \in EventsOf(n) :
                   \/ /\ Len(eventChan) < BufferSize
                      /\ eventChan' = Append(eventChan, e)
                      /\ missed' = (missed \ {e.obj.uid}) \cup Replaced(n)
                   \/ /\ missed' = missed \cup {e.obj.uid} \cup Replaced(n)
                      /\ UNCHANGED eventChan
  <1>1. notes \in [Kind -> Seq(Note)] /\ notes[k] \in Seq(Note) /\ notes[k] # << >>
    BY DEF Base, TypeOK, Handle
  <1>2. /\ Tail(notes[k]) \in Seq(Note) /\ Len(notes[k]) \in Nat /\ Len(notes[k]) >= 1
        /\ Len(Tail(notes[k])) = Len(notes[k]) - 1
        /\ \A i \in 1..(Len(notes[k]) - 1) : Tail(notes[k])[i] = notes[k][i + 1]
        /\ Head(notes[k]) = notes[k][1] /\ notes[k][1] \in Note
    BY <1>1, TailFacts
  <1>3. notes' = [notes EXCEPT ![k] = Tail(notes[k])]
    BY <1>1 DEF Handle
  <1>4. /\ notes'[k] = Tail(notes[k]) /\ \A l \in Kind \ {k} : notes'[l] = notes[l]
        /\ notes' \in [Kind -> Seq(Note)]
    BY <1>1, <1>2, <1>3
  <1>5. /\ WellFormed(notes[k][1])
        /\ notes[k][1].new = IF Len(notes[k]) = 1 THEN cache[k] ELSE notes[k][2].old
    <2>1. 1 \in 1..Len(notes[k]) /\ 1 + 1 = 2
      BY <1>2
    <2>2. /\ WellFormed(notes[k][1])
          /\ notes[k][1].new = IF 1 = Len(notes[k]) THEN cache[k] ELSE notes[k][1 + 1].old
      BY <2>1 DEF Base, NoteInv
    <2>3. QED
      BY <2>1, <2>2
  <1>6. UNCHANGED <<cluster, version, watch, listed, cache, hand, snapshot, recorded,
                    view, faults, changed, buried>>
    BY DEF Handle, clusterVars, informerVars, senderVars
  <1>7. \/ EventsOf(notes[k][1]) = {} /\ UNCHANGED <<eventChan, missed>>
        \/ \E e \in EventsOf(notes[k][1]) :
             \/ /\ Len(eventChan) < BufferSize
                /\ eventChan' = Append(eventChan, e)
                /\ missed' = (missed \ {e.obj.uid}) \cup Replaced(notes[k][1])
             \/ /\ missed' = missed \cup {e.obj.uid} \cup Replaced(notes[k][1])
                /\ UNCHANGED eventChan
    BY <1>2 DEF Handle, HasRoom
  <1>8. QED
    BY <1>1, <1>2, <1>3, <1>4, <1>5, <1>6, <1>7

LEMMA ReplacedTyped ==
    ASSUME NEW n \in Note, WellFormed(n)
    PROVE  Replaced(n) \subseteq UID
  <1>1. n.old \in Some
    BY DEF Note, Some
  <1>2. QED
    BY <1>1, UidsTyped DEF Replaced

LEMMA BaseHandle ==
    ASSUME Base, NEW k \in Kind, Handle(k)
    PROVE  Base'
  <1> DEFINE n == notes[k][1]
  <1>1. /\ n \in Note /\ WellFormed(n)
        /\ notes[k] \in Seq(Note) /\ Len(notes[k]) \in Nat /\ Len(notes[k]) >= 1
        /\ notes' \in [Kind -> Seq(Note)]
        /\ Len(notes'[k]) = Len(notes[k]) - 1
        /\ \A i \in 1..(Len(notes[k]) - 1) : notes'[k][i] = notes[k][i + 1]
        /\ \A l \in Kind \ {k} : notes'[l] = notes[l]
        /\ UNCHANGED <<cluster, version, watch, listed, cache, hand, snapshot, recorded,
                       view, faults, changed, buried>>
    BY HandleFacts
  <1>2. \/ EventsOf(n) = {} /\ UNCHANGED <<eventChan, missed>>
        \/ \E e \in EventsOf(n) :
             \/ /\ Len(eventChan) < BufferSize
                /\ eventChan' = Append(eventChan, e)
                /\ missed' = (missed \ {e.obj.uid}) \cup Replaced(n)
             \/ /\ missed' = missed \cup {e.obj.uid} \cup Replaced(n)
                /\ UNCHANGED eventChan
    BY HandleFacts
  <1> HIDE DEF n
  <1>3. /\ eventChan' \in Seq(Event) /\ Len(eventChan') <= BufferSize
        /\ missed' \subseteq UID
    <2>1. /\ eventChan \in Seq(Event) /\ Len(eventChan) <= BufferSize /\ missed \subseteq UID
          /\ BufferSize \in Nat
      BY SyncAssumption DEF Base, TypeOK
    <2>2. CASE EventsOf(n) = {} /\ UNCHANGED <<eventChan, missed>>
      BY <2>1, <2>2
    <2>3. CASE EventsOf(n) # {}
      <3>1. PICK e \in EventsOf(n) :
                 \/ /\ Len(eventChan) < BufferSize
                    /\ eventChan' = Append(eventChan, e)
                    /\ missed' = (missed \ {e.obj.uid}) \cup Replaced(n)
                 \/ /\ missed' = missed \cup {e.obj.uid} \cup Replaced(n)
                    /\ UNCHANGED eventChan
        BY <1>2, <2>3
      <3>2. e \in Event
        BY <1>1, EventTyped
      <3>3. e.obj.uid \in UID
        BY <3>2 DEF Event, Object
      <3>4. Replaced(n) \subseteq UID
        BY <1>1, ReplacedTyped
      <3>5. Append(eventChan, e) \in Seq(Event) /\ Len(Append(eventChan, e)) = Len(eventChan) + 1
            /\ Len(eventChan) \in Nat
        BY <2>1, <3>2, AppendProperties
      <3>6. Len(eventChan') <= BufferSize
        <4>1. CASE eventChan' = eventChan
          BY <4>1, <2>1
        <4>2. CASE Len(eventChan) < BufferSize /\ eventChan' = Append(eventChan, e)
          BY <4>2, <3>5, <2>1
        <4>3. QED
          BY <3>1, <4>1, <4>2
      <3>7. QED
        BY <2>1, <3>1, <3>3, <3>4, <3>5, <3>6
    <2>4. QED
      BY <1>2, <2>2, <2>3
  <1>4. TypeOK'
    BY <1>1, <1>3 DEF Base, TypeOK
  <1>5. NoteInv'
    <2>1. SUFFICES ASSUME NEW l \in Kind, NEW i \in 1..Len(notes'[l])
                   PROVE  /\ WellFormed(notes'[l][i])
                          /\ notes'[l][i].new = IF i = Len(notes'[l]) THEN cache[l]
                                                ELSE notes'[l][i + 1].old
      BY <1>1 DEF NoteInv
    <2>2. CASE l # k
      <3>1. notes'[l] = notes[l]
        BY <2>2, <1>1
      <3>2. i \in 1..Len(notes[l])
        BY <3>1
      <3>3. /\ WellFormed(notes[l][i])
            /\ notes[l][i].new = IF i = Len(notes[l]) THEN cache[l] ELSE notes[l][i + 1].old
        BY <3>2 DEF Base, NoteInv
      <3>4. QED
        BY <3>1, <3>3
    <2>3. CASE l = k
      <3>1. /\ i \in 1..(Len(notes[k]) - 1) /\ i + 1 \in 1..Len(notes[k])
            /\ i = Len(notes'[k]) <=> i + 1 = Len(notes[k])
            /\ i # Len(notes'[k]) => i + 1 \in 1..(Len(notes[k]) - 1)
        BY <2>1, <2>3, <1>1
      <3>2. /\ WellFormed(notes[k][i + 1])
            /\ notes[k][i + 1].new = IF i + 1 = Len(notes[k]) THEN cache[k]
                                     ELSE notes[k][(i + 1) + 1].old
        BY <3>1 DEF Base, NoteInv
      <3>3. notes'[k][i] = notes[k][i + 1]
        BY <3>1, <1>1
      <3>4. i # Len(notes'[k]) => notes'[k][i + 1] = notes[k][(i + 1) + 1]
        BY <3>1, <1>1
      <3>5. QED
        BY <2>3, <3>1, <3>2, <3>3, <3>4
    <2>4. QED
      BY <2>2, <2>3
  <1>6. UnlistedInv'
    <2>1. k \in listed
      <3>1. notes[k] # << >>
        BY DEF Handle
      <3>2. QED
        BY <3>1 DEF Base, UnlistedInv
    <2>2. QED
      BY <1>1, <2>1 DEF Base, UnlistedInv
  <1>7. PhaseInv'
    BY <1>1 DEF Base, PhaseInv, NoSnapshot
  <1>8. QED
    BY <1>4, <1>5, <1>6, <1>7 DEF Base

\* The steps that only send, and those of the snapshot.
Sends == Receive \/ EventApplied \/ EventFails
Snaps == ListKind \/ BuildPayload \/ SnapshotApplied \/ SnapshotAbandoned \/ SnapshotRecorded

LEMMA PathKept ==
    ASSUME Sends \/ Snaps \/ UNCHANGED vars
    PROVE  UNCHANGED <<cluster, version, watch, listed, cache, notes, faults>>
  BY DEF Sends, Snaps, Receive, EventApplied, EventFails, ListKind, BuildPayload,
         SnapshotApplied, SnapshotAbandoned, SnapshotRecorded, vars, clusterVars, informerVars

LEMMA BaseSends ==
    ASSUME Base, Sends
    PROVE  Base'
  <1>1. UNCHANGED <<cluster, version, watch, listed, cache, notes, faults>>
    BY PathKept
  <1>2. UNCHANGED <<snapshot, recorded, changed>>
    BY DEF Sends, Receive, EventApplied, EventFails, senderVars
  <1>3. /\ eventChan \in Seq(Event) /\ Len(eventChan) <= BufferSize /\ hand \in Event \cup {NoEvent}
        /\ view \subseteq Object /\ buried \subseteq UID /\ missed \subseteq UID /\ BufferSize \in Nat
    BY SyncAssumption DEF Base, TypeOK
  <1>4. CASE Receive
    <2>1. /\ Tail(eventChan) \in Seq(Event) /\ Head(eventChan) \in Event
          /\ Len(Tail(eventChan)) = Len(eventChan) - 1 /\ Len(eventChan) \in Nat
      BY <1>3, <1>4, TailFacts DEF Receive
    <2>2. Len(Tail(eventChan)) <= BufferSize
      BY <2>1, <1>3
    <2>3. TypeOK'
      BY <1>1, <1>2, <1>4, <2>1, <2>2 DEF Base, TypeOK, Receive
    <2>4. QED
      BY <1>1, <1>2, <2>3 DEF Base, NoteInv, UnlistedInv, PhaseInv, NoSnapshot
  <1>5. CASE EventApplied
    <2>1. hand \in Event /\ hand.obj \in Object /\ hand.obj.uid \in UID
      BY <1>3, <1>5 DEF EventApplied, Event, Object
    <2>2. view' \subseteq Object
      BY <2>1, <1>3, <1>5 DEF EventApplied, Applied
    <2>3. buried' \subseteq UID /\ hand' \in Event \cup {NoEvent}
      BY <2>1, <1>3, <1>5 DEF EventApplied
    <2>4. TypeOK'
      BY <1>1, <1>2, <1>5, <2>2, <2>3 DEF Base, TypeOK, EventApplied
    <2>5. QED
      BY <1>1, <1>2, <2>4 DEF Base, NoteInv, UnlistedInv, PhaseInv, NoSnapshot
  <1>6. CASE EventFails
    <2>1. hand \in Event /\ hand.obj \in Object /\ hand.obj.uid \in UID
      BY <1>3, <1>6 DEF EventFails, Event, Object
    <2>2. missed' \subseteq UID
      BY <2>1, <1>3, <1>6 DEF EventFails
    <2>3. TypeOK'
      BY <1>1, <1>2, <1>6, <2>2 DEF Base, TypeOK, EventFails
    <2>4. QED
      BY <1>1, <1>2, <2>3 DEF Base, NoteInv, UnlistedInv, PhaseInv, NoSnapshot
  <1>7. QED
    BY <1>4, <1>5, <1>6 DEF Sends

LEMMA BaseSnaps ==
    ASSUME Base, Snaps
    PROVE  Base'
  <1>1. UNCHANGED <<cluster, version, watch, listed, cache, notes, faults>>
    BY PathKept
  <1>2. UNCHANGED <<eventChan, hand, buried>>
    BY DEF Snaps, ListKind, BuildPayload, SnapshotApplied, SnapshotAbandoned, SnapshotRecorded
  <1> DEFINE Snapshots == [phase : {"none", "listing", "sending", "accepted"},
                           upto : 0..NumKinds, objects : SUBSET Object]
  <1>3. snapshot \in Snapshots /\ view \subseteq Object /\ changed \subseteq UID /\ missed \subseteq UID
    BY DEF Base, TypeOK
  <1>4. NoSnapshot \in Snapshots
    BY SyncAssumption DEF NoSnapshot
  <1>5. snapshot' \in Snapshots /\ PhaseInv' /\ recorded' \in BOOLEAN
    <2>1. CASE ListKind
      <3> DEFINE k == snapshot.upto + 1
      <3>1. snapshot.upto < NumKinds
        <4>1. snapshot.phase = "none" => snapshot.upto = 0
          BY DEF Base, PhaseInv, NoSnapshot
        <4>2. QED
          BY <2>1, <4>1, <1>3, SyncAssumption DEF ListKind, LastKind
      <3>2. k \in Kind /\ k \in 0..NumKinds
        BY <3>1, <1>3, SyncAssumption DEF Kind
      <3>3. cache[k] \in Some
        BY <3>2 DEF Base, TypeOK, Some
      <3>4. snapshot' = [phase |-> "listing", upto |-> k,
                         objects |-> snapshot.objects \cup ({cache[k]} \ {NoObject})]
        BY <2>1 DEF ListKind
      <3>5. snapshot' \in Snapshots
        BY <3>2, <3>3, <3>4, <1>3 DEF Some
      <3>6. QED
        BY <2>1, <3>4, <3>5 DEF PhaseInv, ListKind, Base, TypeOK
    <2>2. CASE BuildPayload
      BY <2>2, <1>3 DEF BuildPayload, PhaseInv, LastKind, Base, TypeOK
    <2>3. CASE SnapshotApplied
      BY <2>3, <1>3 DEF SnapshotApplied, PhaseInv, senderVars, Base, TypeOK
    <2>4. CASE SnapshotAbandoned
      BY <2>4, <1>4 DEF SnapshotAbandoned, PhaseInv, Base, TypeOK, NoSnapshot
    <2>5. CASE SnapshotRecorded
      BY <2>5, <1>4 DEF SnapshotRecorded, PhaseInv, NoSnapshot
    <2>6. QED
      BY <2>1, <2>2, <2>3, <2>4, <2>5 DEF Snaps
  <1>6. view' \subseteq Object
    BY <1>3 DEF Snaps, ListKind, BuildPayload, SnapshotApplied, SnapshotAbandoned, SnapshotRecorded
  <1>7. changed' \subseteq UID /\ missed' \subseteq UID
    BY <1>3 DEF Snaps, ListKind, BuildPayload, SnapshotApplied, SnapshotAbandoned, SnapshotRecorded
  <1>8. TypeOK'
    BY <1>1, <1>2, <1>5, <1>6, <1>7 DEF Base, TypeOK
  <1>9. QED
    BY <1>1, <1>5, <1>8 DEF Base, NoteInv, UnlistedInv

LEMMA BaseRestart ==
    ASSUME Base, Restart
    PROVE  Base'
  <1>1. UNCHANGED <<cluster, version, recorded, view, buried>>
    BY DEF Restart, clusterVars
  <1>2. /\ watch' = [k \in Kind |-> << >>] /\ listed' = {}
        /\ cache' = [k \in Kind |-> NoObject] /\ notes' = [k \in Kind |-> << >>]
        /\ eventChan' = << >> /\ hand' = NoEvent /\ snapshot' = NoSnapshot /\ changed' = {}
    BY DEF Restart
  <1>3. missed' \subseteq UID
    BY DEF Restart
  <1>4. faults' \in 0..MaxFaults
    BY SyncAssumption DEF Restart, Base, TypeOK
  <1>5. Len(<< >>) = 0 /\ 0 <= BufferSize /\ 0 \in 0..NumKinds
    BY SyncAssumption
  <1>6. snapshot' \in [phase : {"none", "listing", "sending", "accepted"},
                       upto : 0..NumKinds, objects : SUBSET Object]
    BY <1>2, <1>5 DEF NoSnapshot
  <1>7. /\ watch' \in [Kind -> Seq(Object \cup {NoObject})]
        /\ notes' \in [Kind -> Seq(Note)] /\ eventChan' \in Seq(Event)
        /\ cache' \in [Kind -> Object \cup {NoObject}]
    BY <1>2
  <1>8. Len(eventChan') <= BufferSize /\ hand' \in Event \cup {NoEvent}
    BY <1>2, <1>5
  <1>9. TypeOK'
    BY <1>1, <1>2, <1>3, <1>4, <1>6, <1>7, <1>8 DEF Base, TypeOK
  <1>10. NoteInv'
    BY <1>2, <1>5 DEF NoteInv
  <1>11. UnlistedInv' /\ PhaseInv'
    BY <1>2 DEF UnlistedInv, PhaseInv, NoSnapshot
  <1>12. QED
    BY <1>9, <1>10, <1>11 DEF Base

LEMMA BaseInductive == Base /\ [Next]_vars => Base'
  <1> SUFFICES ASSUME Base, [Next]_vars PROVE Base'
    OBVIOUS
  <1>1. CASE UNCHANGED vars
    BY <1>1 DEF Base, TypeOK, NoteInv, UnlistedInv, PhaseInv, NoSnapshot, vars, clusterVars,
                informerVars, senderVars
  <1>2. QED
    BY <1>1, NextCases, BaseChange, BaseInform, BaseHandle, BaseSends, BaseSnaps, BaseRestart
       DEF Sends, Snaps

\* Every reachable state is well typed; the buffer keeps its bound, and a snapshot never
\* lists more kinds than there are.
THEOREM TypeCorrect == Spec => []TypeOK
  <1>1. Spec => []Base
    BY BaseInit, BaseInductive, PTL DEF Spec
  <1>2. Base => TypeOK
    BY DEF Base
  <1>3. QED
    BY <1>1, <1>2, PTL
-----------------------------------------------------------------------------
(* What steps do to chains *)

LEMMA DrawnSame ==
    ASSUME NEW s
    PROVE  Drawn(s, s)
  <1> DEFINE f == [i \in DOMAIN s |-> i]
  <1>1. f \in [DOMAIN s -> DOMAIN s]
    OBVIOUS
  <1>2. QED
    BY <1>1 DEF Drawn

LEMMA DrawnElems ==
    ASSUME NEW s, NEW t, Drawn(t, s)
    PROVE  ElemsOf(t) \subseteq ElemsOf(s)
  <1>1. PICK f \in [DOMAIN t -> DOMAIN s] : \A i \in DOMAIN t : t[i] = s[f[i]]
    BY DEF Drawn
  <1>2. ASSUME NEW i \in DOMAIN t PROVE t[i] \in ElemsOf(s)
    <2>1. f[i] \in DOMAIN s /\ t[i] = s[f[i]]
      BY <1>1
    <2>2. QED
      BY <2>1 DEF ElemsOf
  <1>3. QED
    BY <1>2 DEF ElemsOf

LEMMA PathTyped ==
    ASSUME Base, NEW k \in Kind
    PROVE  /\ notes[k] \in Seq(Note) /\ watch[k] \in Seq(Some)
           /\ cache[k] \in Some /\ cluster[k] \in Some
  BY DEF Base, TypeOK, Some

\* The states of kind k, wherever they are, belong to its chain.
LEMMA ChainHas ==
    ASSUME Base, NEW k \in Kind
    PROVE  /\ Elems(k) \subseteq Some
           /\ Seen(k) \in Elems(k) /\ cluster[k] \in Elems(k) /\ cache[k] \in Elems(k)
           /\ \A i \in 1..Len(notes[k]) :
                notes[k][i].new \in Elems(k) /\ notes[k][i].old \in Elems(k)
  <1> DEFINE s == Chain(k)
             n == Len(notes[k])
             m == Len(watch[k])
  <1>a. /\ notes[k] \in Seq(Note) /\ watch[k] \in Seq(Some)
        /\ cache[k] \in Some /\ cluster[k] \in Some
    BY PathTyped
  <1>b. Shape(s, n, m, notes[k], cache[k], cluster[k])
    BY <1>a, ChainOfFacts DEF Chain
  <1>2. /\ n # 0 => Seen(k) = notes[k][1].old
        /\ n = 0 => Seen(k) = cache[k]
    BY DEF Seen, SeenOf
  <1>n. n = Len(notes[k])
    OBVIOUS
  <1> HIDE DEF s, n, m
  <1>1. /\ n \in Nat /\ m \in Nat
        /\ DOMAIN s = 1..(n + m + 2)
        /\ s[1] = Seen(k) /\ s[n + m + 2] = cluster[k]
        /\ \A i \in 1..n : s[i + 1] = notes[k][i].new
        /\ \A i \in 1..(n + m + 2) : s[i] \in Some
    BY <1>b DEF Shape, Seen
  <1>3. \A i \in 1..(n + m + 2) : s[i] \in Elems(k)
    BY <1>1 DEF Elems, ElemsOf, s
  <1>4. Elems(k) \subseteq Some
    BY <1>1 DEF Elems, ElemsOf, s
  <1>5. Seen(k) \in Elems(k) /\ cluster[k] \in Elems(k)
    <2>1. 1 \in 1..(n + m + 2) /\ n + m + 2 \in 1..(n + m + 2)
      BY <1>1
    <2>2. QED
      BY <2>1, <1>1, <1>3
  <1>6. \A i \in 1..n : notes[k][i].new \in Elems(k)
    <2>1. \A i \in 1..n : i + 1 \in 1..(n + m + 2)
      BY <1>1
    <2>2. QED
      BY <2>1, <1>1, <1>3
  <1>7. ASSUME NEW i \in 1..n PROVE notes[k][i].old \in Elems(k)
    <2>1. CASE i = 1
      BY <2>1, <1>1, <1>2, <1>5
    <2>2. CASE i # 1
      <3>1. i - 1 \in 1..n /\ i - 1 # n /\ (i - 1) + 1 = i
        BY <2>2, <1>1
      <3>2. notes[k][i - 1].new = notes[k][i].old
        BY <3>1, <1>n DEF Base, NoteInv
      <3>3. QED
        BY <3>1, <3>2, <1>6
    <2>3. QED
      BY <2>1, <2>2
  <1>8. cache[k] \in Elems(k)
    <2>1. CASE n = 0
      BY <2>1, <1>2, <1>5
    <2>2. CASE n # 0
      <3>1. n \in 1..n
        BY <2>2, <1>1
      <3>2. notes[k][n].new = cache[k]
        BY <3>1, <1>n DEF Base, NoteInv
      <3>3. QED
        BY <3>1, <3>2, <1>6
    <2>3. QED
      BY <2>1, <2>2
  <1>9. QED
    BY <1>4, <1>5, <1>6, <1>7, <1>8, <1>n

LEMMA InformChain ==
    ASSUME Base, NEW k \in Kind, Inform(k), NEW l \in Kind
    PROVE  Seen(l)' = Seen(l) /\ Drawn(Chain(l)', Chain(l))
  <1>1. PICK obj \in Some, relist \in BOOLEAN :
               /\ UpdateCache(k, obj, relist)
               /\ \/ Watch(k) /\ watch[k] # << >> /\ obj = Head(watch[k])
                     /\ watch' = [watch EXCEPT ![k] = Tail(@)] /\ listed' = listed
                  \/ obj = cluster[k] /\ watch' = [watch EXCEPT ![k] = << >>]
                     /\ listed' = listed \cup {k}
               /\ UNCHANGED <<clusterVars, eventChan, hand, senderVars, view, buried, missed>>
    BY InformEffect
  <1>2. Silent(k, obj) \/ \E n \in Note : Notifies(k, obj, n)
    BY <1>1, CacheEffect
  <1>3. \A x \in Kind \ {k} : notes'[x] = notes[x] /\ cache'[x] = cache[x]
    BY <1>2, NotesKept
  <1>4. watch \in [Kind -> Seq(Some)] /\ notes \in [Kind -> Seq(Note)] /\ cache \in [Kind -> Some]
    BY DEF Base, TypeOK, Some
  <1>5. cluster' = cluster /\ \A x \in Kind \ {k} : watch'[x] = watch[x]
    BY <1>1, <1>4 DEF clusterVars
  <1>6. CASE l # k
    <2>1. Chain(l)' = Chain(l) /\ Seen(l)' = Seen(l)
      BY <1>3, <1>5, <1>6 DEF Chain, Seen
    <2>2. QED
      BY <2>1, DrawnSame
  <1>7. CASE l = k
    <2>1. /\ notes[k] \in Seq(Note) /\ watch[k] \in Seq(Some)
          /\ cache[k] \in Some /\ cluster[k] \in Some
      BY PathTyped
    <2>2. /\ Seen(k)' = SeenOf(notes'[k], cache'[k])
          /\ Chain(k)' = ChainOf(notes'[k], watch'[k], cache'[k], cluster[k])
      BY <1>5 DEF Chain, Seen
    <2>3. CASE watch[k] # << >> /\ obj = Head(watch[k]) /\ watch' = [watch EXCEPT ![k] = Tail(@)]
      <3>1. watch'[k] = Tail(watch[k])
        BY <2>3, <1>4
      <3>2. /\ watch'[k] \in Seq(Some) /\ Len(watch[k]) >= 1 /\ Len(watch'[k]) = Len(watch[k]) - 1
            /\ \A i \in 1..(Len(watch[k]) - 1) : watch'[k][i] = watch[k][i + 1]
            /\ obj = watch[k][1]
        BY <2>1, <2>3, <3>1, TailFacts
      <3>3. CASE Silent(k, obj)
        <4>1. notes' = notes /\ cache' = cache
          BY <3>3 DEF Silent
        <4>2. Drawn(ChainOf(notes[k], watch'[k], cache[k], cluster[k]), Chain(k))
          BY <2>1, <3>2, WatchSilent DEF Chain
        <4>3. QED
          BY <4>1, <4>2, <2>2, <1>7 DEF Seen
      <3>4. ASSUME NEW n \in Note, Notifies(k, obj, n)
            PROVE  Seen(k)' = Seen(k) /\ Drawn(Chain(k)', Chain(k))
        <4>1. notes'[k] = Append(notes[k], n) /\ cache'[k] = obj /\ n.old = cache[k] /\ n.new = obj
          BY <3>4, <1>4 DEF Notifies
        <4>2. /\ notes'[k] \in Seq(Note) /\ Len(notes'[k]) = Len(notes[k]) + 1
              /\ \A i \in 1..Len(notes[k]) : notes'[k][i] = notes[k][i]
              /\ notes'[k][Len(notes[k]) + 1] = n
          BY <4>1, <2>1, AppendProperties
        <4>3. n.old = cache[k] /\ watch[k][1] = n.new
          BY <4>1, <3>2
        <4>4. Pushed(notes'[k], notes[k], n) /\ Popped(watch'[k], watch[k], n.new)
          BY <3>2, <4>1, <4>2 DEF Pushed, Popped
        <4>5. /\ SeenOf(notes'[k], n.new) = SeenOf(notes[k], cache[k])
              /\ Drawn(ChainOf(notes'[k], watch'[k], n.new, cluster[k]),
                       ChainOf(notes[k], watch[k], cache[k], cluster[k]))
          BY <2>1, <3>2, <4>2, <4>3, <4>4, WatchNotified
        <4>6. QED
          BY <4>1, <4>5, <2>2 DEF Chain, Seen
      <3>5. QED
        BY <1>2, <1>7, <3>3, <3>4
    <2>4. CASE obj = cluster[k] /\ watch' = [watch EXCEPT ![k] = << >>]
      <3>1. watch'[k] = << >>
        BY <2>4, <1>4
      <3>2. CASE Silent(k, obj)
        <4>1. notes' = notes /\ cache' = cache
          BY <3>2 DEF Silent
        <4>2. Drawn(ChainOf(notes[k], << >>, cache[k], cluster[k]), Chain(k))
          BY <2>1, Listed DEF Chain
        <4>3. QED
          BY <4>1, <4>2, <3>1, <2>2, <1>7 DEF Seen
      <3>3. ASSUME NEW n \in Note, Notifies(k, obj, n)
            PROVE  Seen(k)' = Seen(k) /\ Drawn(Chain(k)', Chain(k))
        <4>1. notes'[k] = Append(notes[k], n) /\ cache'[k] = cluster[k] /\ n.old = cache[k]
              /\ n.new = cluster[k]
          BY <3>3, <2>4, <1>4 DEF Notifies
        <4>2. /\ notes'[k] \in Seq(Note) /\ Len(notes'[k]) = Len(notes[k]) + 1
              /\ \A i \in 1..Len(notes[k]) : notes'[k][i] = notes[k][i]
              /\ notes'[k][Len(notes[k]) + 1] = n
          BY <4>1, <2>1, AppendProperties
        <4>3. /\ SeenOf(notes'[k], cluster[k]) = SeenOf(notes[k], cache[k])
              /\ Drawn(ChainOf(notes'[k], << >>, cluster[k], cluster[k]),
                       ChainOf(notes[k], watch[k], cache[k], cluster[k]))
          BY <2>1, <4>1, <4>2, Listed
        <4>4. QED
          BY <4>1, <4>3, <3>1, <2>2 DEF Chain, Seen
      <3>4. QED
        BY <1>2, <1>7, <3>2, <3>3
    <2>5. QED
      BY <1>1, <2>3, <2>4
  <1>8. QED
    BY <1>6, <1>7

LEMMA HandleChain ==
    ASSUME Base, NEW k \in Kind, Handle(k)
    PROVE  LET n == notes[k][1] IN
           /\ \A l \in Kind \ {k} : Chain(l)' = Chain(l) /\ Seen(l)' = Seen(l)
           /\ Drawn(Chain(k)', Chain(k))
           /\ Seen(k)' = n.new /\ Seen(k) = n.old
           /\ 1 \in DOMAIN Chain(k) /\ 2 \in DOMAIN Chain(k)
           /\ Chain(k)[1] = n.old /\ Chain(k)[2] = n.new
           /\ \A x \in Elems(k)' : \E j \in DOMAIN Chain(k) : 2 <= j /\ x = Chain(k)[j]
  <1> DEFINE n == notes[k][1]
  <1>1. /\ notes[k] \in Seq(Note) /\ Len(notes[k]) \in Nat /\ Len(notes[k]) >= 1
        /\ notes'[k] \in Seq(Note) /\ Len(notes'[k]) = Len(notes[k]) - 1
        /\ \A i \in 1..(Len(notes[k]) - 1) : notes'[k][i] = notes[k][i + 1]
        /\ n.new = IF Len(notes[k]) = 1 THEN cache[k] ELSE notes[k][2].old
        /\ \A l \in Kind \ {k} : notes'[l] = notes[l]
        /\ UNCHANGED <<cluster, watch, cache>>
    BY HandleFacts
  <1>2. \A l \in Kind \ {k} : Chain(l)' = Chain(l) /\ Seen(l)' = Seen(l)
    BY <1>1 DEF Chain, Seen
  <1>3. watch[k] \in Seq(Some) /\ cache[k] \in Some /\ cluster[k] \in Some
    BY PathTyped
  <1> DEFINE s == Chain(k)
             t == ChainOf(notes'[k], watch[k], cache[k], cluster[k])
             p == Len(notes[k]) + Len(watch[k]) + 1
  <1>4. /\ DOMAIN s = 1..(p + 1) /\ DOMAIN t = 1..p
        /\ \A i \in 1..p : t[i] = s[i + 1]
        /\ SeenOf(notes'[k], cache[k]) = n.new /\ Seen(k) = n.old
        /\ s[1] = n.old /\ s[2] = n.new
        /\ Drawn(t, s)
    BY <1>1, <1>3, Handled DEF Chain, Seen
  <1>5. Chain(k)' = t /\ Seen(k)' = n.new
    BY <1>1, <1>4 DEF Chain, Seen
  <1>6. p \in Nat /\ p >= 1
    <2> DEFINE a == Len(notes[k])
               b == Len(watch[k])
    <2>1. a \in Nat /\ a >= 1 /\ b \in Nat
      BY <1>1, <1>3
    <2> HIDE DEF a, b
    <2>2. a + b + 1 \in Nat /\ a + b + 1 >= 1
      BY <2>1
    <2>3. QED
      BY <2>2 DEF a, b
  <1> HIDE DEF s, t, p
  <1>7. 1 \in DOMAIN s /\ 2 \in DOMAIN s
    BY <1>4, <1>6
  <1>8. ASSUME NEW x \in ElemsOf(t) PROVE \E j \in DOMAIN s : 2 <= j /\ x = s[j]
    <2>1. PICK i \in 1..p : x = t[i]
      BY <1>4 DEF ElemsOf
    <2>2. i + 1 \in DOMAIN s /\ 2 <= i + 1 /\ x = s[i + 1]
      BY <2>1, <1>4, <1>6
    <2>3. QED
      BY <2>2
  <1>9. Elems(k)' = ElemsOf(t)
    BY <1>5 DEF Elems
  <1>10. QED
    BY <1>2, <1>4, <1>5, <1>7, <1>8, <1>9 DEF s

LEMMA ChangeChain ==
    ASSUME Base, NEW k \in Kind, NEW obj \in Some, Change(k, obj)
    PROVE  /\ \A l \in Kind \ {k} : Chain(l)' = Chain(l) /\ Seen(l)' = Seen(l)
           /\ Seen(k)' = Seen(k) /\ version' = version + 1
           /\ LET p == Len(notes[k]) + Len(watch[k]) + 2 IN
              /\ p \in Nat \ {0} /\ DOMAIN Chain(k) = 1..p
              /\ Drawn(Chain(k)', Extend(Chain(k), p, obj))
              /\ Chain(k)[p] = cluster[k]
  <1>1. /\ cluster' = [cluster EXCEPT ![k] = obj] /\ UNCHANGED <<cache, notes>>
        /\ watch' = IF k \in listed THEN [watch EXCEPT ![k] = Append(@, obj)] ELSE watch
        /\ version' = version + 1
    BY DEF Change
  <1>2. cluster \in [Kind -> Some] /\ watch \in [Kind -> Seq(Some)]
    BY DEF Base, TypeOK, Some
  <1>3. /\ notes[k] \in Seq(Note) /\ watch[k] \in Seq(Some)
        /\ cache[k] \in Some /\ cluster[k] \in Some
    BY PathTyped
  <1>4. cluster'[k] = obj /\ \A l \in Kind \ {k} : cluster'[l] = cluster[l] /\ watch'[l] = watch[l]
    BY <1>1, <1>2
  <1>5. /\ watch'[k] \in Seq(Some)
        /\ \/ watch'[k] = watch[k]
           \/ /\ Len(watch'[k]) = Len(watch[k]) + 1 /\ watch'[k][Len(watch[k]) + 1] = obj
              /\ \A i \in 1..Len(watch[k]) : watch'[k][i] = watch[k][i]
    <2>1. watch'[k] = watch[k] \/ watch'[k] = Append(watch[k], obj)
      BY <1>1, <1>2
    <2>2. /\ Append(watch[k], obj) \in Seq(Some)
          /\ Len(Append(watch[k], obj)) = Len(watch[k]) + 1
          /\ Append(watch[k], obj)[Len(watch[k]) + 1] = obj
          /\ \A i \in 1..Len(watch[k]) : Append(watch[k], obj)[i] = watch[k][i]
      BY <1>3, AppendProperties
    <2>3. CASE watch'[k] = watch[k]
      BY <2>3, <1>3
    <2>4. CASE watch'[k] = Append(watch[k], obj)
      BY <2>2, <2>4
    <2>5. QED
      BY <2>1, <2>3, <2>4
  <1>6. \A l \in Kind \ {k} : Chain(l)' = Chain(l) /\ Seen(l)' = Seen(l)
    BY <1>1, <1>4 DEF Chain, Seen
  <1>7. Seen(k)' = Seen(k)
    BY <1>1 DEF Seen
  <1>8. Chain(k)' = ChainOf(notes[k], watch'[k], cache[k], obj)
    BY <1>1, <1>4 DEF Chain
  <1>9. Drawn(Chain(k)', Extend(Chain(k), Len(notes[k]) + Len(watch[k]) + 2, obj))
    <2>1. Drawn(ChainOf(notes[k], watch'[k], cache[k], obj),
                Extend(ChainOf(notes[k], watch[k], cache[k], cluster[k]),
                       Len(notes[k]) + Len(watch[k]) + 2, obj))
      BY <1>3, <1>5, ClusterChanged
    <2>2. QED
      BY <2>1, <1>8 DEF Chain
  <1>10. LET p == Len(notes[k]) + Len(watch[k]) + 2 IN
         p \in Nat \ {0} /\ DOMAIN Chain(k) = 1..p /\ Chain(k)[p] = cluster[k]
    <2>1. Len(notes[k]) \in Nat /\ Len(watch[k]) \in Nat
      BY <1>3
    <2> DEFINE a == Len(notes[k])
               b == Len(watch[k])
    <2>2. a + b + 2 \in Nat \ {0}
      <3>1. a \in Nat /\ b \in Nat
        BY <2>1
      <3> HIDE DEF a, b
      <3>2. QED
        BY <3>1
    <2>3. Shape(Chain(k), a, b, notes[k], cache[k], cluster[k])
      BY <1>3, ChainOfFacts DEF Chain
    <2> HIDE DEF a, b
    <2>5. DOMAIN Chain(k) = 1..(a + b + 2) /\ Chain(k)[a + b + 2] = cluster[k]
      BY <2>3 DEF Shape
    <2>4. QED
      BY <2>2, <2>5 DEF a, b
  <1>11. QED
    BY <1>1, <1>6, <1>7, <1>9, <1>10

LEMMA RestartChain ==
    ASSUME Base, Restart, NEW k \in Kind
    PROVE  /\ Chain(k)' = ChainOf(<< >>, << >>, NoObject, cluster[k])
           /\ Ordered(Chain(k)')
           /\ Elems(k)' \subseteq {NoObject, cluster[k]} /\ version' = version
  <1>1. /\ notes'[k] = << >> /\ watch'[k] = << >> /\ cache'[k] = NoObject
        /\ cluster' = cluster /\ version' = version
    BY DEF Restart, clusterVars
  <1> DEFINE t == ChainOf(<< >>, << >>, NoObject, cluster[k])
  <1>2. Chain(k)' = t
    BY <1>1 DEF Chain
  <1>3. DOMAIN t = 1..2 /\ t[1] = NoObject /\ t[2] = cluster[k]
    <2>1. Len(<< >>) = 0
      OBVIOUS
    <2>2. QED
      BY <2>1 DEF ChainOf, SeenOf
  <1> HIDE DEF t
  <1>4. Ordered(t)
    <2>1. SUFFICES ASSUME NEW i \in 1..2, NEW j \in 1..2, i <= j, Same(t[i], t[j])
                   PROVE  /\ t[i].version <= t[j].version
                          /\ \A l \in 1..2 : i <= l /\ l <= j => Same(t[l], t[i])
      BY <1>3 DEF Ordered
    <2>2. i = 2 /\ j = 2
      BY <2>1, <1>3 DEF Same
    <2>3. cluster[k] \in Object
      BY <2>1, <2>2, <1>3, PathTyped DEF Same, Some
    <2>4. t[2].version \in Int
      BY <2>3, <1>3, SyncAssumption DEF Object, UID
    <2>5. \A l \in 1..2 : i <= l => l = 2
      BY <2>2
    <2>6. QED
      BY <2>1, <2>2, <2>4, <2>5
  <1>5. ElemsOf(t) \subseteq {NoObject, cluster[k]}
    BY <1>3 DEF ElemsOf
  <1>6. QED
    BY <1>1, <1>2, <1>4, <1>5 DEF Elems, t
==============================================================================
