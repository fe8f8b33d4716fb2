------------------------------ MODULE ResourceSync ------------------------------
(***************************************************************************)
(* The path of a resource from the cluster to the platform: the informer   *)
(* caches of client-go, the handlers of GenericIngester, the event channel *)
(* and processor of Manager, and the snapshot that Reconcile reads with    *)
(* GetCurrentState.  Manager's life cycle is the subject of                *)
(* IngestionManager, the reconciler's of Reconciler; here the manager runs *)
(* for as long as the process does.                                        *)
(*                                                                         *)
(* There is one object name per kind, which objects with different UIDs    *)
(* may hold one after the other.  Versions are numbers, a UID is the       *)
(* version at which its object was created.                                *)
(***************************************************************************)
EXTENDS Integers, Sequences, FiniteSets

CONSTANTS
    NumKinds,    \* the kinds are 1..NumKinds, in the order GetCurrentState lists them
    NoObject,    \* no object has the name
    NoEvent,     \* the processor holds no event
    BufferSize,  \* capacity of eventChan
    MaxChanges,  \* bound: changes of the cluster
    MaxFaults    \* bound: broken watches and restarts of the operator

ASSUME SyncAssumption ==
    /\ NumKinds \in Nat \ {0}
    /\ BufferSize \in Nat \ {0}
    /\ {MaxChanges, MaxFaults} \subseteq Nat

Kind == 1..NumKinds
UID == 1..MaxChanges
Object == [uid : UID, version : UID]

EventType == {"added", "modified", "deleted"}
Event == [type : EventType, obj : Object]

ASSUME SentinelAssumption == NoObject \notin Object /\ NoEvent \notin Event

VARIABLES
    cluster,     \* per kind, the object in the API server
    version,     \* the last version given out
    watch,       \* per kind, the states of the object the watch has yet to deliver
    listed,      \* kinds whose informer has listed, i.e. HasSynced
    cache,       \* per kind, the informer's cache, which the listers read
    notes,       \* per kind, the notifications queued for the handler
    eventChan,   \* the buffered channel
    hand,        \* the event in SendEvent
    snapshot,    \* Reconcile's snapshot: phase, kinds listed so far, objects
    recorded,    \* LastSnapshotTime is set in the stored status
    view,        \* the objects the platform knows
    faults,      \* broken watches and restarts so far
    \* history
    changed,     \* UIDs whose cache entry changed since the snapshot in progress listed it
    buried,      \* UIDs whose deletion the platform confirmed
    missed       \* UIDs whose last change was lost, or overtaken by the snapshot

clusterVars == <<cluster, version>>
informerVars == <<watch, listed, cache>>
senderVars == <<snapshot, recorded>>
vars == <<clusterVars, informerVars, notes, eventChan, hand, senderVars, view,
          faults, changed, buried, missed>>

NoSnapshot == [phase |-> "none", upto |-> 0, objects |-> {}]

Note == [type : EventType, old : Object \cup {NoObject},
         new : Object \cup {NoObject}, tombstone : BOOLEAN]

TypeOK ==
    /\ cluster \in [Kind -> Object \cup {NoObject}]
    /\ version \in 0..MaxChanges
    /\ watch \in [Kind -> Seq(Object \cup {NoObject})]
    /\ listed \subseteq Kind
    /\ cache \in [Kind -> Object \cup {NoObject}]
    /\ notes \in [Kind -> Seq(Note)]
    /\ eventChan \in Seq(Event)
    /\ Len(eventChan) <= BufferSize
    /\ hand \in Event \cup {NoEvent}
    /\ snapshot \in [phase : {"none", "listing", "sending", "accepted"},
                     upto : 0..NumKinds, objects : SUBSET Object]
    /\ recorded \in BOOLEAN
    /\ view \subseteq Object
    /\ faults \in 0..MaxFaults
    /\ changed \cup buried \cup missed \subseteq UID

Init ==
    /\ watch = [k \in Kind |-> << >>]
    /\ listed = {}
    /\ cache = [k \in Kind |-> NoObject]
    /\ notes = [k \in Kind |-> << >>]
    /\ eventChan = << >>
    /\ hand = NoEvent
    /\ snapshot = NoSnapshot
    /\ changed = {}
    /\ cluster = [k \in Kind |-> NoObject]
    /\ version = 0
    /\ recorded = FALSE
    /\ view = {}
    /\ faults = 0
    /\ buried = {} /\ missed = {}

ElementsOf(s) == {s[i] : i \in 1..Len(s)}
Uids(objects) == {o.uid : o \in objects \ {NoObject}}

-----------------------------------------------------------------------------
(* The cluster *)

\* A change reaches the watch of an informer that has listed.  Nobody will report
\* an object that goes while its informer is not watching.
Change(k, obj) ==
    /\ version < MaxChanges
    /\ version' = version + 1
    /\ cluster' = [cluster EXCEPT ![k] = obj]
    /\ watch' = IF k \in listed THEN [watch EXCEPT ![k] = Append(@, obj)] ELSE watch
    /\ missed' = IF k \in listed THEN missed
                 ELSE missed \cup (Uids({cluster[k]}) \ Uids({obj}))
    /\ UNCHANGED <<listed, cache, notes, eventChan, hand, senderVars, view,
                   faults, changed, buried>>

Create(k) ==
    /\ cluster[k] = NoObject
    /\ Change(k, [uid |-> version + 1, version |-> version + 1])

Modify(k) ==
    /\ cluster[k] # NoObject
    /\ Change(k, [cluster[k] EXCEPT !.version = version + 1])

Delete(k) ==
    /\ cluster[k] # NoObject
    /\ Change(k, NoObject)

-----------------------------------------------------------------------------
(* The informers of client-go: the cache first, then the notification *)

\* The cache of kind k goes from its present content to obj.  A relist finds
\* objects that have not changed, and reports a deletion it did not see with a
\* tombstone.
UpdateCache(k, obj, relist) ==
    LET old == cache[k]
        note(type) == [type |-> type, old |-> old, new |-> obj, tombstone |-> FALSE]
        queue(n) == notes' = [notes EXCEPT ![k] = Append(@, n)]
    IN  /\ cache' = [cache EXCEPT ![k] = obj]
        /\ \/ old = NoObject /\ obj = NoObject /\ UNCHANGED notes
           \/ old = NoObject /\ obj # NoObject /\ queue(note("added"))
           \/ old # NoObject /\ obj # NoObject /\ queue(note("modified"))
           \/ old # NoObject /\ obj = NoObject
              /\ queue([note("deleted") EXCEPT !.tombstone = relist])
        /\ changed' = IF old # obj /\ k <= snapshot.upto
                      THEN changed \cup Uids({old, obj}) ELSE changed

List(k) ==
    /\ k \notin listed
    /\ listed' = listed \cup {k}
    /\ UpdateCache(k, cluster[k], TRUE)
    /\ UNCHANGED <<clusterVars, watch, eventChan, hand, senderVars, view,
                   faults, buried, missed>>

Watch(k) ==
    /\ watch[k] # << >>
    /\ watch' = [watch EXCEPT ![k] = Tail(@)]
    /\ UpdateCache(k, Head(watch[k]), FALSE)
    /\ UNCHANGED <<clusterVars, listed, eventChan, hand, senderVars, view,
                   faults, buried, missed>>

\* The watch breaks and cannot be resumed: the informer lists again and learns
\* only the difference between its cache and the cluster.
Relist(k) ==
    /\ k \in listed /\ faults < MaxFaults
    /\ faults' = faults + 1
    /\ watch' = [watch EXCEPT ![k] = << >>]
    /\ UpdateCache(k, cluster[k], TRUE)
    /\ UNCHANGED <<clusterVars, listed, eventChan, hand, senderVars, view,
                   buried, missed>>

-----------------------------------------------------------------------------
(* The handlers *)

\* Operators whose name ends in _bug are wrong on purpose: each is a mistake the
\* code could contain, kept to show which property notices it.

\* onUpdate compares resource versions: a relist notifies of every object.
SameVersion_bug(old, new) == FALSE
SameVersion(old, new) == old.version = new.version

\* The events a notification gives rise to: one or none.  onDelete takes the
\* object out of a tombstone (DeletedFinalStateUnknown).
EventsOf_bug(n) ==
    CASE n.type = "added" -> {[type |-> "added", obj |-> n.new]}
      [] n.type = "modified" -> IF SameVersion(n.old, n.new) THEN {}
                                ELSE {[type |-> "modified", obj |-> n.new]}
      [] n.type = "deleted" -> IF n.tombstone THEN {}
                               ELSE {[type |-> "deleted", obj |-> n.old]}

EventsOf(n) ==
    CASE n.type = "added" -> {[type |-> "added", obj |-> n.new]}
      [] n.type = "modified" -> IF SameVersion(n.old, n.new) THEN {}
                                ELSE {[type |-> "modified", obj |-> n.new]}
      [] n.type = "deleted" -> {[type |-> "deleted", obj |-> n.old]}

\* An update that replaces one object by another under the same name tells the
\* platform of the new UID only.
Replaced(n) == IF n.type = "modified" THEN Uids({n.old}) \ Uids({n.new}) ELSE {}

\* sendEvent and sendDeleteEvent do not block: a full channel loses the event.
HasRoom_bug == Len(eventChan) <= BufferSize
HasRoom == Len(eventChan) < BufferSize

Handle(k) ==
    LET n == Head(notes[k]) IN
    /\ notes[k] # << >>
    /\ notes' = [notes EXCEPT ![k] = Tail(@)]
    /\ \/ /\ EventsOf(n) = {}
          /\ UNCHANGED <<eventChan, missed>>
       \/ \E e \in EventsOf(n) :
            \/ /\ HasRoom
               /\ eventChan' = Append(eventChan, e)
               /\ missed' = (missed \ {e.obj.uid}) \cup Replaced(n)
            \/ /\ ~HasRoom
               /\ missed' = missed \cup {e.obj.uid} \cup Replaced(n)
               /\ UNCHANGED eventChan
    /\ UNCHANGED <<clusterVars, informerVars, hand, senderVars, view,
                   faults, changed, buried>>

-----------------------------------------------------------------------------
(* The event processor and the platform *)

Receive ==
    /\ hand = NoEvent /\ eventChan # << >>
    /\ hand' = Head(eventChan)
    /\ eventChan' = Tail(eventChan)
    /\ UNCHANGED <<clusterVars, informerVars, notes, senderVars, view,
                   faults, changed, buried, missed>>

\* What the platform does with an event: added and modified carry the object,
\* deleted its UID.
Applied(e) ==
    LET others == {o \in view : o.uid # e.obj.uid}
    IN  IF e.type = "deleted" THEN others ELSE others \cup {e.obj}

\* An attempt reaches the platform.  SendEvent returns; or the answer is a server
\* error, after which it tries again, or gets lost, after which it fails.
EventApplied ==
    /\ hand # NoEvent
    /\ view' = Applied(hand)
    /\ hand' \in {hand, NoEvent}
    /\ buried' = IF hand' = NoEvent /\ hand.type = "deleted"
                 THEN buried \cup {hand.obj.uid} ELSE buried
    /\ UNCHANGED <<clusterVars, informerVars, notes, eventChan, senderVars,
                   faults, changed, missed>>

Queued(u) == \E e \in ElementsOf(eventChan) : e.obj.uid = u

\* SendEvent gives up: the error is logged and the event forgotten.
EventFails_bug ==
    /\ hand # NoEvent
    /\ eventChan' = Append(eventChan, hand)
    /\ hand' = NoEvent
    /\ UNCHANGED <<clusterVars, informerVars, notes, senderVars, view,
                   faults, changed, buried, missed>>

EventFails ==
    /\ hand # NoEvent
    /\ missed' = IF Queued(hand.obj.uid) THEN missed ELSE missed \cup {hand.obj.uid}
    /\ hand' = NoEvent
    /\ UNCHANGED <<clusterVars, informerVars, notes, eventChan, senderVars, view,
                   faults, changed, buried>>

-----------------------------------------------------------------------------
(* The snapshot, taken by Reconcile while events go on *)

\* GetCurrentState: the listers are read one kind after the other.  Nothing waits
\* for the informers to have listed.
LastKind_bug == NumKinds - 1
LastKind == NumKinds

ListKind ==
    /\ \/ snapshot.phase = "none" /\ ~recorded
       \/ snapshot.phase = "listing" /\ snapshot.upto < LastKind
    /\ LET k == snapshot.upto + 1
       IN  snapshot' = [phase |-> "listing", upto |-> k,
                        objects |-> snapshot.objects \cup ({cache[k]} \ {NoObject})]
    /\ UNCHANGED <<clusterVars, informerVars, notes, eventChan, hand, recorded, view,
                   faults, changed, buried, missed>>

\* The listed objects are converted and SendSnapshot is called.
BuildPayload ==
    /\ snapshot.phase = "listing" /\ snapshot.upto = LastKind
    /\ snapshot' = [snapshot EXCEPT !.phase = "sending"]
    /\ UNCHANGED <<clusterVars, informerVars, notes, eventChan, hand, recorded, view,
                   faults, changed, buried, missed>>

InHand(u) == hand # NoEvent /\ hand.obj.uid = u
Noted(u) == \E k \in Kind : \E n \in ElementsOf(notes[k]) :
                EventsOf(n) # {} /\ u \in Uids({n.old, n.new})
Pending(u) == Queued(u) \/ InHand(u) \/ Noted(u)

\* The snapshot reaches the platform and replaces what it knew.  It makes up for
\* lost events, but where an object changed after it was listed, and the event
\* has gone before, the platform now has the older state.
SnapshotApplied ==
    /\ snapshot.phase = "sending"
    /\ view' = snapshot.objects
    /\ missed' = {u \in UID : u \in IF Pending(u) THEN missed ELSE changed}
    /\ snapshot' \in {snapshot, [snapshot EXCEPT !.phase = "accepted", !.objects = {}]}
    /\ UNCHANGED <<clusterVars, informerVars, notes, eventChan, hand, recorded,
                   faults, changed, buried>>

\* GetCurrentState or SendSnapshot fails, or the status update is refused after
\* SendSnapshot: Reconcile begins again later.
SnapshotAbandoned ==
    /\ snapshot.phase # "none"
    /\ snapshot' = NoSnapshot
    /\ changed' = {}
    /\ UNCHANGED <<clusterVars, informerVars, notes, eventChan, hand, recorded, view,
                   faults, buried, missed>>

SnapshotRecorded ==
    /\ snapshot.phase = "accepted"
    /\ snapshot' = NoSnapshot
    /\ recorded' = TRUE
    /\ changed' = {}
    /\ UNCHANGED <<clusterVars, informerVars, notes, eventChan, hand, view,
                   faults, buried, missed>>

-----------------------------------------------------------------------------

\* The operator restarts.  What was on its way is lost, and so is the deletion of
\* a cached object that is no longer in the cluster.
Restart ==
    /\ faults < MaxFaults
    /\ faults' = faults + 1
    /\ watch' = [k \in Kind |-> << >>]
    /\ listed' = {}
    /\ cache' = [k \in Kind |-> NoObject]
    /\ notes' = [k \in Kind |-> << >>]
    /\ eventChan' = << >>
    /\ hand' = NoEvent
    /\ snapshot' = NoSnapshot
    /\ changed' = {}
    /\ missed' = {u \in UID : \/ u \in missed \/ Pending(u)
                              \/ \E k \in Kind : u \in Uids({cache[k]}) \ Uids({cluster[k]})}
    /\ UNCHANGED <<clusterVars, recorded, view, buried>>

Cluster(k) == Create(k) \/ Modify(k) \/ Delete(k)
Informer(k) == List(k) \/ Watch(k) \/ Relist(k)
Processor == Receive \/ EventApplied \/ EventFails
Reconcile ==
    \/ ListKind \/ BuildPayload
    \/ SnapshotApplied \/ SnapshotAbandoned \/ SnapshotRecorded

Next ==
    \/ \E k \in Kind : Cluster(k) \/ Informer(k) \/ Handle(k)
    \/ Processor \/ Reconcile \/ Restart

Spec == Init /\ [][Next]_vars

\* Informers list and watch, handlers and the processor run, SendEvent returns
\* (each event has 30 s).  No snapshot is guaranteed ever to arrive.
Fairness ==
    /\ \A k \in Kind : WF_vars(List(k)) /\ WF_vars(Watch(k)) /\ WF_vars(Handle(k))
    /\ WF_vars(Receive)
    /\ WF_vars(hand # NoEvent /\ hand' = NoEvent /\ Processor)

LiveSpec == Spec /\ Fairness

-----------------------------------------------------------------------------
(* Properties *)

Known(u) == {o \in view : o.uid = u}
Cached(u) == {o \in ElementsOf(cache) : o # NoObject /\ o.uid = u}
Present(u) == {o \in ElementsOf(cluster) : o # NoObject /\ o.uid = u}

\* sendEvent, onUpdate, onDelete, GetCurrentState: of an object about which nothing
\* is on its way any more the platform knows exactly what the informer has - be it
\* from events, from snapshots, or from both in any order - unless its last change
\* was lost (full channel, failed send, replaced between two lists, restart) or
\* overtaken by the snapshot.  A later event or snapshot makes up for the loss.  Where
\* the watches have delivered everything too, that is what the cluster has.
Converged ==
    listed = Kind =>
        \A u \in UID \ missed : ~Pending(u) =>
            /\ Known(u) = Cached(u)
            /\ (\A k \in Kind : watch[k] = << >>) => Known(u) = Present(u)

\* The events of an object, from the one being sent to the last in the channel,
\* have growing versions and nothing follows a deletion: no change is sent twice
\* or out of order, not even after a relist.
Outgoing == (IF hand = NoEvent THEN << >> ELSE <<hand>>) \o eventChan
EventsInOrder ==
    \A i, j \in 1..Len(Outgoing) :
        (i < j /\ Outgoing[i].obj.uid = Outgoing[j].obj.uid) =>
            /\ Outgoing[i].type # "deleted"
            /\ \/ Outgoing[j].type = "deleted"
               \/ Outgoing[i].obj.version < Outgoing[j].obj.version

\* An object whose deletion the platform confirmed does not come back, unless by a
\* snapshot that listed it before it was deleted.
NoResurrection == buried \cap Uids(view) \subseteq missed

\* GetCurrentState may leave out nothing that it makes up for, and no event is
\* left behind: an object the platform has wrong is put right, changes again, or
\* its last change was lost.
CatchesUp == \A u \in UID : []<>(u \in missed \/ Known(u) = Present(u))
==============================================================================
