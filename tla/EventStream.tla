----------------------------- MODULE EventStream -----------------------------
(***************************************************************************)
(* What the ingestion pipeline promises its user, without locks, channels  *)
(* or goroutines: resource events are numbered in the order in which the   *)
(* informers emit them, and some of them are handed to the EventSender,    *)
(* each at most once and in the order of emission.  Events may be lost     *)
(* (the pipeline is best effort), but they are never invented, duplicated  *)
(* or, as long as two event processors have not overlapped, reordered.     *)
(***************************************************************************)
EXTENDS Naturals

VARIABLES
    offered,    \* number of events the informers have emitted; events are 1..offered
    delivered,  \* the events handed to the EventSender
    overlap     \* TRUE once a Stop gave up on an event processor that still ran

streamVars == <<offered, delivered, overlap>>

StreamInit ==
    /\ offered = 0
    /\ delivered = {}
    /\ overlap = FALSE

\* An informer emits the next event.
Emit ==
    /\ offered' = offered + 1
    /\ UNCHANGED <<delivered, overlap>>

\* Event e reaches the sender: for the first time, and after no later event.
Deliver(e) ==
    /\ e \in (1..offered) \ delivered
    /\ overlap \/ \A d \in delivered : d < e
    /\ delivered' = delivered \cup {e}
    /\ UNCHANGED <<offered, overlap>>

Overlap ==
    /\ overlap' = TRUE
    /\ UNCHANGED <<offered, delivered>>

StreamNext ==
    \/ Emit
    \/ \E e \in 1..offered : Deliver(e)
    \/ Overlap

StreamSpec == StreamInit /\ [][StreamNext]_streamVars
==============================================================================
