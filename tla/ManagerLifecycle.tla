--------------------------- MODULE ManagerLifecycle ---------------------------
(***************************************************************************)
(* What a user of ingestion.Manager can rely on, without goroutines,       *)
(* generations or locks: how the answers of IsStarted and GetCurrentState  *)
(* may change.  IngestionManager implements it.                            *)
(***************************************************************************)

VARIABLE state

\* Not started yet; started, with caches that have not synced; started, with its
\* handlers not registered; started, with caches that have synced; stopped.
LifecycleState == {"created", "unsynced", "broken", "synced", "stopped"}

\* IsStarted is true.
Up == {"unsynced", "broken", "synced"}

LifecycleInit == state = "created"

\* Start works on a manager that is not up, be it for the first time.
StartUp ==
    /\ state \in {"created", "stopped"}
    /\ state' \in {"unsynced", "broken"}

\* Caches sync after Start, and only where handlers were registered.
Sync ==
    /\ state = "unsynced"
    /\ state' = "synced"

\* Stop does nothing to a manager that has not been started, and is final until
\* the next Start.
Halt ==
    /\ state \in Up
    /\ state' = "stopped"

LifecycleNext == StartUp \/ Sync \/ Halt

LifecycleSpec == LifecycleInit /\ [][LifecycleNext]_state
==============================================================================
