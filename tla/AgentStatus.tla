------------------------------ MODULE AgentStatus ------------------------------
(***************************************************************************)
(* What a user can rely on who reads the status of one ObsykAgent, without *)
(* caches, copies, conflicts, queues or restarts: it only goes forward     *)
(* while the object lives, and reports a snapshot only when the platform   *)
(* has accepted one of this very object.  Reconciler implements it for     *)
(* every agent.                                                            *)
(***************************************************************************)

VARIABLES
    stage,      \* how far the status has come
    accepted    \* the platform has accepted a snapshot of the object

\* The stages: no object ("absent"), nothing reported ("new"), a ClusterUID
\* ("identified"), also a LastSnapshotTime and Available ("synced").
Later(s) ==
    CASE s = "new" -> {"identified", "synced"}
      [] s = "identified" -> {"synced"}
      [] OTHER -> {}

StatusInit == stage = "absent" /\ accepted = FALSE

Create ==
    /\ stage = "absent" /\ ~accepted
    /\ stage' = "new" /\ UNCHANGED accepted

\* One write may report several things at once.
Report ==
    /\ stage' \in Later(stage)
    /\ stage' = "synced" => accepted
    /\ UNCHANGED accepted

Accept ==
    /\ stage # "absent"
    /\ accepted' = TRUE /\ UNCHANGED stage

Delete ==
    /\ stage # "absent"
    /\ stage' = "absent" /\ accepted' = FALSE

StatusNext == Create \/ Report \/ Accept \/ Delete

StatusSpec == StatusInit /\ [][StatusNext]_<<stage, accepted>>
==============================================================================
