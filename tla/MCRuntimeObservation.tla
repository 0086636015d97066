-------------------------- MODULE MCRuntimeObservation --------------------------
(* A goal, a navigation command and what follows it, with distances up to   *)
(* two units: at the goal, within its approach, and away from it.           *)
EXTENDS RuntimeObservation

Navigate(align) == [mode |-> "navigate", align |-> align]
Wait == [mode |-> "wait", align |-> FALSE]
MCPlans == {<<Navigate(TRUE), Wait>>, <<Navigate(FALSE), Navigate(TRUE)>>}
MCFields == {"route_active", "runtime_state", "local_recovery_required"}
MCDecisions == {"goal_proximity_blocked"}
=============================================================================
