---------------------------- MODULE MCBtNavigator ----------------------------
(***************************************************************************)
(* Instances of BtNavigator for TLC: a single-pose goal and a route of two *)
(* poses compete for the navigator.                                        *)
(***************************************************************************)
EXTENDS BtNavigator, TLC

CONSTANTS single, route

OneSingle == {single}
OneRoute == {route}
TwoGoals == {single, route}

KindOfGoal == [g \in Goals |-> IF g = single THEN "pose" ELSE "poses"]
PosesOfGoal == [g \in Goals |-> IF g = single THEN 1 ELSE 2]

NoReports == {}
\* One report that asks for a replan and one that asks for an escape first.
EscapeOrReplan == {"hard", "replan"}
AnyReport == AllPlanReports \ {"pending"}
=============================================================================
