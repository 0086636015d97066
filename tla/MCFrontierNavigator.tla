------------------------- MODULE MCFrontierNavigator -------------------------
(* Two frontier goals for one navigator: g1 may stage once before it drives *)
(* to its original pose, g2 goes there at once or not at all.               *)
EXTENDS FrontierNavigator

CONSTANTS g1, g2

TwoGoals == {g1, g2}
FirstStages == [g \in Goals |-> IF g = g1 THEN MaxIterations ELSE 0]
=============================================================================
