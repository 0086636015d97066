---------------------------- MODULE MCCostmapServer ----------------------------
(***************************************************************************)
(* A strip of five cells: an open map, one that ends early, and one with a *)
(* wall where the obstacle may stand.                                      *)
(***************************************************************************)
EXTENDS CostmapServer

MCMaps ==
    {[c \in Cells |-> "free"],
     [c \in Cells |-> IF c < 3 THEN "free" ELSE "unknown"],
     [c \in Cells |-> IF c = 4 THEN "occupied" ELSE "free"]}

MCPlaces == {0, 1}

MCObstacles == {2, 4, Nowhere}
=============================================================================
