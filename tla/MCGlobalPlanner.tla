---------------------------- MODULE MCGlobalPlanner ----------------------------
(***************************************************************************)
(* A 3 x 3 grid with obstacles anywhere, and with a middle that the robot  *)
(* only fits through along its row or its column.                          *)
(***************************************************************************)
EXTENDS GlobalPlanner

Open == [Cells -> {"any", "none"}]

MCMaps ==
    {grid \in Open : grid[<<0, 0>>] = "any" /\ grid[<<2, 0>>] = "any"}
    \cup {[grid EXCEPT ![<<1, 1>>] = fit, ![<<0, 1>>] = fit] :
            grid \in {g \in Open : g[<<0, 0>>] = "any" /\ g[<<2, 1>>] = "any" /\ g[<<2, 0>>] = "any"},
            fit \in {"row", "column"}}

At(x, y, heading) == [cell |-> <<x, y>>, heading |-> heading]

North == <<0, 1>>

Segment(from, to) == [route |-> FALSE, start |-> from, waypoints |-> <<to>>]

Route(from, waypoints) == [route |-> TRUE, start |-> from, waypoints |-> waypoints]

MCRequests ==
    {Segment(At(0, 0, East), At(2, 2, h)) : h \in {East, North}}
    \cup {Segment(At(0, 0, East), At(2, 1, North)),
          Segment(At(0, 1, North), At(2, 1, North)),
          Segment(At(0, 0, North), At(0, 2, North)),
          Segment(At(0, 0, East), At(3, 0, East)),
          Route(At(0, 0, East), <<>>),
          Route(At(0, 0, East), <<At(1, 1, North), At(2, 1, East)>>),
          Route(At(0, 2, East), <<At(2, 0, East), At(0, 0, East)>>)}
=============================================================================
