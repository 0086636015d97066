--------------------------------- MODULE AStar ---------------------------------
(***************************************************************************)
(* The grid search of the global planner (amr_global_planner, a_star.cpp). *)
(*                                                                         *)
(* A search is a record; the operators below are the tests and the steps   *)
(* of AStarPlanner::plan on it, and the planner node takes the steps.  An  *)
(* occupancy grid says of each cell how the robot's footprint, centred on  *)
(* it, fits.  Costs are integers in a common unit.                         *)
(***************************************************************************)
EXTENDS Integers, Sequences

CONSTANTS
    Width, Height,         \* of the grid, in cells
    EightConnected,        \* planner.connectivity is not 4
    PreventCornerCutting,  \* planner.prevent_corner_cutting
    StraightCost,          \* of a move along an axis: 1.0
    DiagonalCost,          \* of a diagonal move: sqrt(2)
    TurnPenalty,           \* planner.turn_penalty
    HoldPenalty,           \* planner.start_row_hold_penalty
    AlignDistance,         \* planner.goal_row_align_distance_cells
    AlignPenalty           \* planner.goal_row_align_penalty

ASSUME GridAssumption == Width \in Nat \ {0} /\ Height \in Nat \ {0}

ASSUME SearchAssumption ==
    /\ EightConnected \in BOOLEAN
    /\ PreventCornerCutting \in BOOLEAN
    /\ {StraightCost, DiagonalCost} \subseteq Nat \ {0}
    /\ {TurnPenalty, HoldPenalty, AlignDistance, AlignPenalty} \subseteq Nat

-----------------------------------------------------------------------------
(* The grid                                                                *)

Cells == (0 .. Width - 1) \X (0 .. Height - 1)

\* How the footprint centred on a cell fits: in every heading, in those along
\* the row, in those along the column, or in none.
Fits == {"any", "row", "column", "none"}

Grids == [Cells -> Fits]

East == <<1, 0>>

Distance(i, j) == IF i > j THEN i - j ELSE j - i

\* is_occupied, and is_cell_collision of the node: a footprint that leaves the
\* grid collides.  A heading is a vector.
Collides(grid, cell, heading) ==
    \/ cell \notin Cells
    \/ grid[cell] = "none"
    \/ grid[cell] = "row" /\ heading[2] # 0
    \/ grid[cell] = "column" /\ heading[1] # 0

Toward(from, to) == <<to[1] - from[1], to[2] - from[2]>>

Diagonal(from, to) == from[1] # to[1] /\ from[2] # to[2]

\* get_neighbors.
Neighbors(cell) ==
    {other \in Cells :
        /\ other # cell
        /\ Distance(other[1], cell[1]) <= 1
        /\ Distance(other[2], cell[2]) <= 1
        /\ EightConnected \/ ~Diagonal(cell, other)}

\* is_diagonal_move_blocked: the two cells a diagonal move passes between are
\* judged with the robot facing east.
CornerCut(grid, from, to) ==
    /\ PreventCornerCutting
    /\ Diagonal(from, to)
    /\ \/ Collides(grid, <<to[1], from[2]>>, East)
       \/ Collides(grid, <<from[1], to[2]>>, East)

\* A neighbour is entered in the heading of the move.
CanMove(grid, from, to) ==
    /\ to \in Neighbors(from)
    /\ ~Collides(grid, to, Toward(from, to))
    /\ ~CornerCut(grid, from, to)

-----------------------------------------------------------------------------
(* Costs                                                                   *)

Heuristic(from, to) ==
    LET dx == Distance(from[1], to[1])
        dy == Distance(from[2], to[2])
        low == IF dx < dy THEN dx ELSE dy
        high == IF dx < dy THEN dy ELSE dx
    IN  IF EightConnected THEN low * DiagonalCost + (high - low) * StraightCost
        ELSE (dx + dy) * StraightCost

TurnCost(previous, current, next) ==
    IF Toward(previous, current) = Toward(current, next) THEN 0 ELSE TurnPenalty

\* row_bias_penalty: a mostly horizontal plan keeps the start's row until it is
\* near the goal, and the goal's row from there.
RowBias(next, start, goal) ==
    IF Distance(goal[1], start[1]) <= Distance(goal[2], start[2]) THEN 0
    ELSE IF Distance(goal[1], next[1]) > AlignDistance
    THEN HoldPenalty * Distance(next[2], start[2])
    ELSE AlignPenalty * Distance(next[2], goal[2])

-----------------------------------------------------------------------------
(* A search                                                                *)

Root == <<-1, -1>>   \* parent_index = -1

NoSearch ==
    [start |-> <<0, 0>>, goal |-> <<0, 0>>, opened |-> {}, closed |-> {},
     parent |-> [c \in Cells |-> Root], cost |-> [c \in Cells |-> 0]]

\* The nodes when the loop is entered.
NewSearch(start, goal) ==
    [NoSearch EXCEPT !.start = start, !.goal = goal, !.opened = {start}]

\* An opened cell that is not closed has an entry in the open set, and its best
\* entry comes first: the others are skipped when their turn comes.
Frontier(search) == search.opened \ search.closed

Priority(search, cell) == search.cost[cell] + Heuristic(cell, search.goal)

\* open_set.top(): ties are broken by the heap.
Best(search) ==
    {c \in Frontier(search) :
        \A other \in Frontier(search) : Priority(search, c) <= Priority(search, other)}

\* tentative_g_cost of a move out of the cell taken from the open set.
CostThrough(search, current, next) ==
    search.cost[current]
    + (IF Diagonal(current, next) THEN DiagonalCost ELSE StraightCost)
    + (IF search.parent[current] = Root THEN 0
       ELSE TurnCost(search.parent[current], current, next))
    + RowBias(next, search.start, search.goal)

\* The neighbours of the current cell that get a (better) parent.
Improved(grid, search, current) ==
    {n \in Cells :
        /\ CanMove(grid, current, n)
        /\ n \notin search.closed \cup {current}
        /\ n \notin search.opened \/ CostThrough(search, current, n) < search.cost[n]}

\* Mutant: once the frontier has another cell, dead ends are not looked into.
ExpandOnlyAhead(grid, search, current) ==
    LET better == {n \in Improved(grid, search, current) :
                      Heuristic(n, search.goal) <= Heuristic(current, search.goal)}
    IN  [search EXCEPT !.closed = @ \cup {current},
                       !.opened = @ \cup better,
                       !.parent = [c \in Cells |-> IF c \in better THEN current ELSE @[c]],
                       !.cost = [c \in Cells |-> IF c \in better
                                                 THEN CostThrough(search, current, c) ELSE @[c]]]

\* Mutant: the cell taken from the open set is not marked as closed.
ExpandNotClosing(grid, search, current) ==
    LET better == Improved(grid, search, current)
    IN  [search EXCEPT !.opened = @ \cup better,
                       !.parent = [c \in Cells |-> IF c \in better THEN current ELSE @[c]],
                       !.cost = [c \in Cells |-> IF c \in better
                                                 THEN CostThrough(search, current, c) ELSE @[c]]]

\* The body of the loop for a cell that is not the goal.
Expand(grid, search, current) ==
    LET better == Improved(grid, search, current)
    IN  [search EXCEPT !.closed = @ \cup {current},
                       !.opened = @ \cup better,
                       !.parent = [c \in Cells |-> IF c \in better THEN current ELSE @[c]],
                       !.cost = [c \in Cells |-> IF c \in better
                                                 THEN CostThrough(search, current, c) ELSE @[c]]]

\* The body of the loop for the goal: it is only closed.
Close(search, current) == [search EXCEPT !.closed = @ \cup {current}]
=============================================================================
