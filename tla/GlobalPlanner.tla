----------------------------- MODULE GlobalPlanner -----------------------------
(***************************************************************************)
(* The global planner node (amr_global_planner, planner_server.cpp).       *)
(*                                                                         *)
(* A single-threaded lifecycle node: it keeps the last global costmap and  *)
(* answers plan_segment and plan_route.  Between two callbacks the node is *)
(* idle; a request is worked off leg by leg, a leg by a straight line or   *)
(* by a search, the search cell by cell, and no other callback runs until  *)
(* the response is written.  Poses are at cell centres; a pose has a cell  *)
(* and a heading.                                                          *)
(***************************************************************************)
EXTENDS AStar, FiniteSets

CONSTANTS
    Maps,        \* the costmaps that may arrive
    Requests,    \* the requests clients may send
    Radius,      \* planner.nearest_free_search_radius_cells
    Straighten,  \* axis_aligned_straightening_enabled and _require_line_of_sight
    Tolerance,   \* same_row_tolerance_cells and same_column_tolerance_cells
    SampleStep   \* the interpolation distance, in cells

ASSUME PlannerAssumption ==
    /\ Maps \subseteq Grids
    /\ Radius \in Nat
    /\ Straighten \in BOOLEAN
    /\ Tolerance \in Nat
    /\ SampleStep \in Nat \ {0}

VARIABLES
    lifecycle,  \* the node's state
    costmap,    \* global_costmap_, or NoMap
    request,    \* the request being answered, or NoRequest
    start,      \* current: where the next leg begins
    phase,      \* what the handler does next
    search,     \* the search of the current leg
    path,       \* the part of the found path traced so far
    plans,      \* the legs planned so far
    response    \* the response just written; gone with the next callback

leg == <<search, path>>
vars == <<lifecycle, costmap, request, start, phase, leg, plans, response>>

-----------------------------------------------------------------------------
(* Values                                                                  *)

NoMap == <<>>   \* no costmap, or the empty one of on_configure

Phases == {"idle", "plan", "search", "trace", "respond"}

\* A pose may lie outside the costmap.
Positions == Int \X Int

Poses == [cell : Positions, heading : Int \X Int]

\* plan_segment is a request with one waypoint and route = FALSE.
RequestShape(r) ==
    /\ r = [route |-> r.route, start |-> r.start, waypoints |-> r.waypoints]
    /\ r.route \in BOOLEAN
    /\ r.start \in Poses
    /\ r.waypoints \in Seq(Poses)
    /\ ~r.route => Len(r.waypoints) = 1

ASSUME RequestAssumption == \A r \in Requests : RequestShape(r)

Nowhere == [cell |-> <<0, 0>>, heading |-> East]

NoRequest == [route |-> FALSE, start |-> Nowhere, waypoints |-> <<>>]

Reasons == {"none", "planned", "no_costmap", "outside", "occupied", "no_path"}

\* segment: the leg that failed, as the message says; shown: the path published
\* on the plan topic with the response.
NoResponse ==
    [success |-> FALSE, reason |-> "none", segment |-> 0, plans |-> <<>>, shown |-> <<>>]

Configured == lifecycle \in {"inactive", "active"}

Waypoint == request.waypoints[Len(plans) + 1]

-----------------------------------------------------------------------------
Init ==
    /\ lifecycle = "unconfigured"
    /\ costmap = NoMap
    /\ request = NoRequest
    /\ start = Nowhere
    /\ phase = "idle"
    /\ search = NoSearch
    /\ path = <<>>
    /\ plans = <<>>
    /\ response = NoResponse

-----------------------------------------------------------------------------
(* The snap to a free cell                                                 *)

\* The square of the given radius around a cell.
Around(cell, radius) ==
    {<<cell[1] + dx, cell[2] + dy>> : dx, dy \in -radius .. radius}

\* The scan looks at growing squares, and at each row by row.
ScannedBefore(cell, a, b) ==
    LET Ring(c) == IF Distance(c[1], cell[1]) > Distance(c[2], cell[2])
                   THEN Distance(c[1], cell[1]) ELSE Distance(c[2], cell[2])
    IN  \/ Ring(a) < Ring(b)
        \/ Ring(a) = Ring(b) /\ a[2] < b[2]
        \/ Ring(a) = Ring(b) /\ a[2] = b[2] /\ a[1] < b[1]

FreeAround(grid, pose) ==
    {c \in Around(pose.cell, Radius) : ~Collides(grid, c, pose.heading)}

\* find_nearest_free_cell: the first free cell of the scan, or none.
Snaps(grid, pose) ==
    {c \in FreeAround(grid, pose) :
        \A other \in FreeAround(grid, pose) :
            other = c \/ ScannedBefore(pose.cell, c, other)}

-----------------------------------------------------------------------------
(* The straight line                                                       *)

\* classify_axis_aligned_straight_candidate: the snapped cells or the poses
\* asked for lie within the tolerance of one row or one column.
AxisAligned(from, to, fromCell, toCell) ==
    \E axis \in {1, 2} :
        \/ Distance(fromCell[axis], toCell[axis]) <= Tolerance
        \/ Distance(from.cell[axis], to.cell[axis]) <= Tolerance

\* sample_count: the distance in sampling steps, rounded up, at least 1.
SampleCount(from, to) ==
    LET d == Toward(from.cell, to.cell)
        short == {n \in 0 .. Width + Height :
                     (n * SampleStep) * (n * SampleStep) < d[1] * d[1] + d[2] * d[2]}
    IN  IF short = {} THEN 1 ELSE Cardinality(short)

\* The cell of a sample: the floor of its position, poses being at centres.
SampleCell(from, to, i, n) ==
    LET d == Toward(from.cell, to.cell)
    IN  <<from.cell[1] + ((2 * i * d[1] + n) \div (2 * n)),
          from.cell[2] + ((2 * i * d[2] + n) \div (2 * n))>>

LineHeading(from, to) ==
    IF from.cell = to.cell THEN to.heading ELSE Toward(from.cell, to.cell)

\* create_straight_path_message: between the poses asked for, not the snapped.
StraightLine(from, to) ==
    LET n == SampleCount(from, to)
    IN  [i \in 1 .. n + 1 |-> SampleCell(from, to, i - 1, n)]

\* Mutant: only the two ends of the line are looked at.
EndsFree(grid, from, to) ==
    /\ Straighten
    /\ ~Collides(grid, from.cell, LineHeading(from, to))
    /\ ~Collides(grid, to.cell, LineHeading(from, to))

\* is_straight_line_collision_free.
LineFree(grid, from, to) ==
    /\ Straighten
    /\ \A i \in 1 .. SampleCount(from, to) + 1 :
          ~Collides(grid, StraightLine(from, to)[i], LineHeading(from, to))

-----------------------------------------------------------------------------
(* Requests                                                                *)

\* A request is taken up: both handlers clear the response first.
Receive(r) ==
    /\ Configured
    /\ phase = "idle"
    /\ phase' = IF r.waypoints = <<>> THEN "respond" ELSE "plan"
    /\ request' = r
    /\ start' = r.start
    /\ response' = NoResponse
    /\ UNCHANGED <<lifecycle, costmap, leg, plans>>

\* The handler gives up: plan_route drops the legs it has.
Fail(reason) ==
    /\ phase' = "idle"
    /\ response' = [NoResponse EXCEPT !.reason = reason, !.segment = Len(plans) + 1]
    /\ plans' = <<>>
    /\ search' = NoSearch
    /\ path' = <<>>
    /\ UNCHANGED <<lifecycle, costmap, request, start>>

\* A leg is done; the next one begins at the waypoint itself.
LegDone(cells) ==
    /\ plans' = Append(plans, cells)
    /\ start' = Waypoint
    /\ phase' = IF Len(plans) + 1 = Len(request.waypoints) THEN "respond" ELSE "plan"
    /\ search' = NoSearch
    /\ path' = <<>>
    /\ UNCHANGED <<lifecycle, costmap, request, response>>

-----------------------------------------------------------------------------
(* compute_plan_between_poses                                              *)

NoCostmap ==
    /\ phase = "plan"
    /\ costmap = NoMap
    /\ Fail("no_costmap")

Outside ==
    /\ phase = "plan"
    /\ costmap # NoMap
    /\ start.cell \notin Cells \/ Waypoint.cell \notin Cells
    /\ Fail("outside")

Plannable ==
    /\ phase = "plan"
    /\ costmap # NoMap
    /\ start.cell \in Cells
    /\ Waypoint.cell \in Cells

Occupied ==
    /\ Plannable
    /\ Snaps(costmap, start) = {} \/ Snaps(costmap, Waypoint) = {}
    /\ Fail("occupied")

\* The straight line replaces the search when it is free.
GoStraight ==
    /\ Plannable
    /\ \E from \in Snaps(costmap, start), to \in Snaps(costmap, Waypoint) :
          AxisAligned(start, Waypoint, from, to)
    /\ LineFree(costmap, start, Waypoint)
    /\ LegDone(StraightLine(start, Waypoint))

\* AStarPlanner::plan up to its loop: the snapped cells are free, as the search
\* asks, in the headings they were snapped for.
StartSearch ==
    /\ Plannable
    /\ \E from \in Snaps(costmap, start), to \in Snaps(costmap, Waypoint) :
          /\ ~(AxisAligned(start, Waypoint, from, to) /\ LineFree(costmap, start, Waypoint))
          /\ IF from = to
             THEN LegDone(<<from>>)
             ELSE /\ search' = NewSearch(from, to)
                  /\ phase' = "search"
                  /\ UNCHANGED <<lifecycle, costmap, request, start, path, plans, response>>

\* The cell taken from the open set is not the goal.
ExpandNext ==
    /\ phase = "search"
    /\ \E current \in Best(search) :
          /\ current # search.goal
          /\ search' = Expand(costmap, search, current)
    /\ UNCHANGED <<lifecycle, costmap, request, start, phase, path, plans, response>>

\* It is the goal.
ReachGoal ==
    /\ phase = "search"
    /\ search.goal \in Best(search)
    /\ search' = Close(search, search.goal)
    /\ path' = <<search.goal>>
    /\ phase' = "trace"
    /\ UNCHANGED <<lifecycle, costmap, request, start, plans, response>>

\* The path is collected along the parents, from the goal.
TraceBack ==
    /\ phase = "trace"
    /\ search.parent[path[1]] # Root
    /\ path' = <<search.parent[path[1]]>> \o path
    /\ UNCHANGED <<lifecycle, costmap, request, start, phase, search, plans, response>>

TraceDone ==
    /\ phase = "trace"
    /\ search.parent[path[1]] = Root
    /\ LegDone(path)

NoPath ==
    /\ phase = "search"
    /\ Frontier(search) = {}
    /\ Fail("no_path")

-----------------------------------------------------------------------------
(* Responses                                                               *)

\* merge_paths: the later legs lose their first pose.
Merge(legs) ==
    LET joined[n \in 0 .. Len(legs)] ==
          IF n = 0 THEN <<>>
          ELSE joined[n - 1] \o (IF joined[n - 1] = <<>> THEN legs[n] ELSE Tail(legs[n]))
    IN  joined[Len(legs)]

\* Every leg is planned; the plan is published while the node is active.
Respond ==
    /\ phase = "respond"
    /\ response' = [success |-> TRUE, reason |-> "planned", segment |-> 0, plans |-> plans,
                    shown |-> IF lifecycle = "active" THEN Merge(plans) ELSE <<>>]
    /\ phase' = "idle"
    /\ plans' = <<>>
    /\ UNCHANGED <<lifecycle, costmap, request, start, leg>>

-----------------------------------------------------------------------------
(* The other callbacks                                                     *)

\* The last response, and what it answered, are no longer of interest.
Forget ==
    /\ request' = NoRequest
    /\ start' = Nowhere
    /\ response' = NoResponse

\* costmap_subscription_cb.
Costmap(map) ==
    /\ Configured
    /\ phase = "idle"
    /\ costmap' = map
    /\ Forget
    /\ UNCHANGED <<lifecycle, phase, leg, plans>>

\* An invalid costmap takes the last one away.
InvalidCostmap ==
    /\ Configured
    /\ phase = "idle"
    /\ costmap' = NoMap
    /\ Forget
    /\ UNCHANGED <<lifecycle, phase, leg, plans>>

OnConfigure ==
    /\ lifecycle = "unconfigured"
    /\ phase = "idle"
    /\ lifecycle' = "inactive"
    /\ costmap' = NoMap
    /\ Forget
    /\ UNCHANGED <<phase, leg, plans>>

OnActivate ==
    /\ lifecycle = "inactive"
    /\ phase = "idle"
    /\ lifecycle' = "active"
    /\ Forget
    /\ UNCHANGED <<costmap, phase, leg, plans>>

OnDeactivate ==
    /\ lifecycle = "active"
    /\ phase = "idle"
    /\ lifecycle' = "inactive"
    /\ Forget
    /\ UNCHANGED <<costmap, phase, leg, plans>>

\* on_cleanup; on_shutdown does the same from any state and is for good.
OnCleanup ==
    /\ lifecycle = "inactive"
    /\ phase = "idle"
    /\ lifecycle' = "unconfigured"
    /\ costmap' = NoMap
    /\ Forget
    /\ UNCHANGED <<phase, leg, plans>>

OnShutdown ==
    /\ lifecycle # "finalized"
    /\ phase = "idle"
    /\ lifecycle' = "finalized"
    /\ costmap' = NoMap
    /\ Forget
    /\ UNCHANGED <<phase, leg, plans>>

-----------------------------------------------------------------------------
Lifecycle == OnConfigure \/ OnActivate \/ OnDeactivate \/ OnCleanup \/ OnShutdown

Callbacks ==
    \/ \E r \in Requests : Receive(r)
    \/ \E map \in Maps : Costmap(map)
    \/ InvalidCostmap

\* What the handler does once it runs.
Handler ==
    \/ NoCostmap
    \/ Outside
    \/ Occupied
    \/ GoStraight
    \/ StartSearch
    \/ ExpandNext
    \/ ReachGoal
    \/ TraceBack
    \/ TraceDone
    \/ NoPath
    \/ Respond

Next == Callbacks \/ Handler \/ Lifecycle

Spec == Init /\ [][Next]_vars

\* A handler runs on once it was called; callers owe nothing.
FairSpec == Spec /\ WF_vars(Handler)

-----------------------------------------------------------------------------
(* Properties                                                              *)

TypeOK ==
    /\ lifecycle \in {"unconfigured", "inactive", "active", "finalized"}
    /\ costmap \in Grids \cup {NoMap}
    /\ request \in Requests \cup {NoRequest}
    /\ start \in Poses
    /\ phase \in Phases
    /\ search \in [start : Positions, goal : Positions,
                   opened : SUBSET Cells, closed : SUBSET Cells,
                   parent : [Cells -> Cells \cup {Root}], cost : [Cells -> Nat]]
    /\ path \in Seq(Positions)
    /\ plans \in Seq(Seq(Positions))
    /\ response \in [success : BOOLEAN, reason : Reasons, segment : Nat,
                     plans : Seq(Seq(Positions)), shown : Seq(Positions)]

\* The pose a leg starts from and the one it goes to.
LegFrom(i) == IF i = 1 THEN request.start ELSE request.waypoints[i - 1]
LegTo(i) == request.waypoints[i]

Near(cell, pose) ==
    /\ Distance(cell[1], pose.cell[1]) <= Radius
    /\ Distance(cell[2], pose.cell[2]) <= Radius

\* A leg of the search: from a free cell near the one pose to a free cell near
\* the other, in moves the footprint can make.
SearchedLeg(cells, from, to) ==
    /\ ~Collides(costmap, cells[1], from.heading)
    /\ ~Collides(costmap, cells[Len(cells)], to.heading)
    /\ Near(cells[1], from)
    /\ Near(cells[Len(cells)], to)
    /\ \A i \in 1 .. Len(cells) - 1 : CanMove(costmap, cells[i], cells[i + 1])

\* A straight leg: from pose to pose, free at every sample.
StraightLeg(cells, from, to) ==
    /\ cells[1] = from.cell
    /\ cells[Len(cells)] = to.cell
    /\ \A i \in DOMAIN cells : ~Collides(costmap, cells[i], LineHeading(from, to))

DrivableLeg(cells, from, to) ==
    /\ cells # <<>>
    /\ SearchedLeg(cells, from, to) \/ StraightLeg(cells, from, to)

\* Safety: every leg the handler has planned, and every leg of a response, goes
\* from where the route asks to where it asks (up to the snap radius) through
\* places and moves in which the footprint does not touch an obstacle of the
\* costmap, and a successful response has a leg for every waypoint.
PlanIsDrivable ==
    /\ \A i \in DOMAIN plans : DrivableLeg(plans[i], LegFrom(i), LegTo(i))
    /\ \A i \in DOMAIN response.plans : DrivableLeg(response.plans[i], LegFrom(i), LegTo(i))
    /\ response.success => Len(response.plans) = Len(request.waypoints)

\* A set of cells that no move leaves.
Enclosed(cells) ==
    \A c \in cells, n \in Cells : CanMove(costmap, c, n) => n \in cells

\* Safety: "No path found" is true.  Some set of cells holds the start of the
\* search and not its goal, and the robot cannot move out of it: no order in
\* which ties are broken, and no penalty, makes the search miss a path.
NoPathIsTrue ==
    response.reason = "no_path" =>
        \E from \in Snaps(costmap, start), to \in Snaps(costmap, LegTo(response.segment)) :
           \E cells \in SUBSET Cells :
              from \in cells /\ to \notin cells /\ Enclosed(cells)

\* Liveness: every request is answered: the search ends, and so does the walk
\* along the parents, which costs that are lowered on the way never turn into
\* a ring.
RequestsAreAnswered == (phase # "idle") ~> (phase = "idle")
=============================================================================
