-------------------------- MODULE GlobalPlannerProofs --------------------------
(***************************************************************************)
(* Proofs about the global planner: what it answers is drivable, what it   *)
(* refuses cannot be had, a request takes a bounded number of steps, and   *)
(* what it publishes holds together, for every grid size, costmap,         *)
(* request, cost and tolerance.                                            *)
(***************************************************************************)
EXTENDS GlobalPlanner, FiniteSetTheorems, WellFoundedInduction, TLAPS

-----------------------------------------------------------------------------
(* The inductive invariant                                                 *)

Planning == phase \in {"plan", "search", "trace"}

\* Where the handler is in the request.
ProgressOK ==
    /\ request.start \in Poses
    /\ request.waypoints \in Seq(Poses)
    /\ plans \in Seq(Seq(Positions))
    /\ phase \in Phases
    /\ phase = "idle" => plans = <<>>
    /\ phase # "idle" => response = NoResponse
    /\ Planning => Len(plans) < Len(request.waypoints) /\ start = LegFrom(Len(plans) + 1)
    /\ phase = "respond" => Len(plans) = Len(request.waypoints)

\* The costmap of a search is there.
EndsOK ==
    phase \in {"search", "trace"} =>
        /\ search.start \in Snaps(costmap, start)
        /\ search.goal \in Snaps(costmap, Waypoint)

\* The closed cells but the goal have all their moves opened, and an opened cell
\* has a closed parent it can be entered from.
Fields == {"start", "goal", "opened", "closed", "parent", "cost"}

SearchShape(s) ==
    /\ Fields \subseteq DOMAIN s
    /\ s.opened \subseteq Cells
    /\ s.closed \subseteq s.opened
    /\ s.start \in s.opened
    /\ s.parent \in [Cells -> Cells \cup {Root}]
    /\ s.parent[s.start] = Root
    /\ s.closed = {} => s.opened = {s.start}
    /\ s.closed # {} => s.start \in s.closed
    /\ \A c \in s.opened \ {s.start} :
          s.parent[c] \in s.closed /\ CanMove(costmap, s.parent[c], c)
    /\ \A c \in s.closed \ {s.goal} : \A n \in Cells :
          CanMove(costmap, c, n) => n \in s.opened

SearchOK ==
    phase \in {"search", "trace"} =>
        /\ SearchShape(search)
        /\ phase = "search" => search.goal \notin search.closed

\* The traced part of the path ends at the goal and is made of moves.
TraceOK ==
    phase = "trace" =>
        /\ path \in Seq(Cells)
        /\ path # <<>>
        /\ path[1] \in search.opened
        /\ path[Len(path)] = search.goal
        /\ \A i \in 1 .. Len(path) - 1 : CanMove(costmap, path[i], path[i + 1])

IInv ==
    /\ ProgressOK
    /\ EndsOK
    /\ SearchOK
    /\ TraceOK
    /\ PlanIsDrivable
    /\ NoPathIsTrue

-----------------------------------------------------------------------------
(* Lemmas                                                                  *)

LEMMA RootIsNoCell == Root \notin Cells
  BY GridAssumption DEF Root, Cells

LEMMA CellsArePositions == Cells \subseteq Positions
  BY GridAssumption DEF Cells, Positions

LEMMA DistanceIsNat ==
    ASSUME NEW i \in Int, NEW j \in Int
    PROVE  Distance(i, j) \in Nat
  BY DEF Distance

\* A snapped cell is a free cell near the pose.
LEMMA SnapIsFree ==
    ASSUME NEW grid, NEW pose \in Poses, NEW c \in Snaps(grid, pose)
    PROVE  /\ c \in Cells
           /\ ~Collides(grid, c, pose.heading)
           /\ Near(c, pose)
  <1>1. c \in FreeAround(grid, pose)
    BY DEF Snaps
  <1>2. c \in Around(pose.cell, Radius) /\ ~Collides(grid, c, pose.heading)
    BY <1>1 DEF FreeAround
  <1>3. c \in Cells
    BY <1>2 DEF Collides
  <1>4. PICK dx \in -Radius .. Radius, dy \in -Radius .. Radius :
          c = <<pose.cell[1] + dx, pose.cell[2] + dy>>
    BY <1>2 DEF Around
  <1>5. pose.cell[1] \in Int /\ pose.cell[2] \in Int
    BY DEF Poses, Positions
  <1>6. Near(c, pose)
    BY <1>4, <1>5, PlannerAssumption DEF Near, Distance
  <1> QED BY <1>2, <1>3, <1>6

\* A straight line has at least two samples and joins the two poses.
LEMMA SampleCountIsPositive ==
    ASSUME NEW from \in Poses, NEW to \in Poses
    PROVE  SampleCount(from, to) \in Nat \ {0}
  <1> DEFINE d == Toward(from.cell, to.cell)
             short == {n \in 0 .. Width + Height :
                          (n * SampleStep) * (n * SampleStep) < d[1] * d[1] + d[2] * d[2]}
  <1>1. IsFiniteSet(0 .. Width + Height)
    BY FS_Interval, GridAssumption
  <1>2. IsFiniteSet(short)
    BY <1>1, FS_Subset
  <1>3. Cardinality(short) \in Nat /\ (short # {} => Cardinality(short) # 0)
    BY <1>2, FS_CardinalityType, FS_EmptySet
  <1>4. SampleCount(from, to) = IF short = {} THEN 1 ELSE Cardinality(short)
    BY DEF SampleCount
  <1> HIDE DEF short
  <1> QED BY <1>3, <1>4

LEMMA DivisionAtStart ==
    ASSUME NEW n \in Nat \ {0}, NEW d \in Int
    PROVE  (2 * 0 * d + n) \div (2 * n) = 0
  BY Z3

LEMMA DivisionAtEnd ==
    ASSUME NEW n \in Nat \ {0}, NEW d \in Int
    PROVE  (2 * n * d + n) \div (2 * n) = d
  <1>1. 2 * n * d + n = (2 * n) * d + n
    OBVIOUS
  <1>2. ASSUME NEW m \in Nat \ {0}, NEW r \in Nat, r < m
        PROVE  (m * d + r) \div m = d
    BY <1>2, Z3
  <1> QED BY <1>1, <1>2, 2 * n \in Nat \ {0}, n < 2 * n

LEMMA LineJoinsPoses ==
    ASSUME NEW from \in Poses, NEW to \in Poses
    PROVE  /\ StraightLine(from, to) \in Seq(Positions)
           /\ StraightLine(from, to) # <<>>
           /\ DOMAIN StraightLine(from, to) = 1 .. SampleCount(from, to) + 1
           /\ StraightLine(from, to)[1] = from.cell
           /\ StraightLine(from, to)[Len(StraightLine(from, to))] = to.cell
  <1> DEFINE n == SampleCount(from, to)
             d == Toward(from.cell, to.cell)
  <1>1. n \in Nat \ {0}
    BY SampleCountIsPositive
  <1>2. /\ from.cell \in Int \X Int
        /\ to.cell \in Int \X Int
    BY DEF Poses, Positions
  <1>3. d[1] \in Int /\ d[2] \in Int
    BY <1>2 DEF Toward
  <1>4. ASSUME NEW i \in 0 .. n PROVE SampleCell(from, to, i, n) \in Positions
    <2>1. /\ ((2 * i * d[1] + n) \div (2 * n)) \in Int
          /\ ((2 * i * d[2] + n) \div (2 * n)) \in Int
      <3> HIDE DEF n, d
      <3> QED BY <1>1, <1>3
    <2> QED BY <1>2, <2>1 DEF SampleCell, Positions
  <1>5. SampleCell(from, to, 0, n) = from.cell
    <2>1. (2 * 0 * d[1] + n) \div (2 * n) = 0 /\ (2 * 0 * d[2] + n) \div (2 * n) = 0
      <3> HIDE DEF n, d
      <3> QED BY <1>1, <1>3, DivisionAtStart
    <2>2. SampleCell(from, to, 0, n) = <<from.cell[1] + 0, from.cell[2] + 0>>
      BY <2>1 DEF SampleCell
    <2> QED BY <1>2, <2>2
  <1>6. SampleCell(from, to, n, n) = to.cell
    <2>1. (2 * n * d[1] + n) \div (2 * n) = d[1] /\ (2 * n * d[2] + n) \div (2 * n) = d[2]
      <3> HIDE DEF n, d
      <3> QED BY <1>1, <1>3, DivisionAtEnd
    <2>2. SampleCell(from, to, n, n) = <<from.cell[1] + d[1], from.cell[2] + d[2]>>
      BY <2>1 DEF SampleCell
    <2> QED BY <1>2, <2>2 DEF Toward
  <1>7. StraightLine(from, to) = [i \in 1 .. n + 1 |-> SampleCell(from, to, i - 1, n)]
    BY DEF StraightLine
  <1> HIDE DEF n, d
  <1>8. /\ StraightLine(from, to) \in Seq(Positions)
        /\ Len(StraightLine(from, to)) = n + 1
    <2>1. \A i \in 1 .. n + 1 : i - 1 \in 0 .. n
      BY <1>1
    <2>2. StraightLine(from, to) \in [1 .. n + 1 -> Positions]
      BY <1>4, <1>7, <2>1
    <2>3. n + 1 \in Nat
      BY <1>1
    <2> QED BY <2>2, <2>3
  <1> QED BY <1>1, <1>5, <1>6, <1>7, <1>8 DEF n

-----------------------------------------------------------------------------
(* The search                                                              *)

LEMMA NewSearchShape ==
    ASSUME NEW from \in Cells, NEW to
    PROVE  /\ SearchShape(NewSearch(from, to))
           /\ NewSearch(from, to).start = from
           /\ NewSearch(from, to).goal = to
           /\ NewSearch(from, to).closed = {}
  <1>1. /\ Fields \subseteq DOMAIN NewSearch(from, to)
        /\ NewSearch(from, to).start = from
        /\ NewSearch(from, to).goal = to
        /\ NewSearch(from, to).opened = {from}
        /\ NewSearch(from, to).closed = {}
        /\ NewSearch(from, to).parent = [c \in Cells |-> Root]
    BY DEF NewSearch, NoSearch, Fields
  <1> QED BY <1>1 DEF SearchShape

\* One expansion keeps the shape: the moves out of the expanded cell are opened,
\* and only cells that are not closed get a new parent.
LEMMA ExpandKeepsShape ==
    ASSUME NEW s, SearchShape(s), NEW current \in Frontier(s), current # s.goal
    PROVE  /\ SearchShape(Expand(costmap, s, current))
           /\ Expand(costmap, s, current).start = s.start
           /\ Expand(costmap, s, current).goal = s.goal
           /\ Expand(costmap, s, current).closed = s.closed \cup {current}
  <1> DEFINE better == Improved(costmap, s, current)
             e == Expand(costmap, s, current)
  <1>1. /\ e.start = s.start
        /\ e.goal = s.goal
        /\ e.opened = s.opened \cup better
        /\ e.closed = s.closed \cup {current}
        /\ e.parent = [c \in Cells |-> IF c \in better THEN current ELSE s.parent[c]]
        /\ Fields \subseteq DOMAIN e
    BY DEF SearchShape, Expand, Fields
  <1>2. /\ better \subseteq Cells
        /\ \A c \in better : CanMove(costmap, current, c) /\ c \notin s.closed \cup {current}
        /\ \A c \in Cells : CanMove(costmap, current, c) /\ c \notin s.closed \cup {current}
                               => c \in s.opened \cup better
    BY DEF Improved
  <1>3. current \in s.opened /\ current \in Cells /\ current \notin s.closed
    BY DEF Frontier, SearchShape
  <1>4. s.start \in e.closed
    BY <1>1, <1>3 DEF SearchShape
  <1>5. s.start \notin better
    BY <1>1, <1>2, <1>4
  <1> HIDE DEF better, e
  <1>6. /\ e.opened \subseteq Cells
        /\ e.closed \subseteq e.opened
        /\ e.start \in e.opened
        /\ e.parent \in [Cells -> Cells \cup {Root}]
    BY <1>1, <1>2, <1>3 DEF SearchShape
  <1>7. e.parent[e.start] = Root
    BY <1>1, <1>5 DEF SearchShape
  <1>8. e.closed # {} /\ e.start \in e.closed
    BY <1>1, <1>4
  <1>9. ASSUME NEW c \in e.opened \ {e.start}
        PROVE  e.parent[c] \in e.closed /\ CanMove(costmap, e.parent[c], c)
    <2>1. c \in Cells
      BY <1>6
    <2>2. CASE c \in better
      BY <1>1, <1>2, <2>1, <2>2
    <2>3. CASE c \notin better
      <3>1. c \in s.opened \ {s.start} /\ e.parent[c] = s.parent[c]
        BY <1>1, <2>1, <2>3
      <3> QED BY <1>1, <3>1 DEF SearchShape
    <2> QED BY <2>2, <2>3
  <1>10. ASSUME NEW c \in e.closed \ {e.goal}, NEW n \in Cells, CanMove(costmap, c, n)
         PROVE  n \in e.opened
    <2>1. CASE c = current
      BY <1>1, <1>2, <1>3, <1>10, <2>1 DEF SearchShape
    <2>2. CASE c # current
      BY <1>1, <1>10, <2>2 DEF SearchShape
    <2> QED BY <2>1, <2>2
  <1>11. SearchShape(e)
    BY <1>1, <1>6, <1>7, <1>8, <1>9, <1>10 DEF SearchShape
  <1> QED BY <1>1, <1>11 DEF e

\* Closing the goal keeps it too: nothing is asked of the goal's moves.
LEMMA CloseKeepsShape ==
    ASSUME NEW s, SearchShape(s), s.goal \in Frontier(s)
    PROVE  /\ SearchShape(Close(s, s.goal))
           /\ Close(s, s.goal).start = s.start
           /\ Close(s, s.goal).goal = s.goal
           /\ Close(s, s.goal).opened = s.opened
  <1> DEFINE e == Close(s, s.goal)
  <1>1. /\ e.start = s.start /\ e.goal = s.goal /\ e.opened = s.opened
        /\ e.closed = s.closed \cup {s.goal} /\ e.parent = s.parent
    BY DEF SearchShape, Close, Fields
  <1>2. Fields \subseteq DOMAIN e
    BY DEF SearchShape, Close
  <1>3. s.goal \in s.opened
    BY DEF Frontier
  <1>4. e.start \in e.closed
    BY <1>1, <1>3 DEF SearchShape
  <1> HIDE DEF e
  <1>5. SearchShape(e)
    BY <1>1, <1>2, <1>3, <1>4 DEF SearchShape
  <1> QED BY <1>1, <1>5 DEF e

\* A search that runs dry has enclosed its start.
LEMMA DrySearchEncloses ==
    ASSUME NEW s, SearchShape(s), s.goal \notin s.closed, Frontier(s) = {}
    PROVE  s.start \in s.closed /\ s.closed \in SUBSET Cells /\ Enclosed(s.closed)
  BY DEF SearchShape, Frontier, Enclosed

-----------------------------------------------------------------------------
(* The path                                                                *)

\* One more cell at the front of the traced path.
LEMMA PathExtends ==
    ASSUME NEW p \in Seq(Cells), p # <<>>, NEW c \in Cells,
           CanMove(costmap, c, p[1]),
           \A i \in 1 .. Len(p) - 1 : CanMove(costmap, p[i], p[i + 1])
    PROVE  /\ <<c>> \o p \in Seq(Cells)
           /\ <<c>> \o p # <<>>
           /\ (<<c>> \o p)[1] = c
           /\ (<<c>> \o p)[Len(<<c>> \o p)] = p[Len(p)]
           /\ \A i \in 1 .. Len(<<c>> \o p) - 1 :
                 CanMove(costmap, (<<c>> \o p)[i], (<<c>> \o p)[i + 1])
  <1> DEFINE q == <<c>> \o p
  <1>1. /\ q \in Seq(Cells)
        /\ Len(q) = Len(p) + 1
        /\ q[1] = c
        /\ \A i \in 2 .. Len(q) : q[i] = p[i - 1]
    OBVIOUS
  <1>2. Len(p) \in Nat \ {0}
    OBVIOUS
  <1> HIDE DEF q
  <1>3. q # <<>> /\ q[Len(q)] = p[Len(p)]
    BY <1>1, <1>2
  <1>4. ASSUME NEW i \in 1 .. Len(q) - 1 PROVE CanMove(costmap, q[i], q[i + 1])
    <2>1. CASE i = 1
      BY <1>1, <1>2, <2>1
    <2>2. CASE i # 1
      <3>1. i - 1 \in 1 .. Len(p) - 1
        BY <1>1, <1>2, <2>2
      <3>2. q[i] = p[i - 1] /\ q[i + 1] = p[i]
        BY <1>1, <1>2, <2>2, <3>1
      <3> QED BY <3>1, <3>2
    <2> QED BY <2>1, <2>2
  <1> QED BY <1>1, <1>3, <1>4 DEF q

\* A leg planned by the search is drivable.
LEMMA TracedLegIsDrivable ==
    ASSUME NEW from \in Poses, NEW to \in Poses,
           NEW p \in Seq(Cells), p # <<>>,
           p[1] \in Snaps(costmap, from), p[Len(p)] \in Snaps(costmap, to),
           \A i \in 1 .. Len(p) - 1 : CanMove(costmap, p[i], p[i + 1])
    PROVE  DrivableLeg(p, from, to)
  <1>1. ~Collides(costmap, p[1], from.heading) /\ Near(p[1], from)
    BY SnapIsFree
  <1>2. ~Collides(costmap, p[Len(p)], to.heading) /\ Near(p[Len(p)], to)
    BY SnapIsFree
  <1> QED BY <1>1, <1>2 DEF DrivableLeg, SearchedLeg

LEMMA StraightLegIsDrivable ==
    ASSUME NEW from \in Poses, NEW to \in Poses, LineFree(costmap, from, to)
    PROVE  DrivableLeg(StraightLine(from, to), from, to)
  <1>1. \A i \in DOMAIN StraightLine(from, to) :
          ~Collides(costmap, StraightLine(from, to)[i], LineHeading(from, to))
    BY LineJoinsPoses DEF LineFree
  <1> QED BY <1>1, LineJoinsPoses DEF DrivableLeg, StraightLeg

-----------------------------------------------------------------------------
(* Init and the end of a leg                                               *)

LEMMA RequestsAreWellFormed ==
    /\ NoRequest.start \in Poses /\ NoRequest.waypoints \in Seq(Poses)
    /\ \A r \in Requests : r.start \in Poses /\ r.waypoints \in Seq(Poses)
  BY RequestAssumption DEF NoRequest, Nowhere, East, Poses, Positions, RequestShape

LEMMA InitIInv == Init => IInv
  <1> SUFFICES ASSUME Init PROVE IInv
    OBVIOUS
  <1>1. ProgressOK
    BY RequestsAreWellFormed DEF Init, ProgressOK, Planning, Phases
  <1>2. EndsOK /\ SearchOK /\ TraceOK
    BY DEF Init, EndsOK, SearchOK, TraceOK
  <1>3. PlanIsDrivable /\ NoPathIsTrue
    BY DEF Init, PlanIsDrivable, NoPathIsTrue, NoResponse
  <1> QED BY <1>1, <1>2, <1>3 DEF IInv

\* The poses of the current leg.
LEMMA LegPoses ==
    ASSUME IInv, Planning
    PROVE  /\ start \in Poses
           /\ Waypoint \in Poses
           /\ LegTo(Len(plans) + 1) = Waypoint
           /\ start = LegFrom(Len(plans) + 1)
           /\ Len(plans) + 1 \in 1 .. Len(request.waypoints)
           /\ Len(plans) \in Nat
  <1>1. /\ request.start \in Poses /\ request.waypoints \in Seq(Poses)
        /\ plans \in Seq(Seq(Positions))
        /\ Len(plans) < Len(request.waypoints)
        /\ start = LegFrom(Len(plans) + 1)
    BY DEF IInv, ProgressOK
  <1>2. Len(plans) + 1 \in 1 .. Len(request.waypoints) /\ Len(plans) \in Nat
    BY <1>1
  <1>3. start \in Poses
    <2>1. CASE plans = <<>>
      BY <1>1, <2>1 DEF LegFrom
    <2>2. CASE Len(plans) # 0
      <3>1. Len(plans) \in 1 .. Len(request.waypoints)
        BY <1>2, <2>2
      <3>2. start = request.waypoints[Len(plans)]
        BY <1>1, <1>2, <2>2 DEF LegFrom
      <3> QED BY <1>1, <3>1, <3>2
    <2> QED BY <1>1, <2>1, <2>2
  <1> QED BY <1>1, <1>2, <1>3 DEF LegTo, Waypoint

\* What the properties say of a leg depends on the costmap only.
LEMMA SameCostmap ==
    ASSUME UNCHANGED <<costmap, request>>
    PROVE  /\ \A c, f, t : DrivableLeg(c, f, t)' <=> DrivableLeg(c, f, t)
           /\ \A c : Enclosed(c)' <=> Enclosed(c)
           /\ \A i : LegFrom(i)' = LegFrom(i) /\ LegTo(i)' = LegTo(i)
  BY DEF DrivableLeg, SearchedLeg, StraightLeg, Enclosed, LegFrom, LegTo

\* A drivable leg is added.
LEMMA LegDoneIInv ==
    ASSUME IInv, Planning, NEW cells \in Seq(Positions),
           DrivableLeg(cells, start, Waypoint), LegDone(cells)
    PROVE  IInv'
  <1>1. /\ plans' = Append(plans, cells)
        /\ start' = Waypoint
        /\ phase' = IF Len(plans) + 1 = Len(request.waypoints) THEN "respond" ELSE "plan"
        /\ UNCHANGED <<costmap, request, response>>
    BY DEF LegDone
  <1>2. /\ request.start \in Poses /\ request.waypoints \in Seq(Poses)
        /\ plans \in Seq(Seq(Positions))
        /\ response = NoResponse
        /\ Len(plans) < Len(request.waypoints)
    BY DEF IInv, ProgressOK, Planning
  <1>3. /\ plans' \in Seq(Seq(Positions))
        /\ Len(plans') = Len(plans) + 1
        /\ Len(plans) \in Nat
        /\ Len(request.waypoints) \in Nat
    BY <1>1, <1>2
  <1>4. ProgressOK'
    <2>1. start' = LegFrom(Len(plans) + 1)'
      BY <1>1, <1>3 DEF LegFrom, Waypoint
    <2> QED BY <1>1, <1>2, <1>3, <2>1 DEF ProgressOK, Planning, Phases, NoResponse
  <1>5. EndsOK' /\ SearchOK' /\ TraceOK'
    BY <1>1 DEF EndsOK, SearchOK, TraceOK
  <1>6. PlanIsDrivable'
    <2>1. ASSUME NEW i \in DOMAIN plans'
          PROVE  DrivableLeg(plans'[i], LegFrom(i), LegTo(i))
      <3>1. CASE i = Len(plans) + 1
        <4>1. plans'[i] = cells
          BY <1>1, <1>2, <3>1
        <4> QED BY <3>1, <4>1, LegPoses
      <3>2. CASE i # Len(plans) + 1
        <4>1. i \in DOMAIN plans /\ plans'[i] = plans[i]
          BY <1>1, <1>2, <1>3, <2>1, <3>2
        <4> QED BY <4>1 DEF IInv, PlanIsDrivable
      <3> QED BY <3>1, <3>2
    <2> QED BY <1>1, <1>2, <2>1, SameCostmap DEF PlanIsDrivable, NoResponse
  <1>7. NoPathIsTrue'
    BY <1>1, <1>2 DEF NoPathIsTrue, NoResponse
  <1> QED BY <1>4, <1>5, <1>6, <1>7 DEF IInv

\* The handler gives up: there is no plan, and if the search found no path,
\* the start of the leg is enclosed.
LEMMA FailIInv ==
    ASSUME IInv, Planning, NEW reason, Fail(reason),
           reason = "no_path" =>
             \E from \in Snaps(costmap, start), to \in Snaps(costmap, Waypoint) :
               \E cells \in SUBSET Cells :
                  from \in cells /\ to \notin cells /\ Enclosed(cells)
    PROVE  IInv'
  <1>1. /\ plans' = <<>>
        /\ phase' = "idle"
        /\ response' = [NoResponse EXCEPT !.reason = reason, !.segment = Len(plans) + 1]
        /\ UNCHANGED <<costmap, request, start>>
    BY DEF Fail
  <1>2. /\ response'.reason = reason /\ response'.segment = Len(plans) + 1
        /\ response'.plans = <<>> /\ response'.success = FALSE
    BY <1>1 DEF NoResponse
  <1>3. ProgressOK'
    BY <1>1 DEF IInv, ProgressOK, Planning, Phases
  <1>4. EndsOK' /\ SearchOK' /\ TraceOK'
    BY <1>1 DEF EndsOK, SearchOK, TraceOK
  <1>5. PlanIsDrivable'
    BY <1>1, <1>2 DEF PlanIsDrivable
  <1>6. NoPathIsTrue'
    <2>1. LegTo(response.segment)' = Waypoint
      BY <1>1, <1>2 DEF LegTo, Waypoint
    <2> QED BY <1>1, <1>2, <2>1, SameCostmap DEF NoPathIsTrue
  <1> QED BY <1>3, <1>4, <1>5, <1>6 DEF IInv

-----------------------------------------------------------------------------
(* The steps                                                               *)

\* Every callback but the handler leaves an idle node without a response.
LEMMA IdleIInv ==
    ASSUME IInv, phase = "idle", UNCHANGED <<phase, plans>>, Forget
    PROVE  IInv'
  <1>1. /\ request' = NoRequest /\ response' = NoResponse /\ phase' = "idle"
        /\ plans' = <<>>
    BY DEF IInv, ProgressOK, Forget
  <1>2. ProgressOK'
    BY <1>1, RequestsAreWellFormed DEF ProgressOK, Planning, Phases
  <1> QED BY <1>1, <1>2
         DEF IInv, EndsOK, SearchOK, TraceOK, PlanIsDrivable, NoPathIsTrue, NoResponse

LEMMA ReceiveIInv ==
    ASSUME IInv, NEW r \in Requests, Receive(r)
    PROVE  IInv'
  <1>1. /\ request' = r /\ start' = r.start /\ response' = NoResponse
        /\ phase' = IF r.waypoints = <<>> THEN "respond" ELSE "plan"
        /\ plans' = <<>>
    BY DEF IInv, ProgressOK, Receive
  <1>2. r.start \in Poses /\ r.waypoints \in Seq(Poses)
    BY RequestsAreWellFormed
  <1>3. r.waypoints # <<>> => Len(r.waypoints) > 0
    BY <1>2
  <1>4. ProgressOK'
    BY <1>1, <1>2, <1>3 DEF ProgressOK, Planning, Phases, LegFrom
  <1>5. EndsOK' /\ SearchOK' /\ TraceOK'
    BY <1>1 DEF EndsOK, SearchOK, TraceOK
  <1>6. PlanIsDrivable' /\ NoPathIsTrue'
    BY <1>1 DEF PlanIsDrivable, NoPathIsTrue, NoResponse
  <1> QED BY <1>4, <1>5, <1>6 DEF IInv

LEMMA StraightIInv ==
    ASSUME IInv, GoStraight
    PROVE  IInv'
  <1>1. Planning /\ LineFree(costmap, start, Waypoint)
        /\ LegDone(StraightLine(start, Waypoint))
    BY DEF GoStraight, Plannable, Planning
  <1>2. start \in Poses /\ Waypoint \in Poses
    BY <1>1, LegPoses
  <1> QED BY <1>1, <1>2, StraightLegIsDrivable, LineJoinsPoses, LegDoneIInv

\* The search begins at the snapped cells, or is over before it begins.
LEMMA StartIInv ==
    ASSUME IInv, StartSearch
    PROVE  IInv'
  <1>1. Planning
    BY DEF StartSearch, Plannable, Planning
  <1>2. start \in Poses /\ Waypoint \in Poses
    BY <1>1, LegPoses
  <1>3. PICK from \in Snaps(costmap, start), to \in Snaps(costmap, Waypoint) :
          IF from = to THEN LegDone(<<from>>)
          ELSE /\ search' = NewSearch(from, to)
               /\ phase' = "search"
               /\ UNCHANGED <<lifecycle, costmap, request, start, path, plans, response>>
    BY DEF StartSearch
  <1>4. from \in Cells /\ to \in Cells
    BY <1>2, SnapIsFree
  <1>5. CASE from = to
    <2>1. <<from>> \in Seq(Cells) /\ <<from>> \in Seq(Positions)
      BY <1>4, CellsArePositions
    <2>2. DrivableLeg(<<from>>, start, Waypoint)
      <3>1. \A i \in 1 .. Len(<<from>>) - 1 :
              CanMove(costmap, <<from>>[i], <<from>>[i + 1])
        OBVIOUS
      <3>2. <<from>>[1] = from /\ <<from>>[Len(<<from>>)] = to /\ <<from>> # <<>>
        BY <1>5
      <3> QED BY <1>2, <2>1, <3>1, <3>2, TracedLegIsDrivable
    <2> QED BY <1>1, <1>3, <1>5, <2>1, <2>2, LegDoneIInv
  <1>6. CASE from # to
    <2>1. /\ search' = NewSearch(from, to)
          /\ phase' = "search"
          /\ UNCHANGED <<costmap, request, start, plans, response>>
      BY <1>3, <1>6
    <2>2. /\ SearchShape(NewSearch(from, to))
          /\ NewSearch(from, to).start = from
          /\ NewSearch(from, to).goal = to
          /\ NewSearch(from, to).closed = {}
      BY <1>4, NewSearchShape
    <2>3. Waypoint' = Waypoint
      BY <2>1 DEF Waypoint
    <2>4. ProgressOK'
      BY <1>1, <2>1 DEF IInv, ProgressOK, Planning, Phases, LegFrom
    <2>5. EndsOK'
      BY <2>1, <2>2, <2>3 DEF EndsOK
    <2>6. SearchOK' /\ TraceOK'
      BY <2>1, <2>2 DEF SearchOK, TraceOK, SearchShape
    <2>7. PlanIsDrivable' /\ NoPathIsTrue'
      BY <2>1, SameCostmap DEF IInv, PlanIsDrivable, NoPathIsTrue
    <2> QED BY <2>4, <2>5, <2>6, <2>7 DEF IInv
  <1> QED BY <1>5, <1>6

\* What the steps of the search leave alone.
LEMMA FrameIInv ==
    ASSUME IInv, Planning, phase' \in {"search", "trace"},
           UNCHANGED <<costmap, request, start, plans, response>>,
           search'.start = search.start, search'.goal = search.goal,
           phase \in {"search", "trace"}
    PROVE  ProgressOK' /\ EndsOK' /\ PlanIsDrivable' /\ NoPathIsTrue'
  <1>1. ProgressOK'
    BY DEF IInv, ProgressOK, Planning, Phases, LegFrom
  <1>2. EndsOK'
    BY DEF IInv, EndsOK, Waypoint
  <1>3. PlanIsDrivable' /\ NoPathIsTrue'
    BY SameCostmap DEF IInv, PlanIsDrivable, NoPathIsTrue
  <1> QED BY <1>1, <1>2, <1>3

LEMMA ExpandNextIInv ==
    ASSUME IInv, ExpandNext
    PROVE  IInv'
  <1>1. phase = "search" /\ UNCHANGED <<costmap, request, start, phase, path, plans, response>>
    BY DEF ExpandNext
  <1>2. PICK current \in Best(search) :
          current # search.goal /\ search' = Expand(costmap, search, current)
    BY DEF ExpandNext
  <1>3. current \in Frontier(search)
    BY DEF Best
  <1>4. SearchShape(search) /\ search.goal \notin search.closed
    BY <1>1 DEF IInv, SearchOK
  <1>5. /\ SearchShape(search')
        /\ search'.start = search.start /\ search'.goal = search.goal
        /\ search'.closed = search.closed \cup {current}
    BY <1>2, <1>3, <1>4, ExpandKeepsShape
  <1>6. SearchOK'
    BY <1>1, <1>2, <1>4, <1>5 DEF SearchOK, SearchShape
  <1>7. TraceOK'
    BY <1>1 DEF TraceOK
  <1> QED BY <1>1, <1>5, <1>6, <1>7, FrameIInv DEF IInv, Planning

LEMMA ReachGoalIInv ==
    ASSUME IInv, ReachGoal
    PROVE  IInv'
  <1>1. /\ phase = "search" /\ phase' = "trace"
        /\ search' = Close(search, search.goal)
        /\ path' = <<search.goal>>
        /\ search.goal \in Frontier(search)
        /\ UNCHANGED <<costmap, request, start, plans, response>>
    BY DEF ReachGoal, Best
  <1>2. SearchShape(search)
    BY <1>1 DEF IInv, SearchOK
  <1>3. /\ SearchShape(search')
        /\ search'.start = search.start /\ search'.goal = search.goal
        /\ search'.opened = search.opened
    BY <1>1, <1>2, CloseKeepsShape
  <1>4. search.goal \in search.opened /\ search.goal \in Cells
    BY <1>1, <1>2 DEF Frontier, SearchShape
  <1>5. SearchOK'
    BY <1>1, <1>3 DEF SearchOK, SearchShape
  <1>6. TraceOK'
    BY <1>1, <1>3, <1>4 DEF TraceOK
  <1> QED BY <1>1, <1>3, <1>5, <1>6, FrameIInv DEF IInv, Planning

LEMMA TraceBackIInv ==
    ASSUME IInv, TraceBack
    PROVE  IInv'
  <1> DEFINE c == search.parent[path[1]]
  <1>1. /\ phase = "trace" /\ phase' = "trace"
        /\ c # Root
        /\ path' = <<c>> \o path
        /\ UNCHANGED <<costmap, request, start, search, plans, response>>
    BY DEF TraceBack
  <1>2. /\ SearchShape(search)
        /\ path \in Seq(Cells) /\ path # <<>>
        /\ path[1] \in search.opened
        /\ path[Len(path)] = search.goal
        /\ \A i \in 1 .. Len(path) - 1 : CanMove(costmap, path[i], path[i + 1])
    BY <1>1 DEF IInv, SearchOK, TraceOK
  <1>3. c \in search.closed /\ CanMove(costmap, c, path[1])
    BY <1>1, <1>2 DEF SearchShape
  <1>4. c \in search.opened /\ c \in Cells
    BY <1>2, <1>3 DEF SearchShape
  <1> HIDE DEF c
  <1>5. TraceOK'
    BY <1>1, <1>2, <1>3, <1>4, PathExtends DEF TraceOK
  <1>6. SearchOK'
    BY <1>1, <1>2 DEF SearchOK, SearchShape
  <1> QED BY <1>1, <1>5, <1>6, FrameIInv DEF IInv, Planning

LEMMA TraceDoneIInv ==
    ASSUME IInv, TraceDone
    PROVE  IInv'
  <1>1. phase = "trace" /\ Planning /\ search.parent[path[1]] = Root /\ LegDone(path)
    BY DEF TraceDone, Planning
  <1>2. /\ SearchShape(search)
        /\ path \in Seq(Cells) /\ path # <<>>
        /\ path[1] \in search.opened
        /\ path[Len(path)] = search.goal
        /\ \A i \in 1 .. Len(path) - 1 : CanMove(costmap, path[i], path[i + 1])
        /\ search.start \in Snaps(costmap, start)
        /\ search.goal \in Snaps(costmap, Waypoint)
    BY <1>1 DEF IInv, SearchOK, TraceOK, EndsOK
  <1>3. path[1] = search.start
    <2>1. ASSUME path[1] # search.start PROVE FALSE
      <3>1. search.parent[path[1]] \in search.closed
        BY <1>2, <2>1 DEF SearchShape
      <3>2. search.parent[path[1]] \in Cells
        BY <1>2, <3>1 DEF SearchShape
      <3> QED BY <1>1, <3>2, RootIsNoCell
    <2> QED BY <2>1
  <1>4. start \in Poses /\ Waypoint \in Poses
    BY <1>1, LegPoses
  <1>5. DrivableLeg(path, start, Waypoint)
    BY <1>2, <1>3, <1>4, TracedLegIsDrivable
  <1>6. path \in Seq(Positions)
    BY <1>2, CellsArePositions
  <1> QED BY <1>1, <1>5, <1>6, LegDoneIInv

LEMMA NoPathIInv ==
    ASSUME IInv, NoPath
    PROVE  IInv'
  <1>1. phase = "search" /\ Planning /\ Frontier(search) = {} /\ Fail("no_path")
    BY DEF NoPath, Planning
  <1>2. /\ SearchShape(search) /\ search.goal \notin search.closed
        /\ search.start \in Snaps(costmap, start)
        /\ search.goal \in Snaps(costmap, Waypoint)
    BY <1>1 DEF IInv, SearchOK, EndsOK
  <1>3. /\ search.start \in search.closed
        /\ search.closed \in SUBSET Cells
        /\ Enclosed(search.closed)
    BY <1>1, <1>2, DrySearchEncloses
  <1> QED BY <1>1, <1>2, <1>3, FailIInv

LEMMA RespondIInv ==
    ASSUME IInv, Respond
    PROVE  IInv'
  <1>1. /\ phase = "respond" /\ phase' = "idle" /\ plans' = <<>>
        /\ response'.success = TRUE /\ response'.reason = "planned"
        /\ response'.plans = plans
        /\ UNCHANGED <<costmap, request, start>>
    BY DEF Respond
  <1>2. Len(plans) = Len(request.waypoints)
    BY <1>1 DEF IInv, ProgressOK
  <1>3. ProgressOK'
    BY <1>1 DEF IInv, ProgressOK, Planning, Phases
  <1>4. EndsOK' /\ SearchOK' /\ TraceOK'
    BY <1>1 DEF EndsOK, SearchOK, TraceOK
  <1>5. PlanIsDrivable'
    BY <1>1, <1>2, SameCostmap DEF IInv, PlanIsDrivable
  <1>6. NoPathIsTrue'
    BY <1>1 DEF NoPathIsTrue
  <1> QED BY <1>3, <1>4, <1>5, <1>6 DEF IInv

-----------------------------------------------------------------------------
(* The theorems                                                            *)

LEMMA NextIInv == IInv /\ [Next]_vars => IInv'
  <1> SUFFICES ASSUME IInv, [Next]_vars PROVE IInv'
    OBVIOUS
  <1>1. ASSUME NEW r \in Requests, Receive(r) PROVE IInv'
    BY <1>1, ReceiveIInv
  <1>2. ASSUME NEW map \in Maps, Costmap(map) PROVE IInv'
    BY <1>2, IdleIInv DEF Costmap, leg
  <1>3. CASE InvalidCostmap
    BY <1>3, IdleIInv DEF InvalidCostmap, leg
  <1>4. CASE Lifecycle
    <2>1. CASE OnConfigure
      BY <2>1, IdleIInv DEF OnConfigure, leg
    <2>2. CASE OnActivate \/ OnDeactivate
      BY <2>2, IdleIInv DEF OnActivate, OnDeactivate, leg
    <2>3. CASE OnCleanup \/ OnShutdown
      BY <2>3, IdleIInv DEF OnCleanup, OnShutdown, leg
    <2> QED BY <1>4, <2>1, <2>2, <2>3 DEF Lifecycle
  <1>5. CASE NoCostmap
    BY <1>5, FailIInv DEF NoCostmap, Planning
  <1>6. CASE Outside
    BY <1>6, FailIInv DEF Outside, Planning
  <1>7. CASE Occupied
    BY <1>7, FailIInv DEF Occupied, Plannable, Planning
  <1>8. CASE UNCHANGED vars
    <2>1. UNCHANGED <<costmap, request, start, phase, search, path, plans, response>>
      BY <1>8 DEF vars, leg
    <2>2. ProgressOK'
      BY <2>1 DEF IInv, ProgressOK, Planning, LegFrom
    <2>3. EndsOK' /\ SearchOK' /\ TraceOK'
      BY <2>1 DEF IInv, EndsOK, SearchOK, SearchShape, TraceOK, Waypoint
    <2>4. PlanIsDrivable' /\ NoPathIsTrue'
      BY <2>1, SameCostmap DEF IInv, PlanIsDrivable, NoPathIsTrue
    <2> QED BY <2>2, <2>3, <2>4 DEF IInv
  <1> QED
    BY <1>1, <1>2, <1>3, <1>4, <1>5, <1>6, <1>7, <1>8, StraightIInv, StartIInv,
       ExpandNextIInv, ReachGoalIInv, TraceBackIInv, TraceDoneIInv, NoPathIInv, RespondIInv
    DEF Next, Callbacks, Handler

LEMMA Invariance == Spec => []IInv
  BY InitIInv, NextIInv, PTL DEF Spec

\* Whatever the planner answers can be driven, on every grid.
THEOREM PlansAreDrivable == Spec => []PlanIsDrivable
  <1>1. IInv => PlanIsDrivable
    BY DEF IInv
  <1> QED BY <1>1, Invariance, PTL

\* When the search gives up there is no path: it is complete, however ties are
\* broken and whatever the penalties are.
THEOREM SearchIsComplete == Spec => []NoPathIsTrue
  <1>1. IInv => NoPathIsTrue
    BY DEF IInv
  <1> QED BY <1>1, Invariance, PTL

-----------------------------------------------------------------------------
(* The end of a request                                                    *)
(*                                                                         *)
(* What makes a handler come to its end: each of its steps lowers a number *)
(* (StepsLeft), and a search that has opened cells left can take one out   *)
(* (Best).  A traced path is no longer than the grid because it follows    *)
(* the order in which the cells were closed: an open cell may be given     *)
(* another parent, a closed one may not.                                   *)

NCells == Cardinality(Cells)

\* A rank that every closed cell shares with no later one: a cell was closed
\* after its parent.
Order(s, rank) ==
    /\ \A c \in s.closed : rank[c] < Cardinality(s.closed)
    /\ \A c \in s.closed \ {s.start} : rank[s.parent[c]] < rank[c]

\* The path leads from cell to cell in that order.
Ascends(rank) ==
    /\ path[1] \in search.closed
    /\ \A i, j \in DOMAIN path : i < j => rank[path[i]] < rank[path[j]]

Ordered ==
    phase \in {"search", "trace"} =>
        \E rank \in [Cells -> Nat] :
           Order(search, rank) /\ (phase = "trace" => Ascends(rank))

CostOK == phase = "search" => search.cost \in [Cells -> Nat]

EndInv == IInv /\ Ordered /\ CostOK

\* A leg takes at most a step for its start, one for each cell it closes, one
\* for its goal and one for each cell of its path.
LegBudget == 2 * NCells + 2

StepsLeft ==
    LET legs == Len(request.waypoints) - Len(plans)
    IN  CASE phase = "idle" -> 0
          [] phase = "respond" -> 1
          [] phase = "plan" -> legs * LegBudget + 1
          [] phase = "search" ->
                 (legs - 1) * LegBudget + 2 * NCells + 2 - Cardinality(search.closed)
          [] phase = "trace" -> (legs - 1) * LegBudget + NCells + 2 - Len(path)

\* The grid is finite.
LEMMA CellsAreFinite ==
    /\ IsFiniteSet(Cells) /\ NCells \in Nat
    /\ \A S \in SUBSET Cells :
         IsFiniteSet(S) /\ Cardinality(S) \in Nat /\ Cardinality(S) <= NCells
<1>1. IsFiniteSet(0 .. Width - 1) /\ IsFiniteSet(0 .. Height - 1)
  BY FS_Interval, GridAssumption
<1>2. IsFiniteSet(Cells)
  BY <1>1, FS_Product DEF Cells
<1> QED BY <1>2, FS_Subset, FS_CardinalityType DEF NCells

\* Something is least under any measure.
LEMMA LeastExists ==
    ASSUME NEW S, S # {}, NEW f \in [S -> Nat]
    PROVE  \E x \in S : \A y \in S : f[x] <= f[y]
<1> DEFINE T == {f[x] : x \in S}
           less == {p \in Nat \X Nat : p[1] < p[2]}
<1>1. T \subseteq Nat /\ T # {}
  OBVIOUS
<1>2. IsWellFoundedOn(less, Nat)
  BY NatLessThanWellFounded DEF OpToRel
<1>3. PICK m \in T : \A n \in T : ~(<<n, m>> \in less)
  <2> HIDE DEF T, less
  <2> QED BY <1>1, <1>2, WFMin
<1>4. \A n \in T : m <= n
  <2>1. \A n \in Nat : <<n, m>> \in less \/ m <= n
    <3>1. m \in Nat
      BY <1>1
    <3> QED BY <3>1
  <2> HIDE DEF T, less
  <2> QED BY <1>1, <1>3, <2>1
<1>5. PICK x \in S : f[x] = m
  OBVIOUS
<1>6. \A y \in S : f[y] \in T
  OBVIOUS
<1> HIDE DEF T
<1> QED BY <1>4, <1>5, <1>6

\* A path that follows the order visits no cell twice, so it is no longer than
\* the grid.
LEMMA AscendingIsShort ==
    ASSUME NEW p \in Seq(Cells), NEW rank \in [Cells -> Nat],
           \A i, j \in DOMAIN p : i < j => rank[p[i]] < rank[p[j]]
    PROVE  /\ \A i, j \in DOMAIN p : i # j => p[i] # p[j]
           /\ Len(p) <= NCells
<1>1. DOMAIN p = 1 .. Len(p) /\ Len(p) \in Nat /\ \A i \in DOMAIN p : p[i] \in Cells
  OBVIOUS
<1>2. ASSUME NEW i \in DOMAIN p, NEW j \in DOMAIN p, i # j PROVE p[i] # p[j]
  <2>1. i < j \/ j < i
    BY <1>1, <1>2
  <2>2. rank[p[i]] < rank[p[j]] \/ rank[p[j]] < rank[p[i]]
    BY <2>1
  <2>3. rank[p[i]] \in Nat /\ rank[p[j]] \in Nat
    BY <1>1
  <2> QED BY <2>2, <2>3
<1>3. p \in [1 .. Len(p) -> Cells]
  BY <1>1
<1>4. IsFiniteSet(1 .. Len(p)) /\ Cardinality(1 .. Len(p)) = Len(p)
  <2>1. Len(p) \in Int /\ 1 \in Int /\ ~(1 > Len(p) /\ Len(p) # 0)
    BY <1>1
  <2>2. IsFiniteSet(1 .. Len(p))
        /\ Cardinality(1 .. Len(p)) = IF 1 > Len(p) THEN 0 ELSE Len(p) - 1 + 1
    BY <2>1, FS_Interval
  <2> QED BY <1>1, <2>1, <2>2
<1>5. ~(NCells < Len(p))
  <2> SUFFICES ASSUME NCells < Len(p) PROVE FALSE
    OBVIOUS
  <2>1. \E x, y \in 1 .. Len(p) : x # y /\ p[x] = p[y]
    BY <1>3, <1>4, CellsAreFinite, FS_PigeonHole DEF NCells
  <2> QED BY <1>1, <1>2, <2>1
<1> QED BY <1>1, <1>2, <1>5, CellsAreFinite

\* The cell that is closed next comes last in the order.
LEMMA OrderGrows ==
    ASSUME NEW s, SearchShape(s), NEW rank \in [Cells -> Nat], Order(s, rank),
           NEW current \in Frontier(s),
           NEW e, e.start = s.start, e.closed = s.closed \cup {current},
           \A c \in s.closed \cup {current} : e.parent[c] = s.parent[c]
    PROVE  /\ Cardinality(e.closed) = Cardinality(s.closed) + 1
           /\ \E r \in [Cells -> Nat] : Order(e, r)
<1>1. /\ current \in Cells /\ current \notin s.closed
      /\ s.closed \subseteq Cells
      /\ current # s.start => s.parent[current] \in s.closed
      /\ \A c \in s.closed \ {s.start} : s.parent[c] \in s.closed
  BY DEF Frontier, SearchShape
<1>2. IsFiniteSet(s.closed) /\ Cardinality(s.closed) \in Nat
  BY <1>1, CellsAreFinite
<1> DEFINE n == Cardinality(s.closed)
           r == [rank EXCEPT ![current] = n]
<1>3. Cardinality(e.closed) = n + 1
  <2>1. Cardinality(s.closed \cup {current}) =
          IF current \in s.closed THEN Cardinality(s.closed) ELSE Cardinality(s.closed) + 1
    BY <1>2, FS_AddElement
  <2> QED BY <1>1, <2>1
<1>4. r \in [Cells -> Nat]
  BY <1>2
<1>5. r[current] = n /\ \A c \in s.closed : r[c] = rank[c] /\ rank[c] \in Nat /\ rank[c] < n
  BY <1>1 DEF Order
<1>6. \A c \in s.closed \ {s.start} : rank[s.parent[c]] < rank[c]
  BY DEF Order
<1> HIDE DEF r, n
<1>7. \A c \in e.closed : r[c] < n + 1
  BY <1>2, <1>5 DEF n
<1>8. ASSUME NEW c \in e.closed \ {e.start} PROVE r[e.parent[c]] < r[c]
  <2>1. CASE c = current
    BY <1>1, <1>5, <2>1
  <2>2. CASE c # current
    <3>1. c \in s.closed \ {s.start} /\ e.parent[c] = s.parent[c] /\ s.parent[c] \in s.closed
      BY <1>1, <2>2
    <3> QED BY <1>5, <1>6, <3>1
  <2> QED BY <2>1, <2>2
<1>9. Order(e, r)
  BY <1>3, <1>7, <1>8 DEF Order
<1> QED BY <1>3, <1>4, <1>9 DEF n

\* The order is kept while the search and the trace go on.
LEMMA OrderedSteps ==
    ASSUME IInv, Ordered, [Next]_vars
    PROVE  Ordered'
<1>1. CASE StartSearch /\ phase' = "search"
  <2>1. start \in Poses /\ Waypoint \in Poses
    BY <1>1, LegPoses DEF StartSearch, Plannable, Planning
  <2>2. PICK from \in Snaps(costmap, start), to \in Snaps(costmap, Waypoint) :
          IF from = to THEN LegDone(<<from>>) ELSE search' = NewSearch(from, to)
    BY <1>1 DEF StartSearch
  <2>3. from # to
    BY <1>1, <2>2 DEF LegDone
  <2>4. search'.closed = {}
    BY <2>1, <2>2, <2>3, SnapIsFree, NewSearchShape
  <2>5. [c \in Cells |-> 0] \in [Cells -> Nat]
    OBVIOUS
  <2>6. Order(search', [c \in Cells |-> 0])
    BY <2>4 DEF Order
  <2> QED BY <1>1, <2>5, <2>6 DEF Ordered
<1>2. CASE ExpandNext
  <2>1. PICK current \in Best(search) :
          current # search.goal /\ search' = Expand(costmap, search, current)
    BY <1>2 DEF ExpandNext
  <2>2. phase = "search" /\ phase' = "search" /\ SearchShape(search)
    BY <1>2 DEF ExpandNext, IInv, SearchOK
  <2>3. current \in Frontier(search)
    BY DEF Best
  <2>4. search'.start = search.start /\ search'.closed = search.closed \cup {current}
    BY <2>1, <2>2, <2>3, ExpandKeepsShape
  <2>5. search'.parent = [c \in Cells |-> IF c \in Improved(costmap, search, current)
                                         THEN current ELSE search.parent[c]]
    BY <2>1, <2>2 DEF Expand, SearchShape, Fields
  <2>6. \A c \in search.closed \cup {current} :
          c \in Cells /\ c \notin Improved(costmap, search, current)
    BY <2>2, <2>3 DEF Improved, Frontier, SearchShape
  <2>7. \A c \in search.closed \cup {current} : search'.parent[c] = search.parent[c]
    BY <2>5, <2>6
  <2>8. PICK rank \in [Cells -> Nat] : Order(search, rank)
    BY <2>2 DEF Ordered
  <2>9. \E r \in [Cells -> Nat] : Order(search', r)
    BY <2>2, <2>3, <2>4, <2>7, <2>8, OrderGrows
  <2> QED BY <2>2, <2>9 DEF Ordered
<1>3. CASE ReachGoal
  <2>1. /\ phase = "search" /\ search.goal \in Frontier(search)
        /\ search' = Close(search, search.goal) /\ path' = <<search.goal>>
    BY <1>3 DEF ReachGoal, Best
  <2>2. SearchShape(search)
    BY <2>1 DEF IInv, SearchOK
  <2>3. /\ search'.start = search.start
        /\ search'.closed = search.closed \cup {search.goal}
        /\ search'.parent = search.parent
    BY <2>1, <2>2 DEF Close, SearchShape, Fields
  <2>4. PICK rank \in [Cells -> Nat] : Order(search, rank)
    BY <2>1 DEF Ordered
  <2>5. PICK r \in [Cells -> Nat] : Order(search', r)
    BY <2>1, <2>2, <2>3, <2>4, OrderGrows
  <2>6. Ascends(r)'
    BY <2>1, <2>3 DEF Ascends
  <2> QED BY <2>5, <2>6 DEF Ordered
<1>4. CASE TraceBack
  <2> DEFINE c == search.parent[path[1]]
  <2>1. /\ phase = "trace" /\ c # Root /\ path' = <<c>> \o path /\ UNCHANGED search
    BY <1>4 DEF TraceBack
  <2>2. /\ SearchShape(search) /\ path \in Seq(Cells) /\ path # <<>>
    BY <2>1 DEF IInv, SearchOK, TraceOK
  <2>3. PICK rank \in [Cells -> Nat] : Order(search, rank) /\ Ascends(rank)
    BY <2>1 DEF Ordered
  <2>4. path[1] \in search.closed /\ path[1] # search.start
    BY <2>1, <2>2, <2>3 DEF Ascends, SearchShape
  <2>5. c \in search.closed /\ c \in Cells /\ rank[c] < rank[path[1]]
    BY <2>2, <2>3, <2>4 DEF Order, SearchShape
  <2> HIDE DEF c
  <2>6. /\ path' \in Seq(Cells) /\ Len(path') = Len(path) + 1 /\ path'[1] = c
        /\ \A i \in 2 .. Len(path') : path'[i] = path[i - 1]
    BY <2>1, <2>2, <2>5
  <2>7. ASSUME NEW i \in DOMAIN path', NEW j \in DOMAIN path', i < j
        PROVE  rank[path'[i]] < rank[path'[j]]
    <3>1. /\ j - 1 \in DOMAIN path /\ path'[j] = path[j - 1]
          /\ DOMAIN path = 1 .. Len(path) /\ Len(path) \in Nat
      BY <2>2, <2>6, <2>7
    <3>2. \A k \in DOMAIN path : rank[path[k]] \in Nat
      BY <2>2
    <3>3. rank[c] \in Nat
      BY <2>5
    <3>4. CASE i # 1
      <4>1. i - 1 \in DOMAIN path /\ path'[i] = path[i - 1] /\ i - 1 < j - 1
        BY <2>6, <2>7, <3>1, <3>4
      <4> QED BY <2>3, <3>1, <4>1 DEF Ascends
    <3>5. CASE i = 1
      <4>1. 1 \in DOMAIN path /\ (j - 1 = 1 \/ 1 < j - 1)
        BY <3>1
      <4>2. CASE j - 1 = 1
        BY <2>5, <2>6, <3>1, <3>5, <4>2
      <4>3. CASE 1 < j - 1
        <5>1. rank[path[1]] < rank[path[j - 1]]
          BY <2>3, <3>1, <4>1, <4>3 DEF Ascends
        <5>2. rank[path[1]] \in Nat /\ rank[path[j - 1]] \in Nat
          BY <3>1, <3>2, <4>1
        <5>3. rank[c] < rank[path[j - 1]]
          BY <2>5, <3>3, <5>1, <5>2
        <5> QED BY <2>6, <3>1, <3>5, <5>3
      <4> QED BY <4>1, <4>2, <4>3
    <3> QED BY <3>4, <3>5
  <2>8. Ascends(rank)' /\ Order(search', rank)
    BY <2>1, <2>3, <2>5, <2>6, <2>7 DEF Ascends, Order
  <2> QED BY <2>8 DEF Ordered
<1>5. CASE UNCHANGED <<phase, search, path>>
  BY <1>5 DEF Ordered, Order, Ascends
<1>6. CASE phase' \notin {"search", "trace"}
  BY <1>6 DEF Ordered
<1> QED BY <1>1, <1>2, <1>3, <1>4, <1>5, <1>6
        DEF Next, Callbacks, Handler, Lifecycle, vars, leg, Receive, Costmap, InvalidCostmap,
            OnConfigure, OnActivate, OnDeactivate, OnCleanup, OnShutdown, NoCostmap, Outside,
            Occupied, Fail, GoStraight, LegDone, StartSearch, TraceDone, NoPath, Respond

\* A move costs something between two cells of the grid.
LEMMA CostsAreNat ==
    ASSUME NEW s, SearchShape(s), s.cost \in [Cells -> Nat],
           s.start \in Cells, s.goal \in Cells,
           NEW current \in Cells, NEW next \in Cells
    PROVE  CostThrough(s, current, next) \in Nat
<1>1. \A a, b \in Nat : a * b \in Nat
  OBVIOUS
<1>2. \A a, b \in Cells : Distance(a[1], b[1]) \in Nat /\ Distance(a[2], b[2]) \in Nat
  <2>1. \A a \in Cells : a[1] \in Int /\ a[2] \in Int
    BY GridAssumption DEF Cells
  <2> QED BY <2>1, DistanceIsNat
<1>3. HoldPenalty \in Nat /\ AlignPenalty \in Nat /\ TurnPenalty \in Nat
      /\ StraightCost \in Nat /\ DiagonalCost \in Nat
  BY SearchAssumption DEF SearchAssumption
<1>4. RowBias(next, s.start, s.goal) \in Nat
  <2>1. HoldPenalty * Distance(next[2], s.start[2]) \in Nat
    BY <1>1, <1>2, <1>3
  <2>2. AlignPenalty * Distance(next[2], s.goal[2]) \in Nat
    BY <1>1, <1>2, <1>3
  <2> QED BY <2>1, <2>2 DEF RowBias
<1>5. (IF s.parent[current] = Root THEN 0 ELSE TurnCost(s.parent[current], current, next)) \in Nat
  BY <1>3 DEF TurnCost
<1>6. s.cost[current] \in Nat
  OBVIOUS
<1>7. \A a, b, c, d \in Nat : a + b + c + d \in Nat
  OBVIOUS
<1>8. (IF Diagonal(current, next) THEN DiagonalCost ELSE StraightCost) \in Nat
  BY <1>3
<1> QED BY <1>4, <1>5, <1>6, <1>7, <1>8 DEF CostThrough

LEMMA CostSteps ==
    ASSUME IInv, CostOK, [Next]_vars
    PROVE  CostOK'
<1>1. CASE StartSearch /\ phase' = "search"
  <2>1. PICK from \in Snaps(costmap, start), to \in Snaps(costmap, Waypoint) :
          IF from = to THEN LegDone(<<from>>) ELSE search' = NewSearch(from, to)
    BY <1>1 DEF StartSearch
  <2>2. search' = NewSearch(from, to)
    BY <1>1, <2>1 DEF LegDone
  <2>3. search'.cost = [c \in Cells |-> 0]
    BY <2>2 DEF NewSearch, NoSearch
  <2> QED BY <2>3 DEF CostOK
<1>2. CASE ExpandNext
  <2>1. PICK current \in Best(search) : search' = Expand(costmap, search, current)
    BY <1>2 DEF ExpandNext
  <2>2. /\ phase = "search" /\ phase' = "search" /\ SearchShape(search)
        /\ search.start \in Snaps(costmap, start) /\ search.goal \in Snaps(costmap, Waypoint)
        /\ search.cost \in [Cells -> Nat]
    BY <1>2 DEF ExpandNext, IInv, SearchOK, EndsOK, CostOK
  <2>3. start \in Poses /\ Waypoint \in Poses
    BY <2>2, LegPoses DEF Planning
  <2>4. search.start \in Cells /\ search.goal \in Cells /\ current \in Cells
    BY <2>2, <2>3, SnapIsFree DEF Best, Frontier, SearchShape
  <2>5. search'.cost = [c \in Cells |-> IF c \in Improved(costmap, search, current)
                                       THEN CostThrough(search, current, c) ELSE search.cost[c]]
    BY <2>1, <2>2 DEF Expand, SearchShape, Fields
  <2>6. \A c \in Cells : CostThrough(search, current, c) \in Nat
    BY <2>2, <2>4, CostsAreNat
  <2> QED BY <2>2, <2>5, <2>6 DEF CostOK
<1>3. CASE UNCHANGED <<phase, search>>
  BY <1>3 DEF CostOK
<1>4. CASE phase' # "search"
  BY <1>4 DEF CostOK
<1> QED BY <1>1, <1>2, <1>3, <1>4
        DEF Next, Callbacks, Handler, Lifecycle, vars, leg, Receive, Costmap, InvalidCostmap,
            OnConfigure, OnActivate, OnDeactivate, OnCleanup, OnShutdown, NoCostmap, Outside,
            Occupied, Fail, GoStraight, LegDone, StartSearch, ReachGoal, TraceBack, TraceDone,
            NoPath, Respond

LEMMA EndInvariance == Spec => []EndInv
<1>1. Init => EndInv
  BY InitIInv DEF Init, EndInv, Ordered, CostOK
<1>2. EndInv /\ [Next]_vars => EndInv'
  BY NextIInv, OrderedSteps, CostSteps DEF EndInv
<1> QED BY <1>1, <1>2, PTL DEF Spec

\* The parents of a search never form a ring: the path that is traced along
\* them, through cells whose parent and cost were lowered several times,
\* visits no cell twice.
THEOREM PathHasNoRing ==
    Spec => [](phase = "trace" => \A i, j \in DOMAIN path : i # j => path[i] # path[j])
<1>1. EndInv => (phase = "trace" => \A i, j \in DOMAIN path : i # j => path[i] # path[j])
  <2> SUFFICES ASSUME EndInv, phase = "trace"
               PROVE  \A i, j \in DOMAIN path : i # j => path[i] # path[j]
    OBVIOUS
  <2>1. path \in Seq(Cells)
    BY DEF EndInv, IInv, TraceOK
  <2>2. PICK rank \in [Cells -> Nat] : Ascends(rank)
    BY DEF EndInv, Ordered
  <2> QED BY <2>1, <2>2, AscendingIsShort DEF Ascends
<1> QED BY <1>1, EndInvariance, PTL

\* The cells of the open set always have a best one, whatever the costs: a
\* search comes to a halt only when it ran out of cells.
THEOREM SearchGoesOn == Spec => [](phase = "search" => Frontier(search) = {} \/ Best(search) # {})
<1>1. EndInv => (phase = "search" => Frontier(search) = {} \/ Best(search) # {})
  <2> SUFFICES ASSUME EndInv, phase = "search", Frontier(search) # {} PROVE Best(search) # {}
    OBVIOUS
  <2>1. /\ SearchShape(search) /\ search.cost \in [Cells -> Nat]
        /\ search.goal \in Snaps(costmap, Waypoint)
    BY DEF EndInv, IInv, SearchOK, EndsOK, CostOK
  <2>2. search.goal \in Cells /\ Frontier(search) \subseteq Cells
    BY <2>1, LegPoses, SnapIsFree DEF Frontier, SearchShape, Planning, EndInv
  <2>3. \A c \in Cells : Heuristic(c, search.goal) \in Nat
    <3> SUFFICES ASSUME NEW c \in Cells PROVE Heuristic(c, search.goal) \in Nat
      OBVIOUS
    <3>1. /\ c[1] \in Int /\ c[2] \in Int /\ search.goal[1] \in Int /\ search.goal[2] \in Int
      BY <2>2, GridAssumption DEF Cells
    <3> DEFINE dx == Distance(c[1], search.goal[1])
               dy == Distance(c[2], search.goal[2])
               low == IF dx < dy THEN dx ELSE dy
               high == IF dx < dy THEN dy ELSE dx
    <3>2. dx \in Nat /\ dy \in Nat
      BY <3>1, DistanceIsNat
    <3>3. Heuristic(c, search.goal) =
            IF EightConnected THEN low * DiagonalCost + (high - low) * StraightCost
            ELSE (dx + dy) * StraightCost
      BY DEF Heuristic
    <3> HIDE DEF dx, dy
    <3>4. low \in Nat /\ high - low \in Nat /\ dx + dy \in Nat
      BY <3>2
    <3>5. StraightCost \in Nat /\ DiagonalCost \in Nat
      BY SearchAssumption DEF SearchAssumption
    <3>6. \A a, b \in Nat : a * b \in Nat /\ a + b \in Nat
      OBVIOUS
    <3> HIDE DEF low, high
    <3>7. low * DiagonalCost \in Nat /\ (high - low) * StraightCost \in Nat
          /\ (dx + dy) * StraightCost \in Nat
      BY <3>4, <3>5, <3>6
    <3> QED BY <3>3, <3>6, <3>7
  <2> DEFINE f == [c \in Frontier(search) |-> Priority(search, c)]
  <2>4. f \in [Frontier(search) -> Nat]
    BY <2>1, <2>2, <2>3 DEF Priority
  <2>5. PICK c \in Frontier(search) : \A other \in Frontier(search) : f[c] <= f[other]
    <3> HIDE DEF f
    <3> QED BY <2>4, LeastExists
  <2> QED BY <2>5 DEF Best
<1> QED BY <1>1, EndInvariance, PTL

\* How many legs are left, and how much of the present one.
LEMMA WhatIsLeft ==
    ASSUME EndInv
    PROVE  /\ NCells \in Nat /\ LegBudget \in Nat
           /\ Len(plans) \in Nat /\ Len(request.waypoints) \in Nat
           /\ Planning => Len(request.waypoints) - Len(plans) \in Nat \ {0}
           /\ phase = "search" => /\ Cardinality(search.closed) \in Nat
                                  /\ Cardinality(search.closed) < NCells
           /\ phase = "trace" => Len(path) \in Nat /\ Len(path) <= NCells
<1>1. NCells \in Nat /\ LegBudget \in Nat
  BY CellsAreFinite DEF LegBudget
<1>2. /\ Len(plans) \in Nat /\ Len(request.waypoints) \in Nat
      /\ Planning => Len(plans) < Len(request.waypoints)
  BY DEF EndInv, IInv, ProgressOK
<1>3. Planning => Len(request.waypoints) - Len(plans) \in Nat \ {0}
  BY <1>2
<1>4. ASSUME phase = "search"
      PROVE  Cardinality(search.closed) \in Nat /\ Cardinality(search.closed) < NCells
  <2>1. /\ search.closed \in SUBSET Cells /\ search.goal \notin search.closed
        /\ search.goal \in Snaps(costmap, Waypoint)
    BY <1>4 DEF EndInv, IInv, SearchOK, SearchShape, EndsOK
  <2>2. search.goal \in Cells
    BY <1>4, <2>1, LegPoses, SnapIsFree DEF EndInv, Planning
  <2>3. Cardinality(search.closed) # NCells
    BY <2>1, <2>2, CellsAreFinite, FS_Subset DEF NCells
  <2> QED BY <2>1, <2>3, CellsAreFinite
<1>5. ASSUME phase = "trace" PROVE Len(path) \in Nat /\ Len(path) <= NCells
  <2>1. path \in Seq(Cells)
    BY <1>5 DEF EndInv, IInv, TraceOK
  <2>2. PICK rank \in [Cells -> Nat] : Ascends(rank)
    BY <1>5 DEF EndInv, Ordered
  <2> QED BY <2>1, <2>2, AscendingIsShort DEF Ascends
<1> QED BY <1>1, <1>2, <1>3, <1>4, <1>5

\* The budget of the legs that are left after the present one.
LEMMA Budget ==
    ASSUME NEW k \in Nat \ {0}, NEW b \in Nat
    PROVE  /\ (k - 1) * b \in Nat /\ k * b = (k - 1) * b + b
BY SMT

\* StepsLeft in each phase, by the budget of the legs after the present one.
LEMMA StepsLeftIs ==
    ASSUME EndInv
    PROVE  /\ phase = "idle" => StepsLeft = 0
           /\ phase = "respond" => StepsLeft = 1
           /\ Planning =>
                \E later \in Nat :
                   /\ later = (Len(request.waypoints) - Len(plans) - 1) * LegBudget
                   /\ phase = "plan" => StepsLeft = later + 2 * NCells + 3
                   /\ phase = "search" =>
                        StepsLeft = later + 2 * NCells + 2 - Cardinality(search.closed)
                   /\ phase = "trace" => StepsLeft = later + NCells + 2 - Len(path)
                   /\ StepsLeft \in Nat /\ later + 1 < StepsLeft
<1>1. (phase = "idle" => StepsLeft = 0) /\ (phase = "respond" => StepsLeft = 1)
  BY DEF StepsLeft
<1>2. ASSUME Planning
      PROVE  \E later \in Nat :
                /\ later = (Len(request.waypoints) - Len(plans) - 1) * LegBudget
                /\ phase = "plan" => StepsLeft = later + 2 * NCells + 3
                /\ phase = "search" =>
                     StepsLeft = later + 2 * NCells + 2 - Cardinality(search.closed)
                /\ phase = "trace" => StepsLeft = later + NCells + 2 - Len(path)
                /\ StepsLeft \in Nat /\ later + 1 < StepsLeft
  <2> DEFINE k == Len(request.waypoints) - Len(plans)
             later == (k - 1) * LegBudget
  <2>1. k \in Nat \ {0} /\ LegBudget \in Nat /\ NCells \in Nat
        /\ LegBudget = 2 * NCells + 2
    BY <1>2, WhatIsLeft DEF LegBudget
  <2>2. /\ phase = "plan" => StepsLeft = k * LegBudget + 1
        /\ phase = "search" => StepsLeft = later + 2 * NCells + 2 - Cardinality(search.closed)
        /\ phase = "trace" => StepsLeft = later + NCells + 2 - Len(path)
    BY DEF StepsLeft
  <2> HIDE DEF k
  <2>3. later \in Nat /\ k * LegBudget = later + LegBudget
    BY <2>1, Budget
  <2> HIDE DEF later
  <2>4. phase = "plan" => StepsLeft = later + 2 * NCells + 3
    BY <2>1, <2>2, <2>3
  <2>5. later = (Len(request.waypoints) - Len(plans) - 1) * LegBudget
    BY DEF later, k
  <2>6. StepsLeft \in Nat /\ later + 1 < StepsLeft
    <3>1. CASE phase = "plan"
      BY <2>1, <2>3, <2>4, <3>1
    <3>2. CASE phase = "search"
      <4>1. Cardinality(search.closed) \in Nat /\ Cardinality(search.closed) < NCells
        BY <3>2, WhatIsLeft
      <4> QED BY <2>1, <2>2, <2>3, <3>2, <4>1
    <3>3. CASE phase = "trace"
      <4>1. Len(path) \in Nat /\ Len(path) <= NCells
        BY <3>3, WhatIsLeft
      <4> QED BY <2>1, <2>2, <2>3, <3>3, <4>1
    <3> QED BY <1>2, <3>1, <3>2, <3>3 DEF Planning
  <2> QED BY <2>2, <2>3, <2>4, <2>5, <2>6
<1> QED BY <1>1, <1>2

LEMMA StepsLeftIsNat == EndInv => StepsLeft \in Nat
<1> SUFFICES ASSUME EndInv PROVE StepsLeft \in Nat
  OBVIOUS
<1>1. phase \in {"idle", "respond"} \/ Planning
  BY DEF EndInv, IInv, ProgressOK, Phases, Planning
<1>2. CASE Planning
  BY <1>2, StepsLeftIs
<1> QED BY <1>1, <1>2, StepsLeftIs

\* A finished leg takes its budget with it.
LEMMA LegDoneShrinks ==
    ASSUME EndInv, EndInv', Planning, NEW cells, LegDone(cells)
    PROVE  StepsLeft' < StepsLeft
<1>1. PICK later \in Nat :
        /\ later = (Len(request.waypoints) - Len(plans) - 1) * LegBudget
        /\ StepsLeft \in Nat /\ later + 1 < StepsLeft
  BY StepsLeftIs
<1>2. later + 1 < StepsLeft
  BY <1>1
<1>3. /\ phase' = IF Len(plans) + 1 = Len(request.waypoints) THEN "respond" ELSE "plan"
      /\ request' = request /\ Len(plans') = Len(plans) + 1
  BY DEF LegDone, EndInv, IInv, ProgressOK
<1>4. CASE phase' = "respond"
  <2>1. StepsLeft' = 1
    BY <1>4, StepsLeftIs DEF StepsLeft
  <2> QED BY <1>2, <2>1, StepsLeftIsNat
<1>5. CASE phase' = "plan"
  <2>1. StepsLeft' = (Len(request.waypoints) - (Len(plans) + 1)) * LegBudget + 1
    BY <1>3, <1>5 DEF StepsLeft, LegBudget, NCells
  <2>2. Len(request.waypoints) - (Len(plans) + 1) = Len(request.waypoints) - Len(plans) - 1
    BY WhatIsLeft
  <2>3. StepsLeft' = later + 1
    BY <1>1, <2>1, <2>2
  <2> QED BY <1>2, <2>3
<1> QED BY <1>3, <1>4, <1>5

LEMMA HandlerShrinks ==
    ASSUME EndInv, EndInv', Handler
    PROVE  StepsLeft' < StepsLeft
<1>1. CASE GoStraight
  BY <1>1, LegDoneShrinks DEF GoStraight, Plannable, Planning
<1>2. CASE TraceDone
  BY <1>2, LegDoneShrinks DEF TraceDone, Planning
<1>3. CASE Planning /\ phase' = "idle"
  <2>1. StepsLeft' = 0
    BY <1>3 DEF StepsLeft
  <2>2. \E later \in Nat : StepsLeft \in Nat /\ later + 1 < StepsLeft
    BY <1>3, StepsLeftIs
  <2> QED BY <2>1, <2>2
<1>4. CASE Respond
  <2>1. StepsLeft' = 0 /\ StepsLeft = 1
    BY <1>4 DEF Respond, StepsLeft
  <2> QED BY <2>1
<1>5. CASE phase \in {"plan", "search", "trace"} /\ phase' \in {"search", "trace"}
           /\ UNCHANGED <<request, plans>>
           /\ \/ phase = "plan" /\ phase' = "search"
              \/ phase = "search" /\ phase' = "search"
                 /\ Cardinality(search'.closed) = Cardinality(search.closed) + 1
              \/ phase = "search" /\ phase' = "trace" /\ Len(path') = 1
              \/ phase = "trace" /\ phase' = "trace" /\ Len(path') = Len(path) + 1
  <2>1. PICK later \in Nat :
          /\ later = (Len(request.waypoints) - Len(plans) - 1) * LegBudget
          /\ phase = "plan" => StepsLeft = later + 2 * NCells + 3
          /\ phase = "search" => StepsLeft = later + 2 * NCells + 2 - Cardinality(search.closed)
          /\ phase = "trace" => StepsLeft = later + NCells + 2 - Len(path)
    BY <1>5, StepsLeftIs DEF Planning
  <2>2. /\ phase' = "search" => StepsLeft' = later + 2 * NCells + 2 - Cardinality(search'.closed)
        /\ phase' = "trace" => StepsLeft' = later + NCells + 2 - Len(path')
    BY <1>5, <2>1 DEF StepsLeft, LegBudget, NCells
  <2>3. phase' = "search" => Cardinality(search'.closed) \in Nat
    <3>1. phase' = "search" => search'.closed \in SUBSET Cells
      BY DEF EndInv, IInv, SearchOK, SearchShape
    <3> QED BY <3>1, CellsAreFinite
  <2>4. /\ NCells \in Nat
        /\ phase = "search" => /\ Cardinality(search.closed) \in Nat
                               /\ Cardinality(search.closed) < NCells
        /\ phase = "trace" => Len(path) \in Nat
    BY WhatIsLeft
  <2>5. CASE phase = "plan"
    BY <1>5, <2>1, <2>2, <2>3, <2>4, <2>5
  <2>6. CASE phase = "search" /\ phase' = "search"
    BY <1>5, <2>1, <2>2, <2>3, <2>4, <2>6
  <2>7. CASE phase = "search" /\ phase' = "trace"
    BY <1>5, <2>1, <2>2, <2>4, <2>7
  <2>8. CASE phase = "trace"
    BY <1>5, <2>1, <2>2, <2>4, <2>8
  <2> QED BY <1>5, <2>5, <2>6, <2>7, <2>8
<1>6. ASSUME StartSearch PROVE StepsLeft' < StepsLeft
  <2>1. PICK from \in Snaps(costmap, start), to \in Snaps(costmap, Waypoint) :
          IF from = to THEN LegDone(<<from>>)
          ELSE phase' = "search" /\ UNCHANGED <<request, plans>>
    BY <1>6 DEF StartSearch
  <2>2. phase = "plan" /\ Planning
    BY <1>6 DEF StartSearch, Plannable, Planning
  <2>3. CASE from = to
    BY <2>1, <2>2, <2>3, LegDoneShrinks
  <2>4. CASE from # to
    BY <1>5, <2>1, <2>2, <2>4
  <2> QED BY <2>3, <2>4
<1>7. ASSUME ExpandNext PROVE StepsLeft' < StepsLeft
  <2>1. PICK current \in Best(search) :
          current # search.goal /\ search' = Expand(costmap, search, current)
    BY <1>7 DEF ExpandNext
  <2>2. phase = "search" /\ phase' = "search" /\ SearchShape(search)
        /\ UNCHANGED <<request, plans>>
    BY <1>7 DEF ExpandNext, EndInv, IInv, SearchOK
  <2>3. current \in Frontier(search)
    BY DEF Best
  <2>4. search'.closed = search.closed \cup {current}
    BY <2>1, <2>2, <2>3, ExpandKeepsShape
  <2>5. current \notin search.closed /\ search.closed \in SUBSET Cells
    BY <2>2, <2>3 DEF Frontier, SearchShape
  <2>6. Cardinality(search.closed \cup {current}) =
          IF current \in search.closed THEN Cardinality(search.closed)
          ELSE Cardinality(search.closed) + 1
    BY <2>5, CellsAreFinite, FS_AddElement
  <2> QED BY <1>5, <2>2, <2>4, <2>5, <2>6
<1>8. CASE ReachGoal
  BY <1>5, <1>8 DEF ReachGoal
<1>9. ASSUME TraceBack PROVE StepsLeft' < StepsLeft
  <2>1. phase = "trace" /\ path \in Seq(Cells) /\ SearchShape(search) /\ path # <<>>
        /\ path[1] \in search.opened
    BY <1>9 DEF TraceBack, EndInv, IInv, TraceOK, SearchOK
  <2>2. search.parent[path[1]] \in Cells
    BY <1>9, <2>1 DEF SearchShape, TraceBack
  <2>3. Len(path') = Len(path) + 1
    BY <1>9, <2>1, <2>2 DEF TraceBack
  <2> QED BY <1>5, <1>9, <2>1, <2>3 DEF TraceBack
<1> QED BY <1>1, <1>2, <1>3, <1>4, <1>6, <1>7, <1>8, <1>9
        DEF Handler, NoCostmap, Outside, Occupied, Plannable, NoPath, Fail, Planning

\* While a request is worked off nothing else happens, and each step brings its
\* end closer by one at least: a request of n waypoints is answered within
\* n * LegBudget + 1 steps of its handler, whatever the costs and the costmap.
THEOREM RequestsShrink ==
    Spec => [][(phase # "idle" => StepsLeft' < StepsLeft) /\ StepsLeft \in Nat]_vars
<1>1. EndInv /\ EndInv' /\ [Next]_vars =>
        [(phase # "idle" => StepsLeft' < StepsLeft) /\ StepsLeft \in Nat]_vars
  <2> SUFFICES ASSUME EndInv, EndInv', Next, phase # "idle" PROVE StepsLeft' < StepsLeft
    BY StepsLeftIsNat
  <2>1. Handler
    BY DEF Next, Callbacks, Lifecycle, Receive, Costmap, InvalidCostmap, OnConfigure,
           OnActivate, OnDeactivate, OnCleanup, OnShutdown
  <2> QED BY <2>1, HandlerShrinks
<1> QED BY <1>1, EndInvariance, PTL DEF Spec

-----------------------------------------------------------------------------
(* The snap                                                                *)

\* The scan of growing squares finds a free cell when there is one, and the
\* same one every time.
LEMMA SnapFindsOne ==
    ASSUME NEW grid, NEW pose \in Poses
    PROVE  /\ FreeAround(grid, pose) # {} => Snaps(grid, pose) # {}
           /\ \A a, b \in Snaps(grid, pose) : a = b
<1> DEFINE free == FreeAround(grid, pose)
           Ring(c) == IF Distance(c[1], pose.cell[1]) > Distance(c[2], pose.cell[2])
                      THEN Distance(c[1], pose.cell[1]) ELSE Distance(c[2], pose.cell[2])
<1>1. /\ free \subseteq Cells
      /\ \A c \in Cells : c \in Nat \X Nat
  BY GridAssumption DEF FreeAround, Collides, Cells
<1>2. \A c \in free : c = <<c[1], c[2]>> /\ c[1] \in Nat /\ c[2] \in Nat
  BY <1>1
<1>3. \A c \in free : Ring(c) \in Nat
  <2>1. pose.cell[1] \in Int /\ pose.cell[2] \in Int
    BY DEF Poses, Positions
  <2> HIDE DEF free
  <2> QED BY <1>2, <2>1, DistanceIsNat
<1>4. \A a, b : ScannedBefore(pose.cell, a, b) <=>
        \/ Ring(a) < Ring(b)
        \/ Ring(a) = Ring(b) /\ a[2] < b[2]
        \/ Ring(a) = Ring(b) /\ a[2] = b[2] /\ a[1] < b[1]
  BY DEF ScannedBefore
<1>5. Snaps(grid, pose) =
        {c \in free : \A other \in free : other = c \/ ScannedBefore(pose.cell, c, other)}
  BY DEF Snaps
<1> HIDE DEF free, Ring
<1>6. ASSUME free # {} PROVE Snaps(grid, pose) # {}
  <2> DEFINE f == [c \in free |-> Ring(c)]
  <2>1. PICK x \in free : \A y \in free : Ring(x) <= Ring(y)
    <3>1. f \in [free -> Nat]
      BY <1>3
    <3>2. \E x \in free : \A y \in free : f[x] <= f[y]
      <4> HIDE DEF f
      <4> QED BY <1>6, <3>1, LeastExists
    <3> QED BY <3>2
  <2> DEFINE inner == {c \in free : Ring(c) = Ring(x)}
             g == [c \in inner |-> c[2]]
  <2>2. PICK y \in inner : \A z \in inner : y[2] <= z[2]
    <3>1. inner # {} /\ g \in [inner -> Nat]
      BY <1>2
    <3>2. \E a \in inner : \A b \in inner : g[a] <= g[b]
      <4> HIDE DEF g, inner
      <4> QED BY <3>1, LeastExists
    <3> QED BY <3>2
  <2> DEFINE row == {c \in inner : c[2] = y[2]}
             h == [c \in row |-> c[1]]
  <2>3. PICK z \in row : \A w \in row : z[1] <= w[1]
    <3>1. row # {} /\ h \in [row -> Nat]
      BY <1>2
    <3>2. \E a \in row : \A b \in row : h[a] <= h[b]
      <4> HIDE DEF h, row
      <4> QED BY <3>1, LeastExists
    <3> QED BY <3>2
  <2>4. z \in free /\ Ring(z) = Ring(x) /\ z[2] = y[2]
    OBVIOUS
  <2>5. ASSUME NEW other \in free, other # z
        PROVE  ScannedBefore(pose.cell, z, other)
    <3>1. Ring(z) \in Nat /\ Ring(other) \in Nat /\ Ring(z) <= Ring(other)
      BY <1>3, <2>1, <2>4
    <3>2. CASE Ring(z) < Ring(other)
      BY <1>4, <3>2
    <3>3. CASE Ring(z) = Ring(other)
      <4>1. other \in inner /\ z[2] <= other[2]
        BY <2>2, <2>4, <3>3
      <4>2. z[2] \in Nat /\ other[2] \in Nat /\ z[1] \in Nat /\ other[1] \in Nat
        BY <1>2, <2>4
      <4>3. CASE z[2] < other[2]
        BY <1>4, <3>3, <4>3
      <4>4. CASE z[2] = other[2]
        <5>1. z[1] <= other[1]
          BY <2>3, <2>4, <4>1, <4>4
        <5>2. z[1] # other[1]
          BY <1>2, <2>4, <2>5, <4>4
        <5>3. z[1] < other[1]
          BY <4>2, <5>1, <5>2
        <5> QED BY <1>4, <3>3, <4>4, <5>3
      <4> QED BY <4>1, <4>2, <4>3, <4>4
    <3> QED BY <3>1, <3>2, <3>3
  <2> QED BY <1>5, <2>4, <2>5
<1>7. ASSUME NEW a \in Snaps(grid, pose), NEW b \in Snaps(grid, pose), a # b PROVE FALSE
  <2>1. a \in free /\ b \in free /\ ScannedBefore(pose.cell, a, b)
        /\ ScannedBefore(pose.cell, b, a)
    BY <1>5, <1>7
  <2>2. /\ Ring(a) \in Nat /\ Ring(b) \in Nat
        /\ a[1] \in Nat /\ a[2] \in Nat /\ b[1] \in Nat /\ b[2] \in Nat
    BY <1>2, <1>3, <2>1
  <2> QED BY <1>4, <2>1, <2>2
<1> QED BY <1>6, <1>7 DEF free

\* "Occupied" is true: around one of the two poses of the leg the whole square
\* of the snap radius has no cell the robot can stand on in the pose's heading.
OccupiedIsTrue ==
    response.reason = "occupied" =>
        \E pose \in {start, LegTo(response.segment)} : FreeAround(costmap, pose) = {}

\* The square holds no free cell when the planner turns a request down because
\* its ends are occupied, in whatever order it looks at the square.
THEOREM OccupiedHolds == Spec => []OccupiedIsTrue
<1>1. Init => OccupiedIsTrue
  BY DEF Init, OccupiedIsTrue, NoResponse
<1>2. ASSUME IInv, OccupiedIsTrue, [Next]_vars PROVE OccupiedIsTrue'
  <2>1. ASSUME Occupied PROVE OccupiedIsTrue'
    <3>1. /\ Planning /\ UNCHANGED <<costmap, request, start>>
          /\ Snaps(costmap, start) = {} \/ Snaps(costmap, Waypoint) = {}
          /\ response' = [NoResponse EXCEPT !.reason = "occupied", !.segment = Len(plans) + 1]
      BY <2>1 DEF Occupied, Plannable, Planning, Fail
    <3>2. start \in Poses /\ Waypoint \in Poses
      BY <1>2, <3>1, LegPoses
    <3>3. FreeAround(costmap, start) = {} \/ FreeAround(costmap, Waypoint) = {}
      BY <3>1, <3>2, SnapFindsOne
    <3>4. LegTo(response.segment)' = Waypoint
      BY <3>1 DEF NoResponse, LegTo, Waypoint
    <3> QED BY <3>1, <3>3, <3>4 DEF OccupiedIsTrue
  <2>2. CASE NoCostmap \/ Outside \/ NoPath \/ Respond
    <3>1. response'.reason # "occupied"
      <4>1. ASSUME NEW reason, Fail(reason) PROVE response'.reason = reason
        BY <4>1 DEF Fail, NoResponse
      <4>2. CASE NoCostmap \/ Outside \/ NoPath
        BY <4>1, <4>2 DEF NoCostmap, Outside, NoPath
      <4>3. CASE Respond
        BY <4>3 DEF Respond
      <4> QED BY <2>2, <4>2, <4>3
    <3> QED BY <3>1 DEF OccupiedIsTrue
  <2>3. CASE response' = NoResponse
    BY <2>3 DEF OccupiedIsTrue, NoResponse
  <2>4. CASE phase # "idle" /\ response' = response
    <3>1. response' = NoResponse
      BY <1>2, <2>4 DEF IInv, ProgressOK
    <3> QED BY <2>3, <3>1
  <2>5. CASE UNCHANGED <<costmap, request, start, response>>
    BY <1>2, <2>5 DEF OccupiedIsTrue, LegTo
  <2> QED BY <1>2, <2>1, <2>2, <2>3, <2>4, <2>5
          DEF Next, Callbacks, Handler, Lifecycle, vars, Receive, Costmap, InvalidCostmap,
              OnConfigure, OnActivate, OnDeactivate, OnCleanup, OnShutdown, Forget,
              GoStraight, Plannable, StartSearch, LegDone, ExpandNext, ReachGoal,
              TraceBack, TraceDone
<1> QED BY <1>1, <1>2, Invariance, PTL DEF Spec

-----------------------------------------------------------------------------
(* The path that is published                                              *)
(*                                                                         *)
(* merge_paths drops the first pose of every leg but the first, as if it   *)
(* were the last of the leg before.  It is when both were searched; a      *)
(* straight leg joins the poses asked for and not the snapped cells, so    *)
(* the published path may jump there.  The theorem says how far.           *)

\* merge_paths with one leg more.
MergedWith(merged, one) == merged \o (IF merged = <<>> THEN one ELSE Tail(one))

\* The path after each of the legs.
MergeOf(legs, n, J) ==
    /\ J \in [0 .. n -> Seq(Positions)]
    /\ J[0] = <<>>
    /\ \A m \in 1 .. n : J[m] = MergedWith(J[m - 1], legs[m])

Legs == {legs \in Seq(Seq(Positions)) : \A k \in DOMAIN legs : legs[k] # <<>>}

\* Every set of numbers that holds 0 and with each number below n the next one
\* holds all numbers up to n.
LEMMA UpTo ==
    ASSUME NEW n \in Nat, NEW S, 0 \in S,
           \A m \in 0 .. n - 1 : m \in S => m + 1 \in S
    PROVE  \A m \in 0 .. n : m \in S
<1> DEFINE T == {m \in 0 .. n : m \notin S}
           less == {p \in Nat \X Nat : p[1] < p[2]}
<1>1. SUFFICES ASSUME T # {} PROVE FALSE
  OBVIOUS
<1>2. IsWellFoundedOn(less, Nat)
  BY NatLessThanWellFounded DEF OpToRel
<1>3. T \subseteq Nat
  OBVIOUS
<1>4. PICK x \in T : \A y \in T : ~(<<y, x>> \in less)
  <2> HIDE DEF T, less
  <2> QED BY <1>1, <1>2, <1>3, WFMin
<1>5. x \in 0 .. n /\ x \notin S /\ x # 0
  OBVIOUS
<1>6. x - 1 \in 0 .. n - 1 /\ (x - 1) + 1 = x
  BY <1>5
<1>7. x - 1 \notin S
  BY <1>5, <1>6
<1>8. x - 1 \in T /\ <<x - 1, x>> \in less
  BY <1>5, <1>6, <1>7
<1> QED BY <1>4, <1>8

LEMMA MergedWithType ==
    ASSUME NEW merged \in Seq(Positions), NEW one \in Seq(Positions), one # <<>>
    PROVE  /\ MergedWith(merged, one) \in Seq(Positions)
           /\ MergedWith(merged, one) # <<>>
<1>1. CASE merged = <<>>
  <2>1. MergedWith(merged, one) = one
    BY <1>1 DEF MergedWith
  <2> QED BY <2>1
<1>2. CASE merged # <<>>
  <2>1. MergedWith(merged, one) = merged \o Tail(one)
    BY <1>2 DEF MergedWith
  <2>2. Tail(one) \in Seq(Positions) /\ Len(merged) > 0
    BY <1>2
  <2>3. Len(merged \o Tail(one)) = Len(merged) + Len(Tail(one))
        /\ merged \o Tail(one) \in Seq(Positions) /\ Len(Tail(one)) \in Nat
        /\ Len(merged) \in Nat
    BY <2>2
  <2> QED BY <2>1, <2>2, <2>3
<1> QED BY <1>1, <1>2

LEMMA MergeOfExists ==
    ASSUME NEW legs \in Legs
    PROVE  \E J : MergeOf(legs, Len(legs), J)
<1> DEFINE S == {n \in 0 .. Len(legs) : \E J : MergeOf(legs, n, J)}
<1>1. Len(legs) \in Nat /\ \A k \in 1 .. Len(legs) : legs[k] \in Seq(Positions) /\ legs[k] # <<>>
  BY DEF Legs
<1>2. 0 \in S
  <2> DEFINE J == [m \in 0 .. 0 |-> <<>>]
  <2>1. J \in [0 .. 0 -> Seq(Positions)] /\ J[0] = <<>>
    OBVIOUS
  <2>2. MergeOf(legs, 0, J)
    <3> HIDE DEF J
    <3> QED BY <2>1 DEF MergeOf
  <2> QED BY <1>1, <2>2
<1>3. ASSUME NEW n \in 0 .. Len(legs) - 1, n \in S PROVE n + 1 \in S
  <2>1. PICK J : MergeOf(legs, n, J)
    BY <1>3
  <2> DEFINE K == [m \in 0 .. n + 1 |-> IF m = n + 1 THEN MergedWith(J[n], legs[n + 1]) ELSE J[m]]
  <2>2. J \in [0 .. n -> Seq(Positions)] /\ J[0] = <<>>
        /\ \A m \in 1 .. n : J[m] = MergedWith(J[m - 1], legs[m])
    BY <2>1 DEF MergeOf
  <2>3. n \in Nat /\ n \in 0 .. n /\ n + 1 \in 1 .. Len(legs)
    BY <1>1
  <2>4. MergedWith(J[n], legs[n + 1]) \in Seq(Positions)
    BY <1>1, <2>2, <2>3, MergedWithType
  <2>5. K \in [0 .. n + 1 -> Seq(Positions)]
    BY <2>2, <2>3, <2>4
  <2>6. K[0] = <<>>
    BY <2>2, <2>3
  <2>7. ASSUME NEW m \in 1 .. n + 1 PROVE K[m] = MergedWith(K[m - 1], legs[m])
    <3>1. m \in 0 .. n + 1 /\ m - 1 \in 0 .. n /\ m - 1 \in 0 .. n + 1 /\ m - 1 # n + 1
      BY <2>3
    <3>2. K[m - 1] = J[m - 1]
      BY <3>1
    <3>3. CASE m = n + 1
      <4>1. m - 1 = n
        BY <2>3, <3>3
      <4> QED BY <3>1, <3>2, <3>3, <4>1
    <3>4. CASE m # n + 1
      <4>1. m \in 1 .. n /\ K[m] = J[m]
        BY <2>3, <3>1, <3>4
      <4> QED BY <2>2, <3>2, <4>1
    <3> QED BY <3>3, <3>4
  <2>8. MergeOf(legs, n + 1, K)
    <3> HIDE DEF K
    <3> QED BY <2>5, <2>6, <2>7 DEF MergeOf
  <2> QED BY <1>1, <2>3, <2>8
<1>4. Len(legs) \in S
  <2> HIDE DEF S
  <2>1. \A m \in 0 .. Len(legs) - 1 : m \in S => m + 1 \in S
    BY <1>3
  <2>2. \A m \in 0 .. Len(legs) : m \in S
    BY <1>1, <1>2, <2>1, UpTo
  <2> QED BY <1>1, <2>2
<1> QED BY <1>4

\* The recursive function of merge_paths is there, and is what it seems.
LEMMA MergeIs ==
    ASSUME NEW legs \in Legs
    PROVE  \E J : MergeOf(legs, Len(legs), J) /\ Merge(legs) = J[Len(legs)]
<1> DEFINE Body(f) == [n \in 0 .. Len(legs) |->
                         IF n = 0 THEN <<>>
                         ELSE f[n - 1] \o (IF f[n - 1] = <<>> THEN legs[n] ELSE Tail(legs[n]))]
           joined == CHOOSE f : f = Body(f)
<1>1. Merge(legs) = joined[Len(legs)]
  BY DEF Merge
<1>2. PICK J : MergeOf(legs, Len(legs), J)
  BY MergeOfExists
<1>3. J \in [0 .. Len(legs) -> Seq(Positions)] /\ J[0] = <<>>
      /\ \A m \in 1 .. Len(legs) : J[m] = MergedWith(J[m - 1], legs[m])
  BY <1>2 DEF MergeOf
<1>4. J = Body(J)
  <2>1. ASSUME NEW n \in 0 .. Len(legs) PROVE J[n] = Body(J)[n]
    <3>1. CASE n = 0
      BY <1>3, <3>1
    <3>2. CASE n # 0
      <4>1. n \in 1 .. Len(legs)
        BY <3>2
      <4> QED BY <1>3, <3>2, <4>1 DEF MergedWith
    <3> QED BY <3>1, <3>2
  <2> QED BY <1>3, <2>1
<1>5. joined = Body(joined)
  <2> HIDE DEF Body
  <2> QED BY <1>4
<1>6. Len(legs) \in Nat
  BY DEF Legs
<1> DEFINE S == {m \in 0 .. Len(legs) : joined[m] = J[m]}
<1>7. \A m \in 0 .. Len(legs) : joined[m] = Body(joined)[m]
  BY <1>5
<1> HIDE DEF joined
<1>8. 0 \in S
  BY <1>3, <1>6, <1>7
<1>9. ASSUME NEW m \in 0 .. Len(legs) - 1, m \in S PROVE m + 1 \in S
  <2>1. m + 1 \in 1 .. Len(legs) /\ m + 1 \in 0 .. Len(legs) /\ m + 1 # 0 /\ (m + 1) - 1 = m
    BY <1>6
  <2>2. joined[m + 1] = MergedWith(joined[m], legs[m + 1])
    BY <1>7, <2>1 DEF MergedWith
  <2>3. J[m + 1] = MergedWith(J[m], legs[m + 1])
    BY <1>3, <2>1
  <2>4. joined[m] = J[m]
    BY <1>9
  <2>5. joined[m + 1] = J[m + 1]
    BY <2>2, <2>3, <2>4
  <2> QED BY <2>1, <2>5
<1>10. joined[Len(legs)] = J[Len(legs)]
  <2>1. Len(legs) \in S
    <3> HIDE DEF S
    <3>1. \A m \in 0 .. Len(legs) - 1 : m \in S => m + 1 \in S
      BY <1>9
    <3>2. \A m \in 0 .. Len(legs) : m \in S
      BY <1>6, <1>8, <3>1, UpTo
    <3> QED BY <1>6, <3>2
  <2> QED BY <2>1
<1> QED BY <1>1, <1>2, <1>10

\* No legs make an empty path.
LEMMA MergeOfNone ==
    ASSUME NEW legs, legs = <<>>
    PROVE  Merge(legs) = <<>>
<1>1. legs \in Legs /\ Len(legs) = 0
  <2>1. <<>> \in Seq(Seq(Positions)) /\ DOMAIN <<>> = {} /\ Len(<<>>) = 0
    OBVIOUS
  <2> QED BY <2>1 DEF Legs
<1>2. PICK J : MergeOf(legs, Len(legs), J) /\ Merge(legs) = J[Len(legs)]
  BY <1>1, MergeIs
<1>3. J[0] = <<>>
  BY <1>2 DEF MergeOf
<1> QED BY <1>1, <1>2, <1>3

-----------------------------------------------------------------------------
\* How far a leg may begin or end from the cell its pose is snapped to.
Slack == IF Straighten THEN Radius ELSE 0

Within(a, b, gap) == Distance(a[1], b[1]) <= gap /\ Distance(a[2], b[2]) <= gap

\* The cells run along the legs: each follows another as in one of the legs,
\* or is the second of a leg and follows one that is close to the first.
Follows(a, b, legs, n, gap) ==
    \E k \in 1 .. n : \E j \in 2 .. Len(legs[k]) :
        /\ b = legs[k][j]
        /\ a = legs[k][j - 1] \/ (j = 2 /\ k > 1 /\ Within(a, legs[k][1], gap))

RunsAlong(cells, legs, n, gap) ==
    /\ cells[1] = legs[1][1]
    /\ \A i \in 1 .. Len(cells) - 1 : Follows(cells[i], cells[i + 1], legs, n, gap)

\* A leg begins and ends where its poses are snapped to, or, when it is
\* straight, at the poses.
Joins(cells, from, to) ==
    \/ cells[1] = from /\ cells[Len(cells)] = to
    \/ /\ Len(cells) > 1
       /\ Within(cells[1], from, Slack)
       /\ Within(cells[Len(cells)], to, Slack)

LEMMA WithinAdds ==
    ASSUME NEW a \in Positions, NEW b \in Positions, NEW c \in Positions, NEW gap \in Nat
    PROVE  /\ Within(a, b, gap) /\ Within(c, b, gap) => Within(a, c, 2 * gap)
           /\ Within(a, a, gap)
<1>1. /\ a[1] \in Int /\ a[2] \in Int /\ b[1] \in Int /\ b[2] \in Int
      /\ c[1] \in Int /\ c[2] \in Int
  BY DEF Positions
<1> QED BY <1>1 DEF Within, Distance

LEMMA SlackIsNat == Slack \in Nat
  BY PlannerAssumption DEF Slack

\* One more leg is merged.
LEMMA MergeRuns ==
    ASSUME NEW legs \in Legs, NEW n \in 1 .. Len(legs) - 1,
           NEW merged \in Seq(Positions), merged # <<>>,
           RunsAlong(merged, legs, n, 2 * Slack),
           NEW from \in Positions, NEW to \in Positions,
           Within(merged[Len(merged)], from, Slack),
           Joins(legs[n + 1], from, to)
    PROVE  /\ RunsAlong(MergedWith(merged, legs[n + 1]), legs, n + 1, 2 * Slack)
           /\ Within(MergedWith(merged, legs[n + 1])[Len(MergedWith(merged, legs[n + 1]))],
                     to, Slack)
<1> DEFINE one == legs[n + 1]
           cells == MergedWith(merged, one)
           l == Len(merged)
<1>1. /\ Len(legs) \in Nat /\ n + 1 \in 1 .. Len(legs) /\ n \in Nat
      /\ one \in Seq(Positions) /\ one # <<>>
  BY DEF Legs
<1>2. /\ Len(one) \in Nat \ {0} /\ l \in Nat \ {0}
      /\ \A i \in 1 .. Len(one) : one[i] \in Positions
      /\ \A i \in 1 .. l : merged[i] \in Positions
  BY <1>1
<1> HIDE DEF one
<1>3. /\ cells = merged \o Tail(one)
      /\ Len(cells) = l + Len(one) - 1
      /\ \A i \in 1 .. l : cells[i] = merged[i]
      /\ \A i \in 2 .. Len(one) : cells[l + i - 1] = one[i]
  <2>1. cells = merged \o Tail(one)
    BY DEF MergedWith
  <2>2. Tail(one) \in Seq(Positions) /\ Len(Tail(one)) = Len(one) - 1
        /\ \A i \in 1 .. Len(one) - 1 : Tail(one)[i] = one[i + 1]
    BY <1>1
  <2>3. ASSUME NEW i \in 2 .. Len(one) PROVE (merged \o Tail(one))[l + i - 1] = one[i]
    <3>1. i - 1 \in 1 .. Len(one) - 1 /\ i \in Int /\ (i - 1) + 1 = i /\ l + i - 1 = l + (i - 1)
      BY <1>2
    <3>2. (merged \o Tail(one))[l + (i - 1)] = Tail(one)[i - 1]
      BY <1>2, <2>2, <3>1
    <3> QED BY <2>2, <3>1, <3>2
  <2> QED BY <1>2, <2>1, <2>2, <2>3
<1> HIDE DEF cells
<1>4. Slack \in Nat
  BY SlackIsNat
<1>5. Within(one[1], from, Slack) /\ Within(one[Len(one)], to, Slack)
  <2>1. one[1] \in Positions /\ one[Len(one)] \in Positions
    BY <1>2
  <2> QED BY <1>4, <2>1, WithinAdds DEF Joins, one
<1>6. cells[1] = legs[1][1]
  BY <1>2, <1>3 DEF RunsAlong
<1>7. ASSUME NEW i \in 1 .. Len(cells) - 1
      PROVE  Follows(cells[i], cells[i + 1], legs, n + 1, 2 * Slack)
  <2>0. i \in Int
    OBVIOUS
  <2>1. CASE i < l
    <3>1. i \in 1 .. l - 1 /\ i \in 1 .. l /\ i + 1 \in 1 .. l
      BY <1>2, <2>0, <2>1
    <3>2. Follows(merged[i], merged[i + 1], legs, n, 2 * Slack)
      BY <3>1 DEF RunsAlong
    <3>3. 1 .. n \subseteq 1 .. n + 1
      BY <1>1
    <3>4. Follows(merged[i], merged[i + 1], legs, n + 1, 2 * Slack)
      BY <3>2, <3>3 DEF Follows
    <3> QED BY <1>3, <3>1, <3>4
  <2>2. CASE i = l
    <3>1. 2 \in 2 .. Len(one) /\ l + 2 - 1 = l + 1 /\ l \in 1 .. l
      BY <1>2, <1>3, <2>2
    <3>2. cells[l + 1] = one[2] /\ cells[l] = merged[l]
      BY <1>3, <3>1
    <3>3. merged[l] \in Positions /\ one[1] \in Positions
      BY <1>2
    <3>4. Within(merged[l], one[1], 2 * Slack)
      BY <1>4, <1>5, <3>3, WithinAdds
    <3>5. n + 1 \in 1 .. n + 1 /\ n + 1 > 1
      BY <1>1
    <3> QED BY <2>2, <3>1, <3>2, <3>4, <3>5 DEF Follows, one
  <2>3. CASE i > l
    <3> DEFINE j == i - l + 2
    <3>1. /\ j \in 2 .. Len(one) /\ j - 1 \in 2 .. Len(one)
          /\ l + j - 1 = i + 1 /\ l + (j - 1) - 1 = i
      BY <1>2, <1>3, <2>0, <2>3
    <3>2. cells[i + 1] = one[j] /\ cells[i] = one[j - 1]
      BY <1>3, <3>1
    <3>3. n + 1 \in 1 .. n + 1
      BY <1>1
    <3> QED BY <3>1, <3>2, <3>3 DEF Follows, one
  <2> QED BY <1>2, <2>0, <2>1, <2>2, <2>3
<1>8. Within(cells[Len(cells)], to, Slack)
  <2>1. CASE Len(one) = 1
    <3>1. Len(cells) = l /\ l \in 1 .. l
      BY <1>2, <1>3, <2>1
    <3>2. from = to
      BY <2>1 DEF Joins, one
    <3>3. cells[Len(cells)] = merged[l]
      BY <1>3, <3>1
    <3> QED BY <3>2, <3>3
  <2>2. CASE Len(one) # 1
    <3>0. Len(one) \in Nat \ {0}
      BY <1>2
    <3>1. Len(one) \in 2 .. Len(one)
      <4>1. \A x \in Nat \ {0} : x # 1 => x \in 2 .. x
        OBVIOUS
      <4> QED BY <2>2, <3>0, <4>1
    <3>2. cells[Len(cells)] = one[Len(one)]
      <4>1. Len(cells) = l + Len(one) - 1
        BY <1>3
      <4>2. cells[l + Len(one) - 1] = one[Len(one)]
        BY <1>3, <3>1
      <4> QED BY <4>1, <4>2
    <3> QED BY <1>5, <3>2
  <2> QED BY <2>1, <2>2
<1> QED BY <1>6, <1>7, <1>8 DEF RunsAlong, cells, one

-----------------------------------------------------------------------------
\* A planned leg joins the cells its poses are snapped to.
LegJoins(cells, a, b) ==
    \E from \in Snaps(costmap, a), to \in Snaps(costmap, b) : Joins(cells, from, to)

LegsJoin == \A k \in DOMAIN plans : LegJoins(plans[k], LegFrom(k), LegTo(k))

\* A snapped cell is near its pose.
LEMMA SnapIsWithin ==
    ASSUME NEW grid, NEW pose \in Poses, NEW c \in Snaps(grid, pose), Straighten
    PROVE  Within(pose.cell, c, Slack)
<1>1. Near(c, pose) /\ c \in Cells
  BY SnapIsFree
<1>2. /\ c[1] \in Int /\ c[2] \in Int
      /\ pose.cell[1] \in Int /\ pose.cell[2] \in Int
  BY <1>1, CellsArePositions DEF Poses, Positions
<1> QED BY <1>1, <1>2 DEF Near, Within, Distance, Slack

LEMMA StraightJoins ==
    ASSUME IInv, GoStraight
    PROVE  LegJoins(StraightLine(start, Waypoint), start, Waypoint)
<1>1. Planning /\ LineFree(costmap, start, Waypoint)
  BY DEF GoStraight, Plannable, Planning
<1>2. PICK from \in Snaps(costmap, start), to \in Snaps(costmap, Waypoint) : TRUE
  BY DEF GoStraight
<1>3. start \in Poses /\ Waypoint \in Poses
  BY <1>1, LegPoses
<1>4. Straighten
  BY <1>1 DEF LineFree
<1> DEFINE line == StraightLine(start, Waypoint)
<1>5. /\ line \in Seq(Positions)
      /\ DOMAIN line = 1 .. SampleCount(start, Waypoint) + 1
      /\ line[1] = start.cell /\ line[Len(line)] = Waypoint.cell
      /\ SampleCount(start, Waypoint) \in Nat \ {0}
  BY <1>3, LineJoinsPoses, SampleCountIsPositive
<1> HIDE DEF line
<1>6. Len(line) > 1
  <2>1. Len(line) \in Nat /\ DOMAIN line = 1 .. Len(line)
    BY <1>5
  <2>2. 2 \in 1 .. SampleCount(start, Waypoint) + 1
    BY <1>5
  <2>3. 2 \in 1 .. Len(line)
    BY <1>5, <2>1, <2>2
  <2> QED BY <2>1, <2>3
<1>7. Within(start.cell, from, Slack) /\ Within(Waypoint.cell, to, Slack)
  BY <1>3, <1>4, SnapIsWithin
<1>8. Joins(line, from, to)
  BY <1>5, <1>6, <1>7 DEF Joins
<1> QED BY <1>8 DEF LegJoins, line

\* A leg that joins is added to legs that join.
LEMMA LegDoneJoins ==
    ASSUME IInv, Planning, LegsJoin, NEW cells, LegDone(cells),
           LegJoins(cells, start, Waypoint)
    PROVE  LegsJoin'
<1>1. /\ plans' = Append(plans, cells) /\ UNCHANGED <<costmap, request>>
      /\ plans \in Seq(Seq(Positions)) /\ Len(plans) \in Nat
  BY LegPoses DEF LegDone, IInv, ProgressOK
<1>2. ASSUME NEW k \in DOMAIN plans' PROVE LegJoins(plans'[k], LegFrom(k), LegTo(k))
  <2>1. CASE k = Len(plans) + 1
    <3>1. plans'[k] = cells /\ LegFrom(k) = start /\ LegTo(k) = Waypoint
      BY <1>1, <2>1, LegPoses
    <3> QED BY <3>1
  <2>2. CASE k # Len(plans) + 1
    <3>1. DOMAIN plans' = 1 .. Len(plans) + 1 /\ DOMAIN plans = 1 .. Len(plans)
      BY <1>1
    <3>2. k \in DOMAIN plans /\ plans'[k] = plans[k]
      BY <1>1, <2>2, <3>1
    <3> QED BY <3>2 DEF LegsJoin
  <2> QED BY <2>1, <2>2
<1>3. \A c, f, t : LegJoins(c, f, t)' <=> LegJoins(c, f, t)
  BY <1>1 DEF LegJoins
<1> QED BY <1>1, <1>2, <1>3, SameCostmap DEF LegsJoin

LEMMA LegsJoinSteps ==
    ASSUME IInv, LegsJoin, [Next]_vars
    PROVE  LegsJoin'
<1>0. plans' = <<>> => LegsJoin'
  <2>1. DOMAIN <<>> = {}
    OBVIOUS
  <2> QED BY <2>1 DEF LegsJoin
<1>1. phase = "idle" => plans = <<>>
  BY DEF IInv, ProgressOK
<1>2. CASE GoStraight
  <2>1. Planning /\ LegDone(StraightLine(start, Waypoint))
    BY <1>2 DEF GoStraight, Plannable, Planning
  <2> QED BY <1>2, <2>1, StraightJoins, LegDoneJoins
<1>3. CASE StartSearch
  <2>1. Planning
    BY <1>3 DEF StartSearch, Plannable, Planning
  <2>2. PICK from \in Snaps(costmap, start), to \in Snaps(costmap, Waypoint) :
          IF from = to THEN LegDone(<<from>>) ELSE UNCHANGED <<costmap, request, plans>>
    BY <1>3 DEF StartSearch
  <2>3. CASE from = to
    <3>1. Joins(<<from>>, from, to)
      BY <2>3 DEF Joins
    <3>2. LegJoins(<<from>>, start, Waypoint)
      BY <3>1 DEF LegJoins
    <3> QED BY <2>1, <2>2, <2>3, <3>2, LegDoneJoins
  <2>4. CASE from # to
    BY <2>2, <2>4 DEF LegsJoin, LegJoins, LegFrom, LegTo
  <2> QED BY <2>3, <2>4
<1>4. CASE TraceDone
  <2>1. phase = "trace" /\ Planning /\ search.parent[path[1]] = Root /\ LegDone(path)
    BY <1>4 DEF TraceDone, Planning
  <2>2. /\ SearchShape(search)
        /\ path \in Seq(Cells) /\ path # <<>>
        /\ path[1] \in search.opened
        /\ path[Len(path)] = search.goal
        /\ search.start \in Snaps(costmap, start)
        /\ search.goal \in Snaps(costmap, Waypoint)
    BY <2>1 DEF IInv, SearchOK, TraceOK, EndsOK
  <2>3. path[1] = search.start
    <3>1. ASSUME path[1] # search.start PROVE FALSE
      <4>1. search.parent[path[1]] \in search.closed
        BY <2>2, <3>1 DEF SearchShape
      <4>2. search.parent[path[1]] \in Cells
        BY <2>2, <4>1 DEF SearchShape
      <4> QED BY <2>1, <4>2, RootIsNoCell
    <3> QED BY <3>1
  <2>4. LegJoins(path, start, Waypoint)
    BY <2>2, <2>3 DEF LegJoins, Joins
  <2> QED BY <2>1, <2>4, LegDoneJoins
<1>5. CASE \/ ExpandNext \/ ReachGoal \/ TraceBack \/ UNCHANGED vars
  BY <1>5 DEF ExpandNext, ReachGoal, TraceBack, vars, LegsJoin, LegJoins, LegFrom, LegTo
<1>6. CASE NoCostmap \/ Outside \/ Occupied \/ NoPath \/ Respond
  BY <1>0, <1>6 DEF NoCostmap, Outside, Occupied, NoPath, Respond, Fail
<1>7. CASE Callbacks \/ Lifecycle
  BY <1>0, <1>1, <1>7 DEF Callbacks, Lifecycle, Receive, Costmap, InvalidCostmap, OnConfigure,
     OnActivate, OnDeactivate, OnCleanup, OnShutdown
<1> QED BY <1>2, <1>3, <1>4, <1>5, <1>6, <1>7 DEF Next, Handler

\* What the legs of a response become: they are merged into a path that runs
\* along them and ends close to the end of the last.
LEMMA MergedRuns ==
    ASSUME IInv, LegsJoin, phase = "respond", plans # <<>>
    PROVE  /\ RunsAlong(Merge(plans), plans, Len(plans), 2 * Slack)
           /\ LET last == plans[Len(plans)]
              IN  Within(Merge(plans)[Len(Merge(plans))], last[Len(last)], 2 * Slack)
           /\ Merge(plans) \in Seq(Positions)
<1>1. /\ plans \in Seq(Seq(Positions)) /\ Len(plans) \in Nat \ {0}
      /\ Len(plans) = Len(request.waypoints)
      /\ request.start \in Poses /\ request.waypoints \in Seq(Poses)
      /\ \A k \in DOMAIN plans : plans[k] # <<>>
  BY DEF IInv, ProgressOK, PlanIsDrivable, DrivableLeg
<1>2. plans \in Legs
  BY <1>1 DEF Legs
<1>3. PICK J : MergeOf(plans, Len(plans), J) /\ Merge(plans) = J[Len(plans)]
  BY <1>2, MergeIs
<1>4. /\ J \in [0 .. Len(plans) -> Seq(Positions)] /\ J[0] = <<>>
      /\ \A m \in 1 .. Len(plans) : J[m] = MergedWith(J[m - 1], plans[m])
  BY <1>3 DEF MergeOf
<1>5. \A k \in 1 .. Len(plans) : /\ LegFrom(k) \in Poses /\ LegTo(k) \in Poses
                                 /\ plans[k] \in Seq(Positions) /\ plans[k] # <<>>
                                 /\ LegJoins(plans[k], LegFrom(k), LegTo(k))
  <2> SUFFICES ASSUME NEW k \in 1 .. Len(plans)
               PROVE  LegFrom(k) \in Poses /\ LegTo(k) \in Poses
    BY <1>1 DEF LegsJoin
  <2>1. k \in 1 .. Len(request.waypoints) /\ (k # 1 => k - 1 \in 1 .. Len(request.waypoints))
    BY <1>1
  <2> QED BY <1>1, <2>1 DEF LegFrom, LegTo
<1>6. \A k \in 1 .. Len(plans) - 1 : LegFrom(k + 1) = LegTo(k)
  BY <1>1 DEF LegFrom, LegTo
<1> DEFINE Good(n) == /\ J[n] # <<>>
                      /\ RunsAlong(J[n], plans, n, 2 * Slack)
                      /\ \E c \in Snaps(costmap, LegTo(n)) : Within(J[n][Len(J[n])], c, Slack)
           S == {m \in 0 .. Len(plans) - 1 : Good(m + 1)}
<1>7. 0 \in S
  <2>1. 1 \in 1 .. Len(plans) /\ J[1 - 1] = J[0]
    BY <1>1
  <2>2. plans[1] \in Seq(Positions) /\ plans[1] # <<>> /\ Len(plans[1]) \in Nat \ {0}
    BY <1>5, <2>1
  <2>3. J[1] = plans[1]
    <3> HIDE DEF S, Good
    <3>1. J[1] = MergedWith(J[1 - 1], plans[1])
      BY <1>4, <2>1
    <3>2. J[1] = MergedWith(<<>>, plans[1])
      BY <1>4, <2>1, <3>1
    <3>3. MergedWith(<<>>, plans[1]) = <<>> \o plans[1]
      BY Zenon DEF MergedWith
    <3>4. <<>> \o plans[1] = plans[1]
      BY <2>2
    <3> QED BY <3>2, <3>3, <3>4
  <2>4. RunsAlong(plans[1], plans, 1, 2 * Slack)
    <3>1. ASSUME NEW i \in 1 .. Len(plans[1]) - 1
          PROVE  Follows(plans[1][i], plans[1][i + 1], plans, 1, 2 * Slack)
      <4>1. i + 1 \in 2 .. Len(plans[1]) /\ (i + 1) - 1 = i /\ 1 \in 1 .. 1
        BY <2>2
      <4> QED BY <4>1 DEF Follows
    <3> QED BY <3>1 DEF RunsAlong
  <2>5. PICK from \in Snaps(costmap, LegFrom(1)), to \in Snaps(costmap, LegTo(1)) :
          Joins(plans[1], from, to)
    BY <1>5, <2>1 DEF LegJoins
  <2>6. to \in Positions
    BY <1>5, <2>1, SnapIsFree, CellsArePositions
  <2>7. Within(plans[1][Len(plans[1])], to, Slack)
    BY <2>5, <2>6, WithinAdds, SlackIsNat DEF Joins
  <2> QED BY <1>1, <2>2, <2>3, <2>4, <2>7
<1>8. ASSUME NEW m \in 0 .. Len(plans) - 1 - 1, m \in S PROVE m + 1 \in S
  <2> DEFINE n == m + 1
  <2>1. /\ n \in 1 .. Len(plans) - 1 /\ n \in 0 .. Len(plans) /\ n + 1 \in 1 .. Len(plans)
        /\ (n + 1) - 1 = n /\ n \in 1 .. Len(plans) /\ n \in 0 .. Len(plans) - 1
    BY <1>1
  <2>2. Good(n)
    BY <1>8
  <2> HIDE DEF n
  <2>3. PICK c \in Snaps(costmap, LegTo(n)) : Within(J[n][Len(J[n])], c, Slack)
    BY <2>2
  <2>4. PICK from \in Snaps(costmap, LegFrom(n + 1)), to \in Snaps(costmap, LegTo(n + 1)) :
          Joins(plans[n + 1], from, to)
    BY <1>5, <2>1 DEF LegJoins
  <2>5. from = c
    <3>1. LegFrom(n + 1) = LegTo(n) /\ LegTo(n) \in Poses
      BY <1>5, <1>6, <2>1
    <3> QED BY <2>3, <2>4, <3>1, SnapFindsOne
  <2>6. from \in Positions /\ to \in Positions
    BY <1>5, <2>1, <2>4, SnapIsFree, CellsArePositions
  <2>7. J[n] \in Seq(Positions) /\ J[n + 1] = MergedWith(J[n], plans[n + 1])
    BY <1>4, <2>1
  <2>8. /\ RunsAlong(J[n + 1], plans, n + 1, 2 * Slack)
        /\ Within(J[n + 1][Len(J[n + 1])], to, Slack)
    BY <1>2, <2>1, <2>2, <2>3, <2>4, <2>5, <2>6, <2>7, MergeRuns
  <2>9. J[n + 1] # <<>>
    BY <1>5, <2>1, <2>7, MergedWithType
  <2>10. Good(n + 1)
    BY <2>4, <2>8, <2>9
  <2> QED BY <2>1, <2>10 DEF n
<1>9. Good(Len(plans))
  <2> HIDE DEF Good
  <2>1. Len(plans) - 1 \in Nat /\ Len(plans) - 1 \in 0 .. Len(plans) - 1
        /\ (Len(plans) - 1) + 1 = Len(plans)
    BY <1>1
  <2>2. Len(plans) - 1 \in S
    <3> HIDE DEF S
    <3>1. \A m \in 0 .. (Len(plans) - 1) - 1 : m \in S => m + 1 \in S
      BY <1>8
    <3>2. \A m \in 0 .. Len(plans) - 1 : m \in S
      BY <1>7, <2>1, <3>1, UpTo
    <3> QED BY <2>1, <3>2
  <2> QED BY <2>1, <2>2
<1>10. Len(plans) \in 1 .. Len(plans) /\ Len(plans) \in 0 .. Len(plans)
  BY <1>1
<1> DEFINE shown == Merge(plans)
           last == plans[Len(plans)]
<1>11. shown \in Seq(Positions) /\ shown # <<>> /\ last \in Seq(Positions) /\ last # <<>>
  BY <1>3, <1>4, <1>5, <1>9, <1>10
<1>12. PICK c \in Snaps(costmap, LegTo(Len(plans))) : Within(shown[Len(shown)], c, Slack)
  BY <1>3, <1>9
<1>13. PICK from \in Snaps(costmap, LegFrom(Len(plans))), to \in Snaps(costmap, LegTo(Len(plans))) :
         Joins(last, from, to)
  BY <1>5, <1>10 DEF LegJoins
<1>14. to = c /\ c \in Positions
  BY <1>5, <1>10, <1>12, <1>13, SnapFindsOne, SnapIsFree, CellsArePositions
<1>15. RunsAlong(shown, plans, Len(plans), 2 * Slack)
  BY <1>3, <1>9
<1> HIDE DEF shown, last, Good, S
<1>16. Within(last[Len(last)], c, Slack)
  BY <1>13, <1>14, WithinAdds, SlackIsNat DEF Joins
<1>17. shown[Len(shown)] \in Positions /\ last[Len(last)] \in Positions
  BY <1>11
<1>18. Within(shown[Len(shown)], last[Len(last)], 2 * Slack)
  BY <1>12, <1>14, <1>16, <1>17, WithinAdds, SlackIsNat
<1> QED BY <1>11, <1>15, <1>18 DEF shown, last

\* The published path runs along the legs of the response, from the beginning
\* of the first to the end of the last.  Where two legs meet it may miss the
\* first pose of the later one by two snap radii, and nowhere else: not at all
\* when straight lines are switched off.
ShownRunsAlong ==
    response.shown # <<>> =>
        LET legs == response.plans
            last == legs[Len(legs)]
        IN  /\ RunsAlong(response.shown, legs, Len(legs), 2 * Slack)
            /\ Within(response.shown[Len(response.shown)], last[Len(last)], 2 * Slack)

\* merge_paths drops one pose of each leg after the first, and no more: however
\* many legs there are, and however many of them are a single pose that is
\* dropped, the gaps do not add up.
THEOREM PublishedPathHolds == Spec => []ShownRunsAlong
<1>1. Init => LegsJoin /\ ShownRunsAlong
  <2>1. DOMAIN <<>> = {}
    OBVIOUS
  <2> QED BY <2>1 DEF Init, LegsJoin, ShownRunsAlong, NoResponse
<1>2. ASSUME IInv, LegsJoin, ShownRunsAlong, [Next]_vars PROVE ShownRunsAlong'
  <2>1. CASE Respond
    <3>1. /\ phase = "respond" /\ response'.plans = plans
          /\ response'.shown \in {Merge(plans), <<>>}
      BY <2>1 DEF Respond
    <3>2. CASE plans = <<>>
      <4>1. Merge(plans) = <<>>
        BY <3>2, MergeOfNone
      <4>2. response'.shown = <<>>
        BY <3>1, <4>1
      <4> QED BY <4>2 DEF ShownRunsAlong
    <3>3. CASE plans # <<>>
      BY <1>2, <3>1, <3>3, MergedRuns DEF ShownRunsAlong
    <3> QED BY <3>2, <3>3
  <2>2. CASE UNCHANGED response
    BY <1>2, <2>2 DEF ShownRunsAlong
  <2>3. CASE response'.shown = <<>>
    BY <2>3 DEF ShownRunsAlong
  <2>4. CASE \/ GoStraight \/ StartSearch \/ ExpandNext \/ ReachGoal \/ TraceBack \/ TraceDone
             \/ UNCHANGED vars
    BY <2>2, <2>4 DEF GoStraight, StartSearch, LegDone, ExpandNext, ReachGoal, TraceBack,
       TraceDone, vars
  <2>5. CASE NoCostmap \/ Outside \/ Occupied \/ NoPath
    BY <2>3, <2>5 DEF NoCostmap, Outside, Occupied, NoPath, Fail, NoResponse
  <2>6. CASE Callbacks \/ Lifecycle
    BY <2>3, <2>6 DEF Callbacks, Lifecycle, Receive, Costmap, InvalidCostmap, OnConfigure,
       OnActivate, OnDeactivate, OnCleanup, OnShutdown, Forget, NoResponse
  <2> QED BY <1>2, <2>1, <2>4, <2>5, <2>6 DEF Next, Handler
<1>3. LegsJoin /\ ShownRunsAlong /\ IInv /\ [Next]_vars => (LegsJoin /\ ShownRunsAlong)'
  BY <1>2, LegsJoinSteps
<1> QED BY <1>1, <1>3, Invariance, PTL DEF Spec

-----------------------------------------------------------------------------
(* Types                                                                   *)

\* The record of a search.
SearchType ==
    [start : Positions, goal : Positions, opened : SUBSET Cells, closed : SUBSET Cells,
     parent : [Cells -> Cells \cup {Root}], cost : [Cells -> Nat]]

LEMMA NoSearchType == NoSearch \in SearchType
<1>1. <<0, 0>> \in Positions
  BY DEF Positions
<1> QED BY <1>1 DEF NoSearch, SearchType

\* The costs of an idle search are of no interest, those of the others do not
\* change but by Expand.
LEMMA SearchTypeSteps ==
    ASSUME IInv, CostOK, search \in SearchType, [Next]_vars
    PROVE  search' \in SearchType
<1>1. CASE StartSearch
  <2>1. Planning
    BY <1>1 DEF StartSearch, Plannable, Planning
  <2>2. PICK from \in Snaps(costmap, start), to \in Snaps(costmap, Waypoint) :
          search' = NoSearch \/ search' = NewSearch(from, to)
    BY <1>1 DEF StartSearch, LegDone
  <2>3. from \in Cells /\ to \in Cells /\ from \in Positions /\ to \in Positions
    BY <2>1, LegPoses, SnapIsFree, CellsArePositions
  <2>4. NewSearch(from, to) \in SearchType
    BY <2>3 DEF NewSearch, NoSearch, SearchType
  <2> QED BY <2>2, <2>4, NoSearchType
<1>2. CASE ExpandNext
  <2>1. PICK current \in Best(search) : search' = Expand(costmap, search, current)
    BY <1>2 DEF ExpandNext
  <2>2. /\ phase = "search" /\ SearchShape(search)
        /\ search.start \in Snaps(costmap, start) /\ search.goal \in Snaps(costmap, Waypoint)
        /\ search.cost \in [Cells -> Nat]
    BY <1>2 DEF ExpandNext, IInv, SearchOK, EndsOK, CostOK
  <2>3. start \in Poses /\ Waypoint \in Poses
    BY <2>2, LegPoses DEF Planning
  <2>4. search.start \in Cells /\ search.goal \in Cells /\ current \in Cells
    BY <2>2, <2>3, SnapIsFree DEF Best, Frontier, SearchShape
  <2> DEFINE better == Improved(costmap, search, current)
  <2>5. \A c \in Cells : CostThrough(search, current, c) \in Nat
    BY <2>2, <2>4, CostsAreNat
  <2>6. better \subseteq Cells
    BY DEF Improved
  <2>7. search' = [search EXCEPT !.closed = @ \cup {current},
                       !.opened = @ \cup better,
                       !.parent = [c \in Cells |-> IF c \in better THEN current ELSE @[c]],
                       !.cost = [c \in Cells |-> IF c \in better
                                                 THEN CostThrough(search, current, c) ELSE @[c]]]
    BY <2>1 DEF Expand
  <2> HIDE DEF better
  <2> QED BY <2>4, <2>5, <2>6, <2>7 DEF SearchType
<1>3. CASE ReachGoal
  <2>1. search' = [search EXCEPT !.closed = @ \cup {search.goal}] /\ search.goal \in Frontier(search)
    BY <1>3 DEF ReachGoal, Close, Best
  <2>2. search.goal \in Cells
    BY <2>1 DEF Frontier, SearchType
  <2> QED BY <2>1, <2>2 DEF SearchType
<1>4. CASE search' \in {search, NoSearch}
  BY <1>4, NoSearchType
<1> QED BY <1>1, <1>2, <1>3, <1>4
        DEF Next, Callbacks, Handler, Lifecycle, vars, leg, Receive, Costmap, InvalidCostmap,
            OnConfigure, OnActivate, OnDeactivate, OnCleanup, OnShutdown, NoCostmap, Outside,
            Occupied, Fail, GoStraight, LegDone, TraceBack, TraceDone, NoPath, Respond

\* The node's own variables.
NodeType ==
    /\ lifecycle \in {"unconfigured", "inactive", "active", "finalized"}
    /\ costmap \in Grids \cup {NoMap}
    /\ request \in Requests \cup {NoRequest}
    /\ start \in Poses

LEMMA NodeTypeSteps ==
    ASSUME IInv, NodeType, [Next]_vars
    PROVE  NodeType'
<1>1. NoRequest.start = Nowhere /\ Nowhere \in Poses
  BY RequestsAreWellFormed DEF NoRequest
<1>2. \A r \in Requests : r.start \in Poses
  BY RequestsAreWellFormed
<1>3. Planning => Waypoint \in Poses
  BY LegPoses
<1>4. CASE Callbacks
  BY <1>1, <1>2, <1>4, PlannerAssumption
     DEF Callbacks, Receive, Costmap, InvalidCostmap, Forget, NodeType
<1>5. CASE Lifecycle
  BY <1>1, <1>5 DEF Lifecycle, OnConfigure, OnActivate, OnDeactivate, OnCleanup, OnShutdown,
     Forget, NodeType
<1>6. CASE Handler \/ UNCHANGED vars
  <2>1. UNCHANGED <<lifecycle, costmap, request>> /\ start' \in {start, Waypoint}
        /\ (start' # start => Planning)
    BY <1>6 DEF Handler, vars, NoCostmap, Outside, Occupied, Plannable, Fail, GoStraight, LegDone,
       StartSearch, ExpandNext, ReachGoal, TraceBack, TraceDone, NoPath, Respond, Planning
  <2> QED BY <1>3, <2>1 DEF NodeType
<1> QED BY <1>4, <1>5, <1>6 DEF Next

\* What is answered.
ResponseType ==
    [success : BOOLEAN, reason : Reasons, segment : Nat,
     plans : Seq(Seq(Positions)), shown : Seq(Positions)]

LEMMA ResponseTypeSteps ==
    ASSUME IInv, LegsJoin, response \in ResponseType, [Next]_vars
    PROVE  response' \in ResponseType
<1>1. NoResponse \in ResponseType
  BY DEF NoResponse, ResponseType, Reasons
<1>2. CASE \E reason \in Reasons : Planning /\ Fail(reason)
  <2>1. Len(plans) + 1 \in Nat
    BY <1>2, LegPoses
  <2> QED BY <1>1, <1>2, <2>1 DEF Fail, ResponseType
<1>3. CASE Respond
  <2>1. plans \in Seq(Seq(Positions)) /\ phase = "respond"
    BY <1>3 DEF IInv, ProgressOK, Respond
  <2>2. Merge(plans) \in Seq(Positions)
    <3>1. CASE plans = <<>>
      <4>1. Merge(plans) = <<>>
        BY <3>1, MergeOfNone
      <4>2. <<>> \in Seq(Positions)
        OBVIOUS
      <4> QED BY <4>1, <4>2
    <3>2. CASE plans # <<>>
      BY <2>1, <3>2, MergedRuns
    <3> QED BY <3>1, <3>2
  <2>3. <<>> \in Seq(Positions)
    OBVIOUS
  <2> QED BY <1>3, <2>1, <2>2, <2>3 DEF Respond, ResponseType, Reasons
<1>4. CASE response' \in {response, NoResponse}
  BY <1>1, <1>4
<1>5. CASE NoCostmap \/ Outside \/ Occupied \/ NoPath
  BY <1>2, <1>5 DEF NoCostmap, Outside, Occupied, Plannable, NoPath, Planning, Reasons
<1> QED BY <1>3, <1>4, <1>5
        DEF Next, Callbacks, Handler, Lifecycle, vars, Receive, Costmap, InvalidCostmap, Forget,
            OnConfigure, OnActivate, OnDeactivate, OnCleanup, OnShutdown, GoStraight, LegDone,
            StartSearch, ExpandNext, ReachGoal, TraceBack, TraceDone

LEMMA PathTypeSteps ==
    ASSUME IInv, path \in Seq(Positions), [Next]_vars
    PROVE  path' \in Seq(Positions)
<1>1. CASE path' \in {path, <<>>}
  <2>1. <<>> \in Seq(Positions)
    OBVIOUS
  <2> QED BY <1>1, <2>1
<1>2. CASE phase' = "trace"
  <2>1. path' \in Seq(Cells)
    BY <1>2, NextIInv DEF IInv, TraceOK
  <2> QED BY <2>1, CellsArePositions
<1> QED BY <1>1, <1>2
        DEF Next, Callbacks, Handler, Lifecycle, vars, leg, Receive, Costmap, InvalidCostmap,
            OnConfigure, OnActivate, OnDeactivate, OnCleanup, OnShutdown, NoCostmap, Outside,
            Occupied, Fail, GoStraight, LegDone, StartSearch, ExpandNext, ReachGoal, TraceBack,
            TraceDone, NoPath, Respond

\* Every variable of the planner stays in its type: in particular every cost is
\* a number and every published path a path, which the properties never ask.
THEOREM TypeCorrect == Spec => []TypeOK
<1> DEFINE Typed == /\ NodeType /\ search \in SearchType /\ path \in Seq(Positions)
                    /\ response \in ResponseType
<1>1. Init => Typed /\ LegsJoin
  <2> SUFFICES ASSUME Init PROVE Typed /\ LegsJoin
    OBVIOUS
  <2>1. Nowhere \in Poses
    BY RequestsAreWellFormed DEF NoRequest
  <2>2. <<>> \in Seq(Positions) /\ <<>> \in Seq(Seq(Positions)) /\ DOMAIN <<>> = {}
    OBVIOUS
  <2> QED BY <2>1, <2>2, NoSearchType
          DEF Init, NodeType, ResponseType, NoResponse, Reasons, LegsJoin
<1>2. Typed /\ LegsJoin /\ IInv /\ CostOK /\ [Next]_vars => (Typed /\ LegsJoin)'
  BY LegsJoinSteps, SearchTypeSteps, NodeTypeSteps, ResponseTypeSteps, PathTypeSteps
<1>3. Typed /\ IInv => TypeOK
  BY DEF TypeOK, NodeType, SearchType, ResponseType, IInv, ProgressOK
<1>4. EndInv => IInv /\ CostOK
  BY DEF EndInv
<1> QED BY <1>1, <1>2, <1>3, <1>4, EndInvariance, PTL DEF Spec
=============================================================================
