----------------------------- MODULE CostmapServer -----------------------------
(***************************************************************************)
(* The costmap server (amr_costmap_server).                                *)
(*                                                                         *)
(* A single-threaded lifecycle node.  The global costmap is the SLAM map   *)
(* with its obstacles inflated; the local costmap is the window of it      *)
(* around the robot, with the obstacles of the last laser scan marked.     *)
(* Both are published on latched topics, the local one at a limited rate.  *)
(*                                                                         *)
(* The world is a strip of cells the robot faces along; there is one       *)
(* obstacle that the map does not know.                                    *)
(***************************************************************************)
EXTENDS Integers

CONSTANTS
    Size,             \* cells of the map
    Maps,             \* the valid maps SLAM may send
    Places,           \* where the robot may be
    Obstacles,        \* where the obstacle may be, Nowhere if there is none
    GlobalRadius,     \* inflation.global.radius or the footprint's, in cells
    DynamicRadius,    \* inflation.local.radius or the footprint's, in cells
    StaticClearance,  \* dynamic.static_clearance_cells
    WindowRadius,     \* local_window.radius, in cells
    WindowEnabled,    \* local_window.enabled
    MaxRange,         \* dynamic.max_distance, in cells
    GlobalOnScan,     \* publish.global_on_scan
    MaxUpdates        \* bound: maps and clear calls, both rarer than the period

Cells == 0 .. Size - 1

Nowhere == -1

ASSUME StripAssumption ==
    /\ Size \in Nat \ {0}
    /\ Maps \subseteq [Cells -> {"unknown", "free", "occupied"}]
    /\ Places \subseteq Cells
    /\ Obstacles \subseteq Cells \cup {Nowhere}

ASSUME ParameterAssumption ==
    /\ {GlobalRadius, DynamicRadius, StaticClearance, WindowRadius, MaxRange, MaxUpdates}
          \subseteq Nat
    /\ WindowEnabled \in BOOLEAN
    /\ GlobalOnScan \in BOOLEAN

VARIABLES
    lifecycle,  \* the node's state
    map,        \* map_ while has_map_, else NoMap
    global,     \* global_costmap_, NoMap while it is empty
    local,      \* local_costmap_, NoMap while it is empty
    scan,       \* latest_scan_ while has_scan_, else NoScan
    due,        \* whether the local publication period has passed
    shown,      \* the two costmaps last published
    world,      \* the robot, the obstacle, and whether TF knows the pose
    updates,    \* how many maps and clear calls came
    cleared     \* whether a clear succeeded and no scan came since

node == <<lifecycle, map, global, local, scan, due>>
costmapVars == <<node, shown, world, updates, cleared>>

-----------------------------------------------------------------------------
(* Values                                                                  *)

NoMap == <<>>

\* A scan is the distance of its echo, negative behind the robot.
NoScan == 0
NoEcho == 2 * Size

Echo == IF world.obstacle \in {Nowhere, world.robot} THEN NoEcho
        ELSE world.obstacle - world.robot

Distance(i, j) == IF i > j THEN i - j ELSE j - i

Configured == lifecycle \in {"inactive", "active"}

-----------------------------------------------------------------------------
CostmapInit ==
    /\ lifecycle = "unconfigured"
    /\ map = NoMap
    /\ global = NoMap
    /\ local = NoMap
    /\ scan = NoScan
    /\ due = TRUE
    /\ shown = [global |-> NoMap, local |-> NoMap]
    /\ world \in [robot : Places, obstacle : Obstacles, localized : {FALSE}]
    /\ updates = 0
    /\ cleared = FALSE

-----------------------------------------------------------------------------
(* The costmaps                                                            *)

\* rebuild_global_costmap: unknown cells and obstacles are left as they are.
Inflated(m) ==
    [c \in Cells |->
        IF m[c] = "free" /\ \E o \in Cells : m[o] = "occupied" /\ Distance(o, c) <= GlobalRadius
        THEN "inflated" ELSE m[c]]

\* The window around the robot; cells outside the map are unknown.
Window(g, center) ==
    [c \in center - WindowRadius .. center + WindowRadius |->
        IF c \in Cells THEN g[c] ELSE "unknown"]

\* has_static_obstacle_near.
StaticNear(m, cell) ==
    \E o \in Cells : m[o] = "occupied" /\ Distance(o, cell) <= StaticClearance

\* Without a pose the local costmap is the global one.
Base(g) ==
    IF WindowEnabled /\ world.localized /\ world.robot \in Cells
    THEN Window(g, world.robot) ELSE g

\* The echo is placed from where the robot is now.
Hit(s) == world.robot + s

\* Whether an echo is marked: ahead, in range, in the local costmap and in the
\* map, and not part of a mapped obstacle.
Marked(m, base, s) ==
    /\ world.localized
    /\ s # NoScan
    /\ 0 < s
    /\ s <= MaxRange
    /\ Hit(s) \in DOMAIN base \cap Cells
    /\ ~StaticNear(m, Hit(s))

\* rebuild_local_costmap.
LocalOf(m, g, s) ==
    LET base == Base(g)
    IN  [c \in DOMAIN base |->
            IF /\ Marked(m, base, s)
               /\ Distance(c, Hit(s)) <= DynamicRadius
               /\ base[c] \notin {"unknown", "occupied"}
            THEN "dynamic" ELSE base[c]]

-----------------------------------------------------------------------------
(* Publishing                                                              *)

\* publish_local_costmap with the local costmap of the next state.
PublishLocal ==
    IF lifecycle' = "active" /\ map' # NoMap /\ local' # NoMap
    THEN shown' = [shown EXCEPT !.local = local'] /\ due' = FALSE
    ELSE UNCHANGED <<shown, due>>

\* publish_costmaps.
PublishBoth ==
    IF lifecycle' = "active" /\ map' # NoMap /\ global' # NoMap /\ local' # NoMap
    THEN shown' = [global |-> global', local |-> local'] /\ due' = FALSE
    ELSE UNCHANGED <<shown, due>>

-----------------------------------------------------------------------------
(* Callbacks                                                               *)

\* handle_map.
HandleMap(m) ==
    /\ Configured
    /\ updates < MaxUpdates
    /\ updates' = updates + 1
    /\ map' = m
    /\ global' = Inflated(m)
    /\ local' = LocalOf(m, Inflated(m), scan)
    /\ UNCHANGED <<lifecycle, scan, world, cleared>>
    /\ PublishBoth

\* A map that is not valid takes the last one, and both costmaps, away.
HandleInvalidMap ==
    /\ Configured
    /\ updates < MaxUpdates
    /\ updates' = updates + 1
    /\ map' = NoMap
    /\ global' = NoMap
    /\ local' = NoMap
    /\ UNCHANGED <<lifecycle, scan, due, shown, world, cleared>>

\* Mutant: the period is restarted before it is looked at.
HandleScanRestartingPeriod ==
    /\ Configured
    /\ scan' = Echo
    /\ cleared' = FALSE
    /\ local' = IF map = NoMap THEN local ELSE LocalOf(map, global, Echo)
    /\ due' = FALSE
    /\ UNCHANGED <<lifecycle, map, global, shown, world, updates>>

\* handle_scan: the costmaps are rebuilt at every scan, and published when the
\* period has passed.
HandleScan ==
    /\ Configured
    /\ scan' = Echo
    /\ cleared' = FALSE
    /\ UNCHANGED <<lifecycle, map, world, updates>>
    /\ IF map = NoMap THEN UNCHANGED <<global, local, due, shown>>
       ELSE /\ global' = IF GlobalOnScan THEN Inflated(map) ELSE global
            /\ local' = LocalOf(map, global', Echo)
            /\ shown' = [global |-> IF GlobalOnScan /\ lifecycle = "active"
                                    THEN global' ELSE shown.global,
                         local |-> IF due /\ lifecycle = "active" THEN local' ELSE shown.local]
            /\ due' = (due /\ lifecycle # "active")

\* Mutant: the scan survives the clear.
ClearKeepingScan(localOnly) ==
    /\ Configured
    /\ updates < MaxUpdates
    /\ updates' = updates + 1
    /\ map # NoMap
    /\ cleared' = TRUE
    /\ global' = Inflated(map)
    /\ local' = IF localOnly THEN global ELSE LocalOf(map, global', scan)
    /\ UNCHANGED <<lifecycle, map, scan, world>>
    /\ PublishBoth

\* handle_clear_costmap with a map: the scan is forgotten.  The local layer
\* alone is replaced by the whole global costmap.
Clear(localOnly) ==
    /\ Configured
    /\ updates < MaxUpdates
    /\ updates' = updates + 1
    /\ map # NoMap
    /\ scan' = NoScan
    /\ cleared' = TRUE
    /\ UNCHANGED <<lifecycle, map, world>>
    /\ IF localOnly
       THEN /\ local' = global
            /\ UNCHANGED global
            /\ PublishLocal
       ELSE /\ global' = Inflated(map)
            /\ local' = LocalOf(map, Inflated(map), NoScan)
            /\ PublishBoth

\* Without a map the service fails and changes nothing.
ClearFails ==
    /\ Configured
    /\ updates < MaxUpdates
    /\ updates' = updates + 1
    /\ map = NoMap
    /\ UNCHANGED <<node, shown, world, cleared>>

-----------------------------------------------------------------------------
(* Lifecycle                                                               *)

OnConfigure ==
    /\ lifecycle = "unconfigured"
    /\ lifecycle' = "inactive"
    /\ UNCHANGED <<map, global, local, scan, due, shown, world, updates, cleared>>

\* Mutant: the costmaps made while the node was inactive are not published.
ActivateSilently ==
    /\ lifecycle = "inactive"
    /\ lifecycle' = "active"
    /\ UNCHANGED <<map, global, local, scan, due, shown, world, updates, cleared>>

OnActivate ==
    /\ lifecycle = "inactive"
    /\ lifecycle' = "active"
    /\ UNCHANGED <<map, global, local, scan, world, updates, cleared>>
    /\ PublishBoth

OnDeactivate ==
    /\ lifecycle = "active"
    /\ lifecycle' = "inactive"
    /\ UNCHANGED <<map, global, local, scan, due, shown, world, updates, cleared>>

\* on_cleanup and on_shutdown forget everything but the publication time.
OnCleanup ==
    /\ \/ lifecycle = "inactive" /\ lifecycle' = "unconfigured"
       \/ lifecycle # "finalized" /\ lifecycle' = "finalized"
    /\ map' = NoMap
    /\ global' = NoMap
    /\ local' = NoMap
    /\ scan' = NoScan
    /\ UNCHANGED <<due, shown, world, updates, cleared>>

-----------------------------------------------------------------------------
(* The world                                                               *)

\* The robot moves, the obstacle comes and goes, TF knows the pose or not.
World ==
    /\ world' \in [robot : Places, obstacle : Obstacles, localized : BOOLEAN]
    /\ world' # world
    /\ UNCHANGED <<node, shown, updates, cleared>>

Elapse ==
    /\ ~due
    /\ due' = TRUE
    /\ UNCHANGED <<lifecycle, map, global, local, scan, shown, world, updates, cleared>>

-----------------------------------------------------------------------------
Lifecycle == OnConfigure \/ OnActivate \/ OnDeactivate \/ OnCleanup

CostmapNext ==
    \/ \E m \in Maps : HandleMap(m)
    \/ HandleInvalidMap
    \/ HandleScan
    \/ \E localOnly \in BOOLEAN : Clear(localOnly)
    \/ ClearFails
    \/ Lifecycle
    \/ World
    \/ Elapse

CostmapSpec == CostmapInit /\ [][CostmapNext]_costmapVars

\* The laser goes on scanning, and time passes.
CostmapFairSpec == CostmapSpec /\ WF_costmapVars(HandleScan) /\ WF_costmapVars(Elapse)

-----------------------------------------------------------------------------
(* Properties                                                              *)

Values == {"unknown", "free", "occupied", "inflated", "dynamic"}

Spans == {Cells} \cup {p - WindowRadius .. p + WindowRadius : p \in Places}

Costmaps == UNION {[span -> Values] : span \in Spans}

CostmapTypeOK ==
    /\ lifecycle \in {"unconfigured", "inactive", "active", "finalized"}
    /\ map \in Maps \cup {NoMap}
    /\ global \in [Cells -> Values] \cup {NoMap}
    /\ local \in Costmaps \cup {NoMap}
    /\ scan \in Int
    /\ due \in BOOLEAN
    /\ shown \in [global : [Cells -> Values] \cup {NoMap}, local : Costmaps \cup {NoMap}]
    /\ world \in [robot : Places, obstacle : Obstacles, localized : BOOLEAN]
    /\ updates \in 0 .. MaxUpdates
    /\ cleared \in BOOLEAN

\* Safety: whatever was published late, at a limited rate, or not at all while
\* the node was inactive, an active node with a map shows the costmaps of that
\* map: the global one is its inflation, and the local one differs from it only
\* in marked obstacles, never on an unknown cell.
ShownMapIsCurrent ==
    lifecycle = "active" /\ map # NoMap =>
        /\ shown.global = Inflated(map)
        /\ \A c \in DOMAIN shown.local :
              \/ c \in Cells /\ shown.local[c] = shown.global[c]
              \/ c \in Cells /\ shown.local[c] = "dynamic" /\ map[c] # "unknown"
              \/ c \notin Cells /\ shown.local[c] = "unknown"

\* Safety: a clear holds until the next scan: no map, no activation and no
\* delayed publication brings an obstacle back that was cleared.
ClearHolds ==
    cleared /\ lifecycle = "active" /\ map # NoMap =>
        \A c \in DOMAIN shown.local : shown.local[c] # "dynamic"

\* An obstacle in plain sight: the robot knows where it is, and the obstacle is
\* ahead of it, in range, in the window, on a mapped cell away from mapped
\* obstacles.
InPlainSight(o) ==
    /\ lifecycle = "active"
    /\ map # NoMap
    /\ world.localized
    /\ world.obstacle = o
    /\ world.robot < o
    /\ o - world.robot <= MaxRange
    /\ WindowEnabled => o - world.robot <= WindowRadius
    /\ map[o] # "unknown"
    /\ ~StaticNear(map, o)

\* Liveness: an obstacle that stays in plain sight is shown again and again at
\* its place, however the robot moves: the rate limit never holds it back for
\* good, whatever maps and clears came before.
ObstacleIsShown ==
    \A o \in Obstacles \ {Nowhere} :
        <>[]InPlainSight(o) =>
            []<>(o \in DOMAIN shown.local /\ shown.local[o] = "dynamic")
=============================================================================
