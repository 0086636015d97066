------------------------------ MODULE ViewProofs ------------------------------
(***************************************************************************)
(* Theorems about the three components that show the robot's world and its *)
(* drive to others, for any maps, messages, schedules and bounds: the      *)
(* costmap server, the runtime observer and the operator's window.  Each   *)
(* has its own variables and is proved about on its own.                   *)
(***************************************************************************)
EXTENDS CostmapServer, RuntimeObservation, OperatorConsole, WellFoundedInduction, TLAPS

-----------------------------------------------------------------------------
(* The costmap server                                                      *)
(*                                                                         *)
(* What is published may be older than what was built.  The invariant says *)
(* of both that they fit the map (Built, ShownMapIsCurrent), and follows   *)
(* the forgotten scan until the next one comes (Forgotten).                *)

\* A costmap that shows a map: its inflation and marked obstacles.
Fits(costmap, m) ==
    \A c \in DOMAIN costmap :
        \/ c \in Cells /\ costmap[c] = Inflated(m)[c]
        \/ c \in Cells /\ costmap[c] = "dynamic" /\ m[c] # "unknown"
        \/ c \notin Cells /\ costmap[c] = "unknown"

\* A costmap without a marked obstacle.
Unmarked(costmap) == \A c \in DOMAIN costmap : costmap[c] # "dynamic"

\* The costmaps of a node with a map are made from it.
Built ==
    map # NoMap =>
        /\ global = Inflated(map)
        /\ local # NoMap
        /\ Fits(local, map)

\* After a clear there is no scan, and nothing marked, until a scan comes.
Forgotten ==
    cleared =>
        /\ scan = NoScan
        /\ map # NoMap => Unmarked(local)

CostmapInv == CostmapTypeOK /\ Built /\ Forgotten /\ ShownMapIsCurrent /\ ClearHolds

\* The inflation of a map is a costmap that shows it and marks nothing.
LEMMA InflatedFits ==
    ASSUME NEW m \in Maps
    PROVE  /\ Inflated(m) \in [Cells -> Values]
           /\ Inflated(m) # NoMap
           /\ Fits(Inflated(m), m)
           /\ Unmarked(Inflated(m))
<1>1. m \in [Cells -> {"unknown", "free", "occupied"}] /\ 0 \in Cells
  BY StripAssumption DEF StripAssumption, Cells
<1>2. DOMAIN Inflated(m) = Cells
  BY DEF Inflated
<1>3. ASSUME NEW c \in Cells
      PROVE  Inflated(m)[c] \in {"unknown", "free", "occupied", "inflated"}
  BY <1>1, <1>3 DEF Inflated
<1>4. Inflated(m) \in [Cells -> Values]
  BY <1>3 DEF Inflated, Values
<1>5. Inflated(m) # NoMap
  BY <1>1, <1>2 DEF NoMap
<1> QED BY <1>2, <1>3, <1>4, <1>5 DEF Fits, Unmarked

\* The base of the local costmap is cut out of the global one.
LEMMA BaseCutsOut ==
    ASSUME CostmapTypeOK, NEW m \in Maps
    PROVE  /\ DOMAIN Base(Inflated(m)) \in Spans
           /\ DOMAIN Base(Inflated(m)) # {}
           /\ \A c \in DOMAIN Base(Inflated(m)) :
                 Base(Inflated(m))[c] = IF c \in Cells THEN Inflated(m)[c] ELSE "unknown"
<1>0. world.robot \in Places
  BY DEF CostmapTypeOK
<1>1. world.robot \in Int /\ WindowRadius \in Nat
  <2>1. Cells \subseteq Int
    BY StripAssumption DEF StripAssumption, Cells
  <2>2. world.robot \in Int
    BY <1>0, <2>1, StripAssumption DEF StripAssumption
  <2>3. WindowRadius \in Nat
    BY ParameterAssumption DEF ParameterAssumption
  <2> QED BY <2>2, <2>3
<1>2. DOMAIN Inflated(m) = Cells /\ 0 \in Cells
  BY StripAssumption DEF Inflated, StripAssumption, Cells
<1> DEFINE span == world.robot - WindowRadius .. world.robot + WindowRadius
           window == Window(Inflated(m), world.robot)
<1>3. DOMAIN window = span /\ span \in Spans /\ world.robot \in span
  BY <1>0, <1>1 DEF Window, Spans
<1>4. \A c \in span : window[c] = IF c \in Cells THEN Inflated(m)[c] ELSE "unknown"
  BY DEF Window
<1>5. CASE Base(Inflated(m)) = window
  BY <1>3, <1>4, <1>5
<1>6. CASE Base(Inflated(m)) = Inflated(m)
  BY <1>2, <1>6 DEF Spans
<1> QED BY <1>5, <1>6 DEF Base

\* A rebuilt local costmap shows the map, and marks nothing without a scan.
LEMMA LocalFits ==
    ASSUME CostmapTypeOK, NEW m \in Maps, NEW s \in Int
    PROVE  /\ LocalOf(m, Inflated(m), s) \in Costmaps
           /\ LocalOf(m, Inflated(m), s) # NoMap
           /\ Fits(LocalOf(m, Inflated(m), s), m)
           /\ s = NoScan => Unmarked(LocalOf(m, Inflated(m), s))
<1> DEFINE base == Base(Inflated(m))
           costmap == LocalOf(m, Inflated(m), s)
<1>1. m \in [Cells -> {"unknown", "free", "occupied"}]
  BY StripAssumption DEF StripAssumption
<1>2. /\ DOMAIN base \in Spans /\ DOMAIN base # {}
      /\ \A c \in DOMAIN base : base[c] = IF c \in Cells THEN Inflated(m)[c] ELSE "unknown"
  BY BaseCutsOut
<1>3. \A c \in Cells : Inflated(m)[c] \in Values \ {"dynamic"}
  BY InflatedFits DEF Unmarked
<1>4. DOMAIN costmap = DOMAIN base
  BY DEF LocalOf
<1>5. ASSUME NEW c \in DOMAIN base
      PROVE  \/ costmap[c] = base[c]
             \/ costmap[c] = "dynamic" /\ base[c] \notin {"unknown", "occupied"} /\ s # NoScan
  BY DEF LocalOf, Marked
<1>6. \A c \in Cells : m[c] = "unknown" => Inflated(m)[c] = "unknown"
  BY DEF Inflated
<1>7. costmap \in [DOMAIN base -> Values]
  <2>1. costmap = [c \in DOMAIN base |-> costmap[c]]
    BY DEF LocalOf
  <2>2. \A c \in DOMAIN base : costmap[c] \in Values
    BY <1>2, <1>3, <1>5 DEF Values
  <2> HIDE DEF costmap, base
  <2> QED BY <2>1, <2>2
<1>8. costmap \in Costmaps /\ costmap # NoMap
  BY <1>2, <1>4, <1>7 DEF Costmaps, NoMap
<1>9. Fits(costmap, m)
  BY <1>2, <1>4, <1>5, <1>6 DEF Fits
<1>10. s = NoScan => Unmarked(costmap)
  BY <1>2, <1>3, <1>4, <1>5 DEF Unmarked
<1> QED BY <1>8, <1>9, <1>10

\* What the node shows of a map it has while it is active.
Showing(lc, m, both, clear) ==
    lc = "active" /\ m # NoMap =>
        /\ both.global = Inflated(m)
        /\ Fits(both.local, m)
        /\ clear => Unmarked(both.local)

\* Showing is what the two safety properties say.
LEMMA ShowingIsBoth ==
    /\ Showing(lifecycle, map, shown, cleared) <=> ShownMapIsCurrent /\ ClearHolds
    /\ Showing(lifecycle', map', shown', cleared')
          <=> ShownMapIsCurrent' /\ ClearHolds'
<1>1. Showing(lifecycle, map, shown, cleared) <=> ShownMapIsCurrent /\ ClearHolds
  BY Zenon DEF Showing, ShownMapIsCurrent, ClearHolds, Fits, Unmarked
<1>2. Showing(lifecycle', map', shown', cleared')
        <=> ShownMapIsCurrent' /\ ClearHolds'
  BY Zenon DEF Showing, ShownMapIsCurrent, ClearHolds, Fits, Unmarked
<1> QED BY <1>1, <1>2

\* What is published for an active node with a map shows what was just built.
LEMMA PublishedShows ==
    ASSUME CostmapTypeOK, map' \in Maps \cup {NoMap},
           global' \in [Cells -> Values] \cup {NoMap}, local' \in Costmaps \cup {NoMap},
           Built', Forgotten', PublishBoth
    PROVE  /\ shown' \in [global : [Cells -> Values] \cup {NoMap},
                          local : Costmaps \cup {NoMap}]
           /\ due' \in BOOLEAN
           /\ Showing(lifecycle', map', shown', cleared')
<1>1. CASE lifecycle' = "active" /\ map' # NoMap
  <2>1. global' = Inflated(map') /\ local' # NoMap /\ Fits(local', map')
    BY <1>1 DEF Built
  <2>2. global' # NoMap
    BY <1>1, <2>1, InflatedFits
  <2>3. shown' = [global |-> global', local |-> local'] /\ due' = FALSE
    BY <1>1, <2>1, <2>2 DEF PublishBoth
  <2>4. cleared' => Unmarked(local')
    BY <1>1 DEF Forgotten
  <2> QED BY <2>1, <2>3, <2>4 DEF Showing
<1>2. CASE ~(lifecycle' = "active" /\ map' # NoMap)
  <2>1. UNCHANGED <<shown, due>>
    BY <1>2 DEF PublishBoth
  <2> QED BY <1>2, <2>1 DEF Showing, CostmapTypeOK
<1> QED BY <1>1, <1>2

\* A new map is shown as it is, with the last scan marked in it.
LEMMA MapShows ==
    ASSUME CostmapInv, NEW m \in Maps, HandleMap(m)
    PROVE  CostmapInv'
<1> USE DEF CostmapInv
<1>1. /\ lifecycle' = lifecycle /\ map' = m /\ scan' = scan /\ world' = world
      /\ cleared' = cleared /\ global' = Inflated(m)
      /\ local' = LocalOf(m, Inflated(m), scan)
      /\ updates < MaxUpdates /\ updates' = updates + 1
      /\ PublishBoth
  BY DEF HandleMap
<1>2. scan \in Int
  BY DEF CostmapTypeOK
<1>3. /\ Inflated(m) \in [Cells -> Values]
      /\ LocalOf(m, Inflated(m), scan) \in Costmaps
      /\ LocalOf(m, Inflated(m), scan) # NoMap
      /\ Fits(LocalOf(m, Inflated(m), scan), m)
      /\ scan = NoScan => Unmarked(LocalOf(m, Inflated(m), scan))
  BY <1>2, InflatedFits, LocalFits
<1>4. Built'
  BY <1>1, <1>3 DEF Built
<1>5. Forgotten'
  BY <1>1, <1>3 DEF Forgotten
<1>6. /\ shown' \in [global : [Cells -> Values] \cup {NoMap}, local : Costmaps \cup {NoMap}]
      /\ due' \in BOOLEAN
      /\ Showing(lifecycle', map', shown', cleared')
  BY <1>1, <1>3, <1>4, <1>5, PublishedShows
<1>7. updates' \in 0 .. MaxUpdates
  BY <1>1, ParameterAssumption DEF CostmapTypeOK, ParameterAssumption
<1>8. CostmapTypeOK'
  BY <1>1, <1>3, <1>6, <1>7 DEF CostmapTypeOK
<1> QED BY <1>4, <1>5, <1>6, <1>8, ShowingIsBoth

\* An echo is a distance.
LEMMA EchoIsInt == CostmapTypeOK => Echo \in Int
<1> SUFFICES ASSUME CostmapTypeOK PROVE Echo \in Int
  OBVIOUS
<1>1. world.robot \in Places /\ world.obstacle \in Obstacles
  BY DEF CostmapTypeOK
<1>2. Cells \subseteq Int /\ Size \in Int /\ Nowhere \in Int
  BY StripAssumption DEF StripAssumption, Cells, Nowhere
<1>3. world.robot \in Int /\ world.obstacle \in Int
  BY <1>1, <1>2, StripAssumption DEF StripAssumption
<1> QED BY <1>2, <1>3 DEF Echo, NoEcho

\* A scan rebuilds what is shown; what it leaves for the next period still
\* shows the map.
LEMMA ScanShows ==
    ASSUME CostmapInv, HandleScan
    PROVE  CostmapInv'
<1> USE DEF CostmapInv
<1>1. /\ lifecycle' = lifecycle /\ map' = map /\ world' = world /\ updates' = updates
      /\ scan' = Echo /\ cleared' = FALSE /\ Echo \in Int
  BY EchoIsInt DEF HandleScan
<1>2. Forgotten'
  BY <1>1 DEF Forgotten
<1>3. CASE map = NoMap
  <2>1. UNCHANGED <<global, local, due, shown>>
    BY <1>3 DEF HandleScan
  <2>2. Built' /\ Showing(lifecycle', map', shown', cleared')
    BY <1>1, <1>3 DEF Built, Showing
  <2>3. CostmapTypeOK'
    BY <1>1, <2>1 DEF CostmapTypeOK
  <2> QED BY <1>2, <2>2, <2>3, ShowingIsBoth
<1>4. CASE map # NoMap
  <2>1. map \in Maps
    BY <1>4 DEF CostmapTypeOK
  <2>2. /\ Inflated(map) \in [Cells -> Values]
        /\ LocalOf(map, Inflated(map), Echo) \in Costmaps
        /\ LocalOf(map, Inflated(map), Echo) # NoMap
        /\ Fits(LocalOf(map, Inflated(map), Echo), map)
    BY <1>1, <2>1, InflatedFits, LocalFits
  <2>3. global' = Inflated(map)
    BY <1>4 DEF HandleScan, Built
  <2>4. local' = LocalOf(map, Inflated(map), Echo)
    BY <1>4, <2>3 DEF HandleScan
  <2>5. /\ shown' = [global |-> IF GlobalOnScan /\ lifecycle = "active"
                                THEN global' ELSE shown.global,
                     local |-> IF due /\ lifecycle = "active" THEN local' ELSE shown.local]
        /\ due' = (due /\ lifecycle # "active")
    BY <1>4 DEF HandleScan
  <2>6. Built'
    BY <1>1, <2>2, <2>3, <2>4 DEF Built
  <2>7. Showing(lifecycle', map', shown', cleared')
    <3> SUFFICES ASSUME lifecycle = "active"
                 PROVE  shown'.global = Inflated(map) /\ Fits(shown'.local, map)
      BY <1>1 DEF Showing
    <3>1. shown.global = Inflated(map) /\ Fits(shown.local, map)
      BY <1>4, ShowingIsBoth DEF Showing
    <3> QED BY <2>2, <2>3, <2>4, <2>5, <3>1
  <2>8. CostmapTypeOK'
    <3>1. /\ shown' \in [global : [Cells -> Values] \cup {NoMap},
                         local : Costmaps \cup {NoMap}]
          /\ due' \in BOOLEAN
      BY <2>2, <2>3, <2>4, <2>5 DEF CostmapTypeOK
    <3> QED BY <1>1, <2>2, <2>3, <2>4, <3>1 DEF CostmapTypeOK
  <2> QED BY <1>2, <2>6, <2>7, <2>8, ShowingIsBoth
<1> QED BY <1>3, <1>4

\* A clear leaves nothing marked, in what is built and in what is shown.
LEMMA ClearShows ==
    ASSUME CostmapInv, NEW localOnly \in BOOLEAN, Clear(localOnly)
    PROVE  CostmapInv'
<1> USE DEF CostmapInv
<1>1. /\ lifecycle' = lifecycle /\ map' = map /\ world' = world
      /\ map # NoMap /\ scan' = NoScan /\ cleared' = TRUE
      /\ updates < MaxUpdates /\ updates' = updates + 1
  BY DEF Clear
<1>2. map \in Maps /\ updates' \in 0 .. MaxUpdates /\ NoScan \in Int
  BY <1>1, ParameterAssumption DEF CostmapTypeOK, ParameterAssumption, NoScan
<1>3. /\ Inflated(map) \in [Cells -> Values] /\ Inflated(map) # NoMap
      /\ Fits(Inflated(map), map) /\ Unmarked(Inflated(map))
      /\ LocalOf(map, Inflated(map), NoScan) \in Costmaps
      /\ LocalOf(map, Inflated(map), NoScan) # NoMap
      /\ Fits(LocalOf(map, Inflated(map), NoScan), map)
      /\ Unmarked(LocalOf(map, Inflated(map), NoScan))
  BY <1>2, InflatedFits, LocalFits
<1>4. Inflated(map) \in Costmaps
  BY <1>3 DEF Costmaps, Spans
<1>5. global = Inflated(map) /\ global' = Inflated(map)
  BY <1>1 DEF Built, Clear
<1>6. /\ local' \in Costmaps /\ local' # NoMap
      /\ Fits(local', map) /\ Unmarked(local')
  BY <1>3, <1>4, <1>5 DEF Clear
<1>7. Built' /\ Forgotten'
  BY <1>1, <1>5, <1>6 DEF Built, Forgotten
<1>8. /\ shown' \in [global : [Cells -> Values] \cup {NoMap}, local : Costmaps \cup {NoMap}]
      /\ due' \in BOOLEAN
      /\ Showing(lifecycle', map', shown', cleared')
  <2>1. CASE localOnly
    <3>1. PublishLocal
      BY <2>1 DEF Clear
    <3>2. CASE lifecycle = "active"
      <4>1. shown' = [shown EXCEPT !.local = local'] /\ due' = FALSE
        BY <1>1, <1>6, <3>1, <3>2 DEF PublishLocal
      <4>2. shown.global = Inflated(map)
        BY <1>1, <3>2 DEF ShownMapIsCurrent
      <4> QED BY <1>1, <1>6, <4>1, <4>2 DEF Showing, CostmapTypeOK
    <3>3. CASE lifecycle # "active"
      BY <1>1, <3>1, <3>3 DEF PublishLocal, Showing, CostmapTypeOK
    <3> QED BY <3>2, <3>3
  <2>2. CASE ~localOnly
    <3>1. PublishBoth
      BY <2>2 DEF Clear
    <3> QED BY <1>1, <1>2, <1>3, <1>5, <1>6, <1>7, <3>1, PublishedShows
  <2> QED BY <2>1, <2>2
<1>9. CostmapTypeOK'
  BY <1>1, <1>2, <1>3, <1>5, <1>6, <1>8 DEF CostmapTypeOK
<1> QED BY <1>7, <1>8, <1>9, ShowingIsBoth

\* Bringing the node up shows what was built while it was inactive; taking it
\* down shows nothing, and forgets the map.
LEMMA LifecycleShows ==
    ASSUME CostmapInv, Lifecycle
    PROVE  CostmapInv'
<1> USE DEF CostmapInv
<1>1. CASE OnConfigure \/ OnDeactivate
  <2>1. /\ UNCHANGED <<map, global, local, scan, due, shown, world, updates, cleared>>
        /\ lifecycle' = "inactive"
    BY <1>1 DEF OnConfigure, OnDeactivate
  <2>2. CostmapTypeOK' /\ Built' /\ Forgotten'
    BY <2>1 DEF CostmapTypeOK, Built, Forgotten
  <2>3. Showing(lifecycle', map', shown', cleared')
    BY <2>1 DEF Showing
  <2> QED BY <2>2, <2>3, ShowingIsBoth
<1>2. CASE OnActivate
  <2>1. /\ UNCHANGED <<map, global, local, scan, world, updates, cleared>>
        /\ lifecycle' = "active" /\ PublishBoth
    BY <1>2 DEF OnActivate
  <2>2. Built' /\ Forgotten'
    BY <2>1 DEF Built, Forgotten
  <2>3. /\ shown' \in [global : [Cells -> Values] \cup {NoMap},
                       local : Costmaps \cup {NoMap}]
        /\ due' \in BOOLEAN
        /\ Showing(lifecycle', map', shown', cleared')
    BY <2>1, <2>2, PublishedShows DEF CostmapTypeOK
  <2>4. CostmapTypeOK'
    BY <2>1, <2>3 DEF CostmapTypeOK
  <2> QED BY <2>2, <2>3, <2>4, ShowingIsBoth
<1>3. CASE OnCleanup
  <2>1. /\ UNCHANGED <<due, shown, world, updates, cleared>>
        /\ lifecycle' \in {"unconfigured", "finalized"}
        /\ map' = NoMap /\ global' = NoMap /\ local' = NoMap /\ scan' = NoScan
    BY <1>3 DEF OnCleanup
  <2>2. CostmapTypeOK' /\ Built' /\ Forgotten'
    BY <2>1 DEF CostmapTypeOK, Built, Forgotten, NoScan
  <2>3. Showing(lifecycle', map', shown', cleared')
    BY <2>1 DEF Showing
  <2> QED BY <2>2, <2>3, ShowingIsBoth
<1> QED BY <1>1, <1>2, <1>3 DEF Lifecycle

\* A step that takes no map away from what it made, and shows nothing new.
LEMMA OtherShows ==
    ASSUME CostmapInv, HandleInvalidMap \/ ClearFails \/ World \/ Elapse
    PROVE  CostmapInv'
<1> USE DEF CostmapInv
<1>1. /\ UNCHANGED <<lifecycle, scan, shown, cleared>>
      /\ \/ UNCHANGED <<map, global, local>>
         \/ map' = NoMap /\ global' = NoMap /\ local' = NoMap
  BY DEF HandleInvalidMap, ClearFails, World, Elapse, node
<1>2. due' \in BOOLEAN
  BY DEF HandleInvalidMap, ClearFails, World, Elapse, node, CostmapTypeOK
<1>3. world' \in [robot : Places, obstacle : Obstacles, localized : BOOLEAN]
  BY DEF HandleInvalidMap, ClearFails, World, Elapse, CostmapTypeOK
<1>4. updates' \in 0 .. MaxUpdates
  <2>1. updates' = updates \/ (updates < MaxUpdates /\ updates' = updates + 1)
    BY DEF HandleInvalidMap, ClearFails, World, Elapse
  <2> QED BY <2>1, ParameterAssumption DEF CostmapTypeOK, ParameterAssumption
<1>5. CostmapTypeOK'
  BY <1>1, <1>2, <1>3, <1>4 DEF CostmapTypeOK
<1>6. Built' /\ Forgotten'
  BY <1>1 DEF Built, Forgotten
<1>7. Showing(lifecycle', map', shown', cleared')
  BY <1>1, ShowingIsBoth DEF Showing
<1> QED BY <1>5, <1>6, <1>7, ShowingIsBoth

\* The invariant holds before the node is configured.
LEMMA CostmapStarts == CostmapInit => CostmapInv
<1> SUFFICES ASSUME CostmapInit PROVE CostmapInv
  OBVIOUS
<1>1. CostmapTypeOK
  <2>1. NoScan \in Int /\ 0 \in 0 .. MaxUpdates
    BY ParameterAssumption DEF ParameterAssumption, NoScan
  <2>2. world \in [robot : Places, obstacle : Obstacles, localized : BOOLEAN]
    BY DEF CostmapInit
  <2> QED BY <2>1, <2>2 DEF CostmapInit, CostmapTypeOK
<1>2. Built /\ Forgotten /\ ShownMapIsCurrent /\ ClearHolds
  BY DEF CostmapInit, Built, Forgotten, ShownMapIsCurrent, ClearHolds
<1> QED BY <1>1, <1>2 DEF CostmapInv

\* The invariant of the costmap server.
LEMMA CostmapInvariance == CostmapSpec => []CostmapInv
<1>1. CostmapInv /\ [CostmapNext]_costmapVars => CostmapInv'
  <2> SUFFICES ASSUME CostmapInv, [CostmapNext]_costmapVars PROVE CostmapInv'
    OBVIOUS
  <2>1. CASE UNCHANGED costmapVars
    <3>1. CostmapTypeOK' /\ Built' /\ Forgotten'
      BY <2>1 DEF costmapVars, node, CostmapInv, CostmapTypeOK, Built, Forgotten
    <3>2. ShownMapIsCurrent' /\ ClearHolds'
      BY <2>1 DEF costmapVars, node, CostmapInv, ShownMapIsCurrent, ClearHolds
    <3> QED BY <3>1, <3>2 DEF CostmapInv
  <2> QED BY <2>1, MapShows, ScanShows, ClearShows, LifecycleShows, OtherShows
          DEF CostmapNext
<1> QED BY <1>1, CostmapStarts, PTL DEF CostmapSpec

\* Every variable of the costmap server keeps its type, and the costmaps that
\* are published have the cells of the map or of a window.
THEOREM CostmapTypeCorrect == CostmapSpec => []CostmapTypeOK
<1>1. CostmapInv => CostmapTypeOK
  BY DEF CostmapInv
<1> QED BY <1>1, CostmapInvariance, PTL

\* An active node with a map shows the costmaps of that map, whatever was
\* published late or not at all while it was inactive.
THEOREM ShownFitsTheMap == CostmapSpec => []ShownMapIsCurrent
<1>1. CostmapInv => ShownMapIsCurrent
  BY DEF CostmapInv
<1> QED BY <1>1, CostmapInvariance, PTL

\* What was cleared does not come back before the next scan.
THEOREM ClearedStaysClear == CostmapSpec => []ClearHolds
<1>1. CostmapInv => ClearHolds
  BY DEF CostmapInv
<1> QED BY <1>1, CostmapInvariance, PTL

\* A scan that comes when the period has passed shows an obstacle in plain
\* sight at its place: with HandleScan and Elapse fair, ObstacleIsShown.
THEOREM SightIsMarked ==
    ASSUME NEW o \in Obstacles \ {Nowhere}
    PROVE  CostmapSpec =>
             [][HandleScan /\ due /\ InPlainSight(o) =>
                  o \in DOMAIN shown'.local /\ shown'.local[o] = "dynamic"]_costmapVars
<1>1. ASSUME CostmapInv, HandleScan, due, InPlainSight(o)
      PROVE  o \in DOMAIN shown'.local /\ shown'.local[o] = "dynamic"
  <2>1. /\ lifecycle = "active" /\ map # NoMap /\ world.localized /\ world.obstacle = o
        /\ world.robot < o /\ o - world.robot <= MaxRange
        /\ WindowEnabled => o - world.robot <= WindowRadius
        /\ map[o] # "unknown" /\ ~StaticNear(map, o)
    BY <1>1 DEF InPlainSight
  <2>2. world.robot \in Cells /\ o \in Cells /\ map \in Maps
        /\ world.localized \in BOOLEAN
    BY <1>1, <2>1, StripAssumption DEF CostmapInv, CostmapTypeOK, StripAssumption
  <2>3. /\ world.robot \in Int /\ o \in Int /\ WindowRadius \in Nat
        /\ StaticClearance \in Nat /\ DynamicRadius \in Nat
    BY <2>2, StripAssumption, ParameterAssumption
       DEF StripAssumption, ParameterAssumption, Cells
  <2>4. Echo = o - world.robot /\ Hit(Echo) = o /\ Echo # NoScan /\ 0 < Echo
    BY <2>1, <2>3 DEF Echo, Hit, NoScan
  <2> DEFINE base == Base(Inflated(map))
  <2>5. o \in DOMAIN base
    <3>1. DOMAIN Inflated(map) = Cells
      BY DEF Inflated
    <3>2. ASSUME WindowEnabled PROVE o \in DOMAIN Window(Inflated(map), world.robot)
      BY <2>1, <2>3, <3>2 DEF Window
    <3> QED BY <2>2, <3>1, <3>2 DEF Base
  <2>6. base[o] = Inflated(map)[o]
    BY <1>1, <2>2, <2>5, BaseCutsOut DEF CostmapInv
  <2>7. map[o] = "free"
    <3>1. map[o] # "occupied"
      BY <2>1, <2>2, <2>3 DEF StaticNear, Distance
    <3>2. map[o] \in {"unknown", "free", "occupied"}
      BY <2>2, StripAssumption DEF StripAssumption
    <3> QED BY <2>1, <3>1, <3>2
  <2>8. base[o] \notin {"unknown", "occupied"}
    BY <2>2, <2>6, <2>7 DEF Inflated
  <2>9. Marked(map, base, Echo) /\ Distance(o, Hit(Echo)) <= DynamicRadius
    BY <2>1, <2>2, <2>3, <2>4, <2>5 DEF Marked, Distance
  <2>10. o \in DOMAIN LocalOf(map, Inflated(map), Echo)
         /\ LocalOf(map, Inflated(map), Echo)[o] = "dynamic"
    BY <2>5, <2>8, <2>9 DEF LocalOf
  <2>11. global' = Inflated(map) /\ local' = LocalOf(map, global', Echo)
    BY <1>1, <2>1 DEF HandleScan, CostmapInv, Built
  <2>12. shown'.local = local'
    BY <1>1, <2>1 DEF HandleScan
  <2> QED BY <2>10, <2>11, <2>12
<1>2. CostmapInv /\ [CostmapNext]_costmapVars =>
        [HandleScan /\ due /\ InPlainSight(o) =>
           o \in DOMAIN shown'.local /\ shown'.local[o] = "dynamic"]_costmapVars
  BY <1>1
<1> QED BY <1>2, CostmapInvariance, PTL DEF CostmapSpec

-----------------------------------------------------------------------------
(* The runtime observer                                                    *)
(*                                                                         *)
(* That the two verdicts agree follows from what the stack can say at all  *)
(* (MotionShape, PlanShape); that a stall takes a window from two ages of  *)
(* which one is never the older, as the baseline is never below all that   *)
(* was said (Ages); and that events tell what nobody compares from what    *)
(* runtime_state and recovery_phase give away (GivesAway).                 *)

\* What any motion status says.
LEMMA MotionShape ==
    ASSUME NEW message \in MotionMessages, commands \in Plans
    PROVE  /\ message.active \in BOOLEAN /\ message.reached \in BOOLEAN
           /\ message.gate \in BOOLEAN /\ message.hold \in Holds
           /\ message.distance \in 0 .. MaxDistance
           /\ message.mode # "navigate" => message.hold = "none" /\ ~message.gate
<1>1. MaxDistance \in Nat
  BY ObservationAssumption DEF ObservationAssumption
<1>2. CASE message = IdleStatus
  BY <1>1, <1>2 DEF IdleStatus, Holds
<1>3. ASSUME NEW id \in DOMAIN commands, message \in StatusesOf(id)
      PROVE  /\ message.active \in BOOLEAN /\ message.reached \in BOOLEAN
             /\ message.gate \in BOOLEAN /\ message.hold \in Holds
             /\ message.distance \in 0 .. MaxDistance
             /\ message.mode # "navigate" => message.hold = "none" /\ ~message.gate
  <2>1. CASE message = WaitingStatus(id)
    BY <1>1, <2>1 DEF WaitingStatus, IdleStatus, Holds
  <2>2. ASSUME NEW d \in 0 .. MaxDistance, NEW g \in BOOLEAN, NEW h \in Holds,
               message = DrivingStatus(id, d, g, h)
        PROVE  /\ message.active \in BOOLEAN /\ message.reached \in BOOLEAN
               /\ message.gate \in BOOLEAN /\ message.hold \in Holds
               /\ message.distance \in 0 .. MaxDistance
               /\ message.mode # "navigate" => message.hold = "none" /\ ~message.gate
    BY <2>2 DEF DrivingStatus, WaitingStatus, IdleStatus
  <2>3. ASSUME NEW g \in BOOLEAN, NEW h \in Holds \ {"stalled"}, message = ReachedStatus(id, g, h)
        PROVE  /\ message.active \in BOOLEAN /\ message.reached \in BOOLEAN
               /\ message.gate \in BOOLEAN /\ message.hold \in Holds
               /\ message.distance \in 0 .. MaxDistance
               /\ message.mode # "navigate" => message.hold = "none" /\ ~message.gate
    BY <1>1, <2>3 DEF ReachedStatus, DrivingStatus, WaitingStatus, IdleStatus, Holds
  <2>4. ASSUME NEW c \in BOOLEAN, message = RecoveryStatus(id, commands[id].mode, c)
        PROVE  /\ message.active \in BOOLEAN /\ message.reached \in BOOLEAN
               /\ message.gate \in BOOLEAN /\ message.hold \in Holds
               /\ message.distance \in 0 .. MaxDistance
               /\ message.mode # "navigate" => message.hold = "none" /\ ~message.gate
    BY <1>1, <2>4 DEF RecoveryStatus, DrivingStatus, WaitingStatus, IdleStatus, Holds
  <2> QED BY <1>3, <2>1, <2>2, <2>3, <2>4 DEF StatusesOf
<1> QED BY <1>2, <1>3 DEF MotionMessages

\* A local plan asks for a recovery only with a decision that names a trouble.
LEMMA PlanShape ==
    ASSUME NEW message \in PlanMessages
    PROVE  /\ message.required \in BOOLEAN
           /\ message.required => message.decision # "clear"
<1>1. PICK i \in DOMAIN commands, d \in Decisions :
        message = [id |-> i, decision |-> d, required |-> d \notin {"ok", "hard_blocked"}]
  BY DEF PlanMessages
<1>2. d # "clear"
  BY ObservationAssumption DEF ObservationAssumption
<1> QED BY <1>1, <1>2


\* The verdicts of a route that is still under way, at no goal: what both
\* chains of conditions come down to.
LEMMA VerdictsFollow == ObserverTypeOK => VerdictsAgree
<1> SUFFICES ASSUME ObserverTypeOK PROVE VerdictsAgree
  OBVIOUS
<1> DEFINE stalled == IsProgressStalled
           context == BlockedContext(stalled)
           state == RuntimeState(TRUE, stalled)
           bad == {"recovery_required", "motion_blocked", "progress_stalled"}
<1>1. SUFFICES ASSUME ActionStatus \notin Terminal, state # "goal_reached"
               PROVE  \/ context # "clear" <=> state \in bad
                      \/ LatchOutlivesGate /\ context = "clear" /\ state = "motion_blocked"
  <2> SUFFICES ASSUME Snapshot.route_active, Snapshot.runtime_state # "goal_reached"
               PROVE  \/ Snapshot.blocked_context # "clear" <=> Snapshot.runtime_state \in bad
                      \/ /\ LatchOutlivesGate /\ Snapshot.blocked_context = "clear"
                         /\ Snapshot.runtime_state = "motion_blocked"
    BY DEF VerdictsAgree
  <2>1. IsRouteActive
    BY DEF Snapshot
  <2>2. ActionStatus \notin Terminal /\ ActionStatus # "succeeded"
    BY <2>1 DEF IsRouteActive, Terminal
  <2>3. (IsProgressStalled /\ ActionStatus # "succeeded") = stalled
    BY <2>2 DEF IsProgressStalled
  <2>4. Snapshot.blocked_context = context
    BY <2>2, <2>3 DEF Snapshot
  <2>5. Snapshot.runtime_state = RuntimeState(IsRouteActive, stalled)
    BY <2>3 DEF Snapshot
  <2>6. IsRouteActive = TRUE
    BY <2>1 DEF IsRouteActive
  <2>7. Snapshot.runtime_state = state
    BY <2>5, <2>6
  <2> QED BY <2>2, <2>4, <2>7
<1>2. motion # Unheard => /\ motion.active \in BOOLEAN /\ motion.reached \in BOOLEAN
                          /\ motion.gate \in BOOLEAN /\ motion.hold \in Holds
                          /\ motion.mode # "navigate" => motion.hold = "none" /\ ~motion.gate
  BY MotionShape DEF ObserverTypeOK
<1>3. HasExplicitRecovery => plan.decision # "clear"
  BY PlanShape DEF ObserverTypeOK, HasExplicitRecovery, IsLocalPlanStatusCurrent
<1>4. IsFinalHeadingAlignment => IsGoalApproach
  BY DEF IsFinalHeadingAlignment
<1>5. IsGoalApproach => /\ motion # Unheard /\ IsActive /\ ~IsReached /\ ~IsHeld
                        /\ ~IsControllerRecovery /\ IsControllerClear
  BY DEF IsGoalApproach, IsActive, IsReached, IsControllerRecovery, IsControllerClear
<1>6. CASE IsGoalApproach
  <2>1. ControllerPhase \in HoldPhases
    BY <1>4, <1>5, <1>6 DEF ControllerPhase, HoldPhases
  <2>2. context = "clear"
    BY <1>5, <1>6, <2>1 DEF BlockedContext
  <2>3. state \notin bad
    BY <1>1, <1>6 DEF RuntimeState
  <2> QED BY <2>2, <2>3
<1>7. CASE ~IsGoalApproach
  <2>1. ~IsReached
    BY <1>1, <1>4, <1>7 DEF RuntimeState
  <2>2. ControllerPhase \notin HoldPhases
    BY <1>2, <1>4, <1>7, <2>1 DEF ControllerPhase, HoldPhases, IsHeld, Holds
  <2>3. state \in bad <=> HasExplicitRecovery \/ IsHeld \/ stalled
    BY <1>1, <1>4, <1>7, <2>1 DEF RuntimeState
  <2>4. CASE IsControllerClear /\ ~HasExplicitRecovery
    <3>1. context = "clear"
      BY <2>4 DEF BlockedContext
    <3>2. ~IsHeld /\ ~stalled
      BY <2>4 DEF IsControllerClear, IsProgressStalled
    <3> QED BY <2>3, <2>4, <3>1, <3>2
  <2>5. CASE ~(IsControllerClear /\ ~HasExplicitRecovery)
    <3>1. context =
            IF IsGated THEN "safety_gate"
            ELSE IF HasExplicitRecovery THEN plan.decision
            ELSE IF IsHeld /\ motion.hold = "stalled" THEN "motion_stalled"
            ELSE IF stalled THEN "progress_stalled"
            ELSE "clear"
      BY <2>2, <2>5 DEF BlockedContext
    <3>2. context # "clear" <=>
            IsGated \/ HasExplicitRecovery \/ (IsHeld /\ motion.hold = "stalled") \/ stalled
      BY <1>3, <3>1
    <3>3. IsGated => HasExplicitRecovery \/ IsHeld
      BY <1>2, <2>5 DEF IsControllerClear, IsControllerRecovery, IsHeld, IsGated
    <3>4. IsHeld /\ motion.hold # "stalled" /\ ~IsGated => LatchOutlivesGate
      BY <1>2 DEF IsHeld, IsGated, LatchOutlivesGate, Holds
    <3>5. ~HasExplicitRecovery /\ IsHeld => state = "motion_blocked"
      BY <1>1, <1>4, <1>7, <2>1 DEF RuntimeState
    <3> QED BY <2>3, <3>2, <3>3, <3>4, <3>5
  <2> QED BY <2>4, <2>5
<1> QED BY <1>6, <1>7

\* What a summary of an active route gives away of what is not compared.
GivesAway(s) ==
    s.route_active =>
        /\ "motion_goal_reached" \in Fields =>
             s.motion_goal_reached = (s.runtime_state = "goal_reached")
        /\ "local_recovery_required" \in Fields =>
             s.local_recovery_required = (s.runtime_state = "recovery_required")
        /\ "controller_recovery" \in Fields =>
             s.controller_recovery = (s.recovery_phase = "recovery_executing")

LEMMA SnapshotGivesAway == ObserverTypeOK => GivesAway(Snapshot)
<1> SUFFICES ASSUME ObserverTypeOK, Snapshot.route_active PROVE GivesAway(Snapshot)
  BY DEF GivesAway
<1>1. IsRouteActive /\ IsRouteActive = TRUE /\ ActionStatus \notin Terminal
      /\ ActionStatus # "succeeded"
  BY DEF Snapshot, IsRouteActive, Terminal
<1>2. IsFinalHeadingAlignment => IsGoalApproach
  BY DEF IsFinalHeadingAlignment
<1>3. IsGoalApproach => IsActive /\ ~IsReached /\ ~IsHeld /\ ~IsControllerRecovery
                        /\ motion # Unheard
  BY DEF IsGoalApproach, IsActive, IsReached, IsControllerRecovery
<1>4. IsReached => motion # Unheard /\ motion.hold \in Holds
  BY MotionShape DEF IsReached, ObserverTypeOK
<1>5. PICK stalled : Snapshot.runtime_state = RuntimeState(IsRouteActive, stalled)
  BY DEF Snapshot
<1>6. PICK triggered : Snapshot.recovery_phase = RecoveryPhase(IsRouteActive, triggered)
  BY DEF Snapshot
<1>7. Snapshot.motion_goal_reached = (Snapshot.runtime_state = "goal_reached")
  <2>1. Snapshot.motion_goal_reached = IsReached
    BY DEF Snapshot
  <2>2. IsReached \in BOOLEAN
    BY DEF IsReached
  <2>3. Snapshot.runtime_state = "goal_reached" <=> IsReached
    BY <1>1, <1>2, <1>3, <1>5 DEF RuntimeState
  <2> QED BY <2>1, <2>2, <2>3
<1>8. Snapshot.local_recovery_required = (Snapshot.runtime_state = "recovery_required")
  <2>1. Snapshot.local_recovery_required =
          (HasExplicitRecovery /\ ControllerPhase \notin HoldPhases)
    BY <1>1 DEF Snapshot
  <2>2. ControllerPhase \in HoldPhases <=> IsReached \/ IsGoalApproach
    <3>1. motion # Unheard => motion.hold \in Holds
      BY MotionShape DEF ObserverTypeOK
    <3>2. CASE IsReached
      BY <1>4, <3>2 DEF ControllerPhase, HoldPhases
    <3>3. CASE IsGoalApproach
      BY <1>3, <3>3 DEF ControllerPhase, HoldPhases
    <3>4. CASE ~IsReached /\ ~IsGoalApproach
      BY <1>2, <3>1, <3>4 DEF ControllerPhase, HoldPhases, IsHeld, Holds
    <3> QED BY <3>2, <3>3, <3>4
  <2> QED BY <1>1, <1>2, <1>3, <1>5, <2>1, <2>2 DEF RuntimeState
<1>9. Snapshot.controller_recovery = (Snapshot.recovery_phase = "recovery_executing")
  <2>1. Snapshot.controller_recovery = (IsControllerRecovery /\ ActionStatus # "succeeded")
    BY DEF Snapshot
  <2>2. IsLocalEscape => ~IsControllerRecovery
    BY DEF IsLocalEscape, IsControllerRecovery
  <2>3. Snapshot.recovery_phase = "recovery_executing" <=> IsControllerRecovery
    BY <1>1, <1>6, <2>2 DEF RecoveryPhase
  <2> QED BY <1>1, <2>1, <2>3
<1> QED BY <1>7, <1>8, <1>9 DEF GivesAway

\* The age of the best distance is never more than that of the last progress
\* or command, and it is not below all that was said: whatever comes closer than
\* that, or by a whole clear delta, renews both.
Ages ==
    /\ sinceBest <= still
    /\ best # NoBaseline => least <= best

\* The summary and the last event say the same of all that is compared, and
\* give the same away.
Summarised ==
    previous # Unheard =>
        /\ \A f \in Watched \cap Fields : told[f] = previous[f]
        /\ GivesAway(previous) /\ GivesAway(told)

ObserverInv == ObserverTypeOK /\ Ages /\ Summarised

\* So the last event tells the rest as well.
LEMMA EventsGiveAway == Summarised => EventsTellTheRest
<1> SUFFICES ASSUME Summarised, previous # Unheard, previous.route_active,
                    NEW f \in Uncompared \cap Fields
             PROVE  told[f] = previous[f]
  BY DEF EventsTellTheRest
<1>1. /\ \A g \in Watched \cap Fields : told[g] = previous[g]
      /\ GivesAway(previous) /\ GivesAway(told)
  BY DEF Summarised
<1>2. told.route_active = previous.route_active /\ told.runtime_state = previous.runtime_state
  BY <1>1, ObservationAssumption DEF ObservationAssumption, Watched
<1>3. "controller_recovery" \in Fields => told.recovery_phase = previous.recovery_phase
  BY <1>1, ObservationAssumption DEF ObservationAssumption, Watched
<1> QED BY <1>1, <1>2, <1>3 DEF GivesAway, Uncompared

\* What may be heard does not depend on what was heard.
LEMMA SameMessages ==
    ASSUME commands' = commands
    PROVE  MotionMessages' = MotionMessages /\ PlanMessages' = PlanMessages
  BY DEF MotionMessages, PlanMessages, StatusesOf

\* The bounds of the observer are numbers.
LEMMA ObserverBounds ==
    /\ MaxDistance \in Nat /\ Epsilon \in Nat /\ StallWindow \in Nat \ {0}
    /\ ClearDelta \in Nat \ {0} /\ Far \in Nat /\ Far > MaxDistance + Epsilon
    /\ commands \in Plans => Len(commands) \in Nat
  BY ObservationAssumption DEF ObservationAssumption, Far

\* Only a publication touches what was summarised.
LEMMA SummaryKept ==
    ASSUME ObserverInv, UNCHANGED <<previous, told>>
    PROVE  Summarised'
  BY DEF ObserverInv, Summarised, GivesAway

\* A new command starts both ages anew.
LEMMA CommandAges ==
    ASSUME ObserverInv, HandleMotionCommand
    PROVE  ObserverInv'
<1>1. /\ UNCHANGED <<commands, motion, plan, feedback, statuses, previous, told>>
      /\ command < Len(commands) /\ command' = command + 1
      /\ best' = NoBaseline /\ sinceBest' = 0 /\ still' = 0 /\ least' = Far
      /\ compared' = FALSE /\ gaining' = FALSE /\ escape' \in {0, command'}
  BY DEF HandleMotionCommand
<1>2. ObserverTypeOK'
  <2>1. command' \in 0 .. Len(commands) /\ escape' \in 0 .. Len(commands)
    BY <1>1, ObserverBounds DEF ObserverInv, ObserverTypeOK
  <2>2. best' \in NoBaseline .. MaxDistance /\ 0 \in 0 .. StallWindow /\ least' \in 0 .. Far
    BY <1>1, ObserverBounds DEF NoBaseline
  <2> QED BY <1>1, <2>1, <2>2, SameMessages DEF ObserverInv, ObserverTypeOK
<1>3. Ages'
  BY <1>1 DEF Ages
<1> QED BY <1>1, <1>2, <1>3, SummaryKept DEF ObserverInv

\* A status that shows progress makes a new best distance, so it renews the
\* age of the best whenever it ends a standstill.
LEMMA StatusAges ==
    ASSUME ObserverInv, NEW message \in MotionMessages, HandleMotionStatus(message)
    PROVE  ObserverInv'
<1> DEFINE moved == ShownDelta(message)
           driven == message.active /\ message.mode = "navigate"
           improved == best = NoBaseline \/ message.distance < best - Epsilon
                          \/ moved >= ClearDelta
           renewed == (driven /\ improved) \/ message.reached \/ message.completed
           closer == moved >= ClearDelta \/ message.distance < least - Epsilon
<1>1. /\ UNCHANGED <<commands, command, plan, feedback, statuses, previous, told>>
      /\ gaining' = (moved >= ClearDelta)
      /\ best' = IF renewed THEN message.distance ELSE best
      /\ sinceBest' = IF renewed THEN 0 ELSE sinceBest
      /\ least' = IF driven \/ renewed THEN Lesser(least, message.distance) ELSE least
      /\ still' = IF driven /\ closer THEN 0 ELSE still
      /\ compared' = TRUE /\ motion' = message
      /\ escape' = 0 \/ escape' = escape
  BY DEF HandleMotionStatus
<1>2. message.distance \in 0 .. MaxDistance
  BY MotionShape DEF ObserverInv, ObserverTypeOK
<1>3. /\ best \in NoBaseline .. MaxDistance /\ sinceBest \in 0 .. StallWindow
      /\ still \in 0 .. StallWindow /\ escape \in 0 .. Len(commands)
      /\ least \in 0 .. Far /\ sinceBest <= still /\ (best # NoBaseline => least <= best)
  BY DEF ObserverInv, ObserverTypeOK, Ages
<1>4. best' \in NoBaseline .. MaxDistance
  BY <1>1, <1>2, <1>3, ObserverBounds DEF NoBaseline
<1>5. sinceBest' \in 0 .. StallWindow /\ still' \in 0 .. StallWindow
  BY <1>1, <1>3, ObserverBounds
<1>6. /\ Lesser(least, message.distance) <= message.distance
       /\ Lesser(least, message.distance) <= least
       /\ Lesser(least, message.distance) \in 0 .. Far
  BY <1>2, <1>3, ObserverBounds DEF Lesser
<1>7. least' \in 0 .. Far /\ least' <= least
  BY <1>1, <1>3, <1>6, ObserverBounds
<1>8. escape' \in 0 .. Len(commands)
  BY <1>1, <1>3, ObserverBounds DEF ObserverInv, ObserverTypeOK
<1>9. gaining' \in BOOLEAN
  BY <1>1
<1>10. Ages'
  <2>1. driven /\ closer => renewed
    BY <1>2, <1>3, ObserverBounds
  <2>2. sinceBest' <= still'
    BY <1>1, <1>3, <2>1, ObserverBounds
  <2>3. best' # NoBaseline => least' <= best'
    BY <1>1, <1>2, <1>3, <1>6, <1>7, ObserverBounds DEF NoBaseline
  <2> QED BY <2>2, <2>3 DEF Ages
<1>11. ObserverTypeOK'
  BY <1>1, <1>4, <1>5, <1>8, <1>9, <1>7, SameMessages DEF ObserverInv, ObserverTypeOK
<1> QED BY <1>1, <1>10, <1>11, SummaryKept DEF ObserverInv

\* Feedback only ever renews the age of the best distance.
LEMMA FeedbackAges ==
    ASSUME ObserverInv, NEW message \in FeedbackMessages, HandleNavigateFeedback(message)
    PROVE  ObserverInv'
<1>1. /\ UNCHANGED <<commands, command, motion, plan, statuses, compared, gaining, escape,
                     previous, told, still>>
      /\ feedback' = message
      /\ best' \in {message.distance, best} /\ sinceBest' \in {0, sinceBest}
      /\ least' = Lesser(least, message.distance)
  BY DEF HandleNavigateFeedback
<1>2. message.distance \in 0 .. MaxDistance
  BY ObservationAssumption DEF FeedbackMessages, ObservationAssumption
<1>3. /\ best \in NoBaseline .. MaxDistance /\ sinceBest \in 0 .. StallWindow
      /\ still \in 0 .. StallWindow /\ sinceBest <= still
      /\ least \in 0 .. Far /\ (best # NoBaseline => least <= best)
  BY DEF ObserverInv, ObserverTypeOK, Ages
<1>4. least' \in 0 .. Far /\ least' <= least /\ least' <= message.distance
  BY <1>1, <1>2, <1>3, ObserverBounds DEF Lesser
<1>5. best' \in NoBaseline .. MaxDistance /\ sinceBest' \in 0 .. StallWindow /\ Ages'
  BY <1>1, <1>2, <1>3, <1>4, ObserverBounds DEF NoBaseline, Ages
<1>6. ObserverTypeOK'
  BY <1>1, <1>5, <1>4, SameMessages DEF ObserverInv, ObserverTypeOK
<1> QED BY <1>1, <1>5, <1>6, SummaryKept DEF ObserverInv

\* A plan status and a goal status are kept, and nothing else changes.
LEMMA HearingAges ==
    ASSUME ObserverInv,
           \/ \E message \in PlanMessages : HandleLocalPlanStatus(message)
           \/ \E message \in StatusMessages : HandleNavigateStatus(message)
    PROVE  ObserverInv'
<1>1. /\ UNCHANGED <<commands, command, motion, feedback, progress, escape, previous, told,
                     history>>
      /\ plan' = plan \/ plan' \in PlanMessages
      /\ statuses' = statuses \/ statuses' \in StatusMessages
  BY DEF HandleLocalPlanStatus, HandleNavigateStatus
<1>2. ObserverTypeOK'
  BY <1>1, SameMessages DEF ObserverInv, ObserverTypeOK, progress, history
<1>3. Ages'
  BY <1>1 DEF ObserverInv, Ages, progress, history
<1> QED BY <1>1, <1>2, <1>3, SummaryKept DEF ObserverInv

\* A publication without an event repeats all that is compared.
LEMMA PublicationTells ==
    ASSUME ObserverInv, PublishObservation
    PROVE  ObserverInv'
<1> DEFINE summary == [f \in Fields |-> Snapshot[f]]
<1>1. /\ UNCHANGED <<heard, best, compared, gaining, escape, least>>
      /\ sinceBest' = Older(sinceBest, StallWindow) /\ still' = Older(still, StallWindow)
      /\ told' = IF previous = Unheard THEN summary
                 ELSE IF IsWatched(summary, previous) THEN summary ELSE told
      /\ previous' = summary
  BY DEF PublishObservation, PublishEventIfNeeded
<1>2. /\ sinceBest \in 0 .. StallWindow /\ still \in 0 .. StallWindow /\ sinceBest <= still
  BY DEF ObserverInv, ObserverTypeOK, Ages
<1>3. sinceBest' \in 0 .. StallWindow /\ still' \in 0 .. StallWindow /\ Ages'
  BY <1>1, <1>2, ObserverBounds DEF Older, Ages, ObserverInv
<1>4. ObserverTypeOK'
  BY <1>1, <1>3, SameMessages DEF ObserverInv, ObserverTypeOK, heard
<1>5. GivesAway(summary)
  <2>1. GivesAway(Snapshot)
    BY SnapshotGivesAway DEF ObserverInv
  <2>2. \A f \in Fields : summary[f] = Snapshot[f]
    OBVIOUS
  <2>3. {"route_active", "runtime_state"} \subseteq Fields
        /\ ("controller_recovery" \in Fields => "recovery_phase" \in Fields)
    BY ObservationAssumption DEF ObservationAssumption
  <2> HIDE DEF summary
  <2> QED BY <2>1, <2>2, <2>3 DEF GivesAway
<1> HIDE DEF summary
<1>6. \A f \in Watched \cap Fields : told'[f] = summary[f]
  <2>1. CASE previous # Unheard /\ ~IsWatched(summary, previous)
    <3>1. \A f \in Watched \cap Fields : summary[f] = previous[f] /\ told[f] = previous[f]
      BY <2>1 DEF IsWatched, ObserverInv, Summarised
    <3> QED BY <1>1, <2>1, <3>1
  <2> QED BY <1>1, <2>1
<1>7. GivesAway(told')
  BY <1>1, <1>5 DEF ObserverInv, Summarised
<1>8. Summarised'
  <2>1. GivesAway(previous')
    BY <1>1, <1>5
  <2> QED BY <1>1, <1>6, <1>7, <2>1 DEF Summarised, GivesAway
<1> QED BY <1>3, <1>4, <1>8 DEF ObserverInv

\* Nothing was heard and nothing told at the start.
LEMMA ObserverStarts == ObserverInit => ObserverInv
<1> SUFFICES ASSUME ObserverInit PROVE ObserverInv
  OBVIOUS
<1>1. ObserverTypeOK
  <2>1. /\ 0 \in 0 .. Len(commands) /\ 0 \in 0 .. StallWindow
        /\ NoBaseline \in NoBaseline .. MaxDistance /\ Far \in 0 .. Far
    BY ObserverBounds DEF ObserverInit, NoBaseline
  <2>2. statuses \in StatusMessages
    BY DEF ObserverInit, StatusMessages
  <2> QED BY <2>1, <2>2 DEF ObserverInit, ObserverTypeOK
<1>2. Ages /\ Summarised
  BY DEF ObserverInit, Ages, Summarised
<1> QED BY <1>1, <1>2 DEF ObserverInv

\* The invariant of the observer.
LEMMA ObserverInvariance == ObserverSpec => []ObserverInv
<1>1. ObserverInv /\ [ObserverNext]_observerVars => ObserverInv'
  <2> SUFFICES ASSUME ObserverInv, [ObserverNext]_observerVars PROVE ObserverInv'
    OBVIOUS
  <2>1. CASE UNCHANGED observerVars
    <3>1. ObserverTypeOK' /\ Ages'
      BY <2>1, SameMessages
         DEF observerVars, heard, progress, history, ObserverInv, ObserverTypeOK, Ages
    <3> QED BY <2>1, <3>1, SummaryKept DEF observerVars, ObserverInv
  <2> QED BY <2>1, CommandAges, StatusAges, FeedbackAges, HearingAges, PublicationTells
          DEF ObserverNext
<1> QED BY <1>1, ObserverStarts, PTL DEF ObserverSpec

\* What the observer keeps is what the topics can say.
THEOREM ObserverTypeCorrect == ObserverSpec => []ObserverTypeOK
<1>1. ObserverInv => ObserverTypeOK
  BY DEF ObserverInv
<1> QED BY <1>1, ObserverInvariance, PTL

\* recovery_reason and runtime_state never disagree on whether a route that
\* is under way is in trouble, in whatever order the topics were heard, but for
\* a blocked latch that outlives its gate, which runtime_state alone reports.
THEOREM OneVerdict == ObserverSpec => []VerdictsAgree
<1> QED BY ObserverTypeCorrect, VerdictsFollow, PTL

\* A stall is said only of a robot that no status showed closer for a window,
\* by a clear delta at once or by creeping below all that was said before.
THEOREM StallIsEarned == ObserverSpec => []StallTakesAWindow
<1>1. ObserverInv => StallTakesAWindow
  <2> SUFFICES ASSUME ObserverInv, Snapshot.progress_stalled PROVE still >= StallWindow
    BY DEF StallTakesAWindow
  <2>1. sinceBest >= StallWindow
    BY DEF Snapshot, IsProgressStalled
  <2>2. sinceBest \in Int /\ still \in Int /\ sinceBest <= still /\ StallWindow \in Int
    BY ObserverBounds DEF ObserverInv, ObserverTypeOK, Ages
  <2> QED BY <2>1, <2>2
<1> QED BY <1>1, ObserverInvariance, PTL

\* The events of an active route tell what none of them is about.
THEOREM EventsSuffice == ObserverSpec => []EventsTellTheRest
<1>1. ObserverInv => EventsTellTheRest
  BY EventsGiveAway DEF ObserverInv
<1> QED BY <1>1, ObserverInvariance, PTL

-----------------------------------------------------------------------------
(* The operator's window                                                   *)
(*                                                                         *)
(* What locks the schedule must also end the add mode (LockEndsAdding): a  *)
(* button released on the scene under a lock would add a waypoint.         *)

\* Every bounded set of indices has a largest one.
LEMMA LargestIndex ==
    ASSUME NEW n \in Nat, NEW S, S \subseteq 0 .. n, S # {}
    PROVE  Max(S) \in S
<1> DEFINE T == {n - i : i \in S}
           less == {p \in Nat \X Nat : p[1] < p[2]}
<1>1. T \subseteq Nat /\ T # {}
  <2>1. \A i \in S : i \in 0 .. n /\ n - i \in Nat
    OBVIOUS
  <2>2. PICK i \in S : TRUE
    OBVIOUS
  <2> QED BY <2>1, <2>2
<1>2. IsWellFoundedOn(less, Nat)
  BY NatLessThanWellFounded DEF OpToRel
<1>3. PICK x \in T : \A y \in T : ~(<<y, x>> \in less)
  <2> HIDE DEF T, less
  <2> QED BY <1>1, <1>2, WFMin
<1>4. \A y \in T : ~(y < x)
  BY <1>1, <1>3
<1>5. PICK i \in S : x = n - i
  OBVIOUS
<1>6. \A j \in S : i >= j
  BY <1>4, <1>5
<1> QED BY <1>6 DEF Max

\* The waypoint under the mouse is one of the schedule, or none.
LEMMA WaypointAtIsRow ==
    ASSUME waypoints \in Seq(Spots), NEW place
    PROVE  WaypointAt(place) \in 0 .. Len(waypoints)
<1> DEFINE rows == {0} \cup {i \in DOMAIN waypoints : waypoints[i] = place}
<1>1. Len(waypoints) \in Nat /\ rows \subseteq 0 .. Len(waypoints) /\ rows # {}
  OBVIOUS
<1>2. Max(rows) \in rows
  <2> HIDE DEF rows
  <2> QED BY <1>1, LargestIndex
<1> QED BY <1>1, <1>2 DEF WaypointAt

\* Taking a row out of a schedule leaves one waypoint less.
LEMMA RemoveAtShortens ==
    ASSUME NEW s \in Seq(Spots), NEW i \in DOMAIN s
    PROVE  RemoveAt(s, i) \in Seq(Spots) /\ Len(RemoveAt(s, i)) = Len(s) - 1
<1> DEFINE before == SubSeq(s, 1, i - 1)
           after == SubSeq(s, i + 1, Len(s))
<1>1. i \in 1 .. Len(s) /\ Len(s) \in Nat
  OBVIOUS
<1>2. before \in Seq(Spots) /\ Len(before) = i - 1
  BY <1>1
<1>3. after \in Seq(Spots) /\ Len(after) = Len(s) - i
  BY <1>1
<1>4. RemoveAt(s, i) = before \o after
  BY DEF RemoveAt
<1> HIDE DEF before, after
<1>5. before \o after \in Seq(Spots) /\ Len(before \o after) = Len(before) + Len(after)
  BY <1>2, <1>3
<1> QED BY <1>1, <1>2, <1>3, <1>4, <1>5

\* The schedule and the aim.
ScheduleOK ==
    /\ waypoints \in Seq(Spots)
    /\ Len(waypoints) <= MaxWaypoints
    /\ selected \in 0 .. Len(waypoints)
    /\ aim \in Spots \cup {NoPose}

\* A locked window is not in the mode that adds waypoints.
LockEndsAdding == locked => ~adding

\* While the stick is not held a stop waits behind every velocity that waits,
\* and one waits if the robot was told to move.
StopIsLast ==
    /\ ~open => ~velocity
    /\ ~dragging =>
         /\ velocity => \E j \in DOMAIN signals : signals[j] = "halt"
         /\ \A i \in DOMAIN signals : signals[i] = "move" =>
              \E j \in DOMAIN signals : j > i /\ signals[j] = "halt"

ConsoleInv == ConsoleTypeOK /\ LockEndsAdding /\ StopIsLast

\* The clicks that change the schedule, and nothing else but the aim and the
\* button that is held.
Editing ==
    \/ \E place \in Spots : PressScene(place)
    \/ \E index \in 1 .. MaxWaypoints : SelectWaypoint(index)
    \/ \E by \in {-1, 1} : MoveSelectedWaypoint(by)
    \/ ReleaseScene \/ AddAimAsWaypoint \/ RemoveSelectedWaypoint \/ ClearSchedule

\* The schedule stays within its bound, the selection within the schedule, and
\* while editing is locked no click adds a waypoint.
LEMMA EditingKeeps ==
    ASSUME ScheduleOK, LockEndsAdding, Editing
    PROVE  ScheduleOK' /\ (locked => Len(waypoints') <= Len(waypoints))
<1>0. /\ waypoints \in Seq(Spots) /\ Len(waypoints) \in Nat
      /\ selected \in 0 .. Len(waypoints) /\ aim \in Spots \cup {NoPose}
      /\ Len(waypoints) <= MaxWaypoints /\ MaxWaypoints \in Nat
      /\ DOMAIN waypoints = 1 .. Len(waypoints)
  BY ConsoleAssumption DEF ScheduleOK, ConsoleAssumption
<1>1. ASSUME NEW place \in Spots, PressScene(place)
      PROVE  ScheduleOK' /\ Len(waypoints') <= Len(waypoints)
  <2>1. /\ waypoints' = waypoints /\ aim' \in Spots \cup {NoPose}
        /\ selected' \in {selected, WaypointAt(place)}
    BY <1>0, <1>1 DEF PressScene, Schedule
  <2> QED BY <1>0, <2>1, WaypointAtIsRow DEF ScheduleOK
<1>2. ASSUME NEW index \in 1 .. MaxWaypoints, SelectWaypoint(index)
      PROVE  ScheduleOK' /\ Len(waypoints') <= Len(waypoints)
  BY <1>0, <1>2 DEF SelectWaypoint, Schedule, ScheduleOK
<1>3. ASSUME NEW by \in {-1, 1}, MoveSelectedWaypoint(by)
      PROVE  ScheduleOK' /\ Len(waypoints') <= Len(waypoints)
  <2>1. selected \in 1 .. Len(waypoints) /\ selected + by \in 1 .. Len(waypoints)
    BY <1>0, <1>3 DEF MoveSelectedWaypoint
  <2>2. /\ waypoints' = [waypoints EXCEPT ![selected] = waypoints[selected + by],
                                         ![selected + by] = waypoints[selected]]
        /\ selected' = selected + by /\ aim' = aim
    BY <1>3 DEF MoveSelectedWaypoint, Schedule
  <2>3. waypoints[selected] \in Spots /\ waypoints[selected + by] \in Spots
    BY <1>0, <2>1
  <2>4. waypoints' \in Seq(Spots) /\ Len(waypoints') = Len(waypoints)
    BY <1>0, <2>1, <2>2, <2>3
  <2> QED BY <1>0, <2>1, <2>2, <2>4 DEF ScheduleOK
<1>4. CASE RemoveSelectedWaypoint
  <2> DEFINE rest == RemoveAt(waypoints, selected)
  <2>1. /\ selected \in DOMAIN waypoints /\ waypoints' = rest /\ aim' = NoPose
        /\ selected' = IF selected > Len(rest) THEN Len(rest) ELSE selected
    BY <1>4 DEF RemoveSelectedWaypoint, Schedule
  <2>2. rest \in Seq(Spots) /\ Len(rest) = Len(waypoints) - 1
    BY <1>0, <2>1, RemoveAtShortens
  <2> HIDE DEF rest
  <2> QED BY <1>0, <2>1, <2>2 DEF ScheduleOK
<1>5. CASE ClearSchedule
  <2>1. <<>> \in Seq(Spots) /\ Len(<<>>) = 0
    OBVIOUS
  <2> QED BY <1>0, <1>5, <2>1 DEF ClearSchedule, EmptySchedule, Schedule, ScheduleOK
<1>6. CASE ReleaseScene \/ AddAimAsWaypoint
  <2>1. CASE /\ waypoints' = Append(waypoints, aim) /\ selected' = Len(waypoints) + 1
             /\ aim \in Spots /\ aim' = NoPose
             /\ Len(waypoints) < MaxWaypoints /\ ~locked
    <3>1. Append(waypoints, aim) \in Seq(Spots)
          /\ Len(Append(waypoints, aim)) = Len(waypoints) + 1
      BY <1>0, <2>1
    <3> QED BY <1>0, <2>1, <3>1 DEF ScheduleOK
  <2>2. CASE UNCHANGED <<waypoints, selected, aim>>
    BY <1>0, <2>2 DEF ScheduleOK
  <2> QED BY <1>0, <1>6, <2>1, <2>2
          DEF ReleaseScene, AddAimAsWaypoint, Schedule, LockEndsAdding
<1> QED BY <1>1, <1>2, <1>3, <1>4, <1>5, <1>6 DEF Editing

\* The rest of the window's own state, and its neighbours'.
FlagsOK ==
    /\ panel \in {"shown", "hiding", "hidden"}
    /\ heading \in BOOLEAN /\ adding \in BOOLEAN /\ locked \in BOOLEAN
    /\ dragging \in BOOLEAN /\ velocity \in BOOLEAN
    /\ sent \in 0 .. MaxSent /\ running \in BOOLEAN /\ driving \in BOOLEAN
    /\ stopping \in BOOLEAN /\ open \in BOOLEAN

\* The queue of the GUI thread.
SignalsOK ==
    /\ signals \in Seq(Signals)
    /\ Len(signals) <= MaxQueue

\* The parts make up the type invariant.
LEMMA ConsoleTypeParts == ConsoleTypeOK <=> ScheduleOK /\ FlagsOK /\ SignalsOK
  BY DEF ConsoleTypeOK, ScheduleOK, FlagsOK, SignalsOK

\* A signal is served: a velocity is published, any other leaves it alone.
ServeStep ==
    /\ signals # <<>> /\ signals' = Tail(signals)
    /\ UNCHANGED <<dragging, open>>
    /\ open
    /\ velocity' = IF Head(signals) \in Velocities THEN Head(signals) = "move" ELSE velocity

\* What becomes of the velocities: nothing is asked for, or only while the stick
\* is held; a stop is, when it is let go; one is published; or the window closes.
StickStep ==
    \/ /\ UNCHANGED <<dragging, velocity, open>>
       /\ UNCHANGED signals \/ \E signal \in Signals \ {"move"} : Emit(signal)
    \/ dragging' = TRUE /\ open' = TRUE
    \/ dragging' = FALSE /\ Emit("halt") /\ UNCHANGED <<velocity, open>>
    \/ ServeStep
    \/ velocity' = FALSE /\ signals' = <<>>

\* A signal at the end of the queue, which asks for no velocity or for a stop.
LEMMA SentBehind ==
    ASSUME SignalsOK, StopIsLast, NEW signal \in Signals \ {"move"}, Emit(signal),
           UNCHANGED <<velocity, open>>, ~dragging \/ signal = "halt"
    PROVE  StopIsLast'
<1>1. signals \in Seq(Signals) /\ signals' = Append(signals, signal) /\ Len(signals) \in Nat
  BY DEF SignalsOK, Emit
<1>2. Len(signals') = Len(signals) + 1 /\ signals'[Len(signals) + 1] = signal
      /\ DOMAIN signals = 1 .. Len(signals) /\ DOMAIN signals' = 1 .. Len(signals')
      /\ \A i \in DOMAIN signals : i \in DOMAIN signals' /\ signals'[i] = signals[i]
  BY <1>1
<1>3. ASSUME ~dragging PROVE StopIsLast'
  <2>1. velocity' => \E j \in DOMAIN signals' : signals'[j] = "halt"
    BY <1>2, <1>3 DEF StopIsLast
  <2>2. ASSUME NEW i \in DOMAIN signals', signals'[i] = "move"
        PROVE  \E j \in DOMAIN signals' : j > i /\ signals'[j] = "halt"
    <3>1. i \in DOMAIN signals /\ signals[i] = "move"
      BY <1>1, <1>2, <2>2
    <3>2. PICK j \in DOMAIN signals : j > i /\ signals[j] = "halt"
      BY <1>3, <3>1 DEF StopIsLast
    <3> QED BY <1>2, <3>2
  <2> QED BY <2>1, <2>2 DEF StopIsLast
<1>4. ASSUME signal = "halt" PROVE StopIsLast'
  <2>1. Len(signals') \in DOMAIN signals' /\ signals'[Len(signals')] = "halt"
    BY <1>1, <1>2, <1>4
  <2>2. \A i \in DOMAIN signals' : signals'[i] = "move" => Len(signals') > i
    BY <1>1, <1>2, <2>1
  <2> QED BY <2>1, <2>2 DEF StopIsLast
<1> QED BY <1>3, <1>4

\* The first signal is served: a stop that was behind it still is.
LEMMA ServedInFront ==
    ASSUME SignalsOK, StopIsLast, ServeStep, ~dragging
    PROVE  StopIsLast'
<1>1. signals \in Seq(Signals) /\ signals # <<>> /\ signals' = Tail(signals)
      /\ Len(signals) \in Nat \ {0} /\ open' /\ Head(signals) = signals[1]
  BY DEF SignalsOK, ServeStep
<1>2. /\ DOMAIN signals = 1 .. Len(signals) /\ DOMAIN signals' = 1 .. Len(signals) - 1
      /\ \A i \in DOMAIN signals' : i + 1 \in DOMAIN signals /\ signals'[i] = signals[i + 1]
      /\ \A i \in DOMAIN signals : i # 1 => i - 1 \in DOMAIN signals'
                                          /\ signals'[i - 1] = signals[i]
  BY <1>1
<1>3. ASSUME velocity' PROVE \E j \in DOMAIN signals' : signals'[j] = "halt"
  <2>1. PICK j \in DOMAIN signals : signals[j] = "halt" /\ j # 1
    <3>1. CASE Head(signals) = "move"
      <4>1. 1 \in DOMAIN signals /\ signals[1] = "move"
        BY <1>1, <1>2, <3>1
      <4>2. PICK j \in DOMAIN signals : j > 1 /\ signals[j] = "halt"
        BY <4>1 DEF StopIsLast
      <4> QED BY <4>2
    <3>2. CASE Head(signals) # "move"
      <4>1. velocity /\ signals[1] # "halt"
        BY <1>1, <1>3, <3>2 DEF ServeStep, Velocities
      <4> QED BY <4>1 DEF StopIsLast
    <3> QED BY <3>1, <3>2
  <2> QED BY <1>2, <2>1
<1>4. ASSUME NEW i \in DOMAIN signals', signals'[i] = "move"
      PROVE  \E j \in DOMAIN signals' : j > i /\ signals'[j] = "halt"
  <2>1. i + 1 \in DOMAIN signals /\ signals[i + 1] = "move" /\ i \in Nat /\ i >= 1
    BY <1>1, <1>2, <1>4
  <2>2. PICK j \in DOMAIN signals : j > i + 1 /\ signals[j] = "halt"
    BY <2>1 DEF StopIsLast
  <2>3. j - 1 \in DOMAIN signals' /\ signals'[j - 1] = "halt" /\ j - 1 > i
    BY <1>1, <1>2, <2>1, <2>2
  <2> QED BY <2>3
<1> QED BY <1>1, <1>3, <1>4 DEF StopIsLast

\* So the stop stays last, whatever becomes of the velocities.
LEMMA StickStops ==
    ASSUME SignalsOK, StopIsLast, StickStep
    PROVE  StopIsLast'
<1>1. CASE UNCHANGED <<dragging, velocity, open, signals>>
  BY <1>1 DEF StopIsLast
<1>2. CASE UNCHANGED <<dragging, velocity, open>>
           /\ \E signal \in Signals \ {"move"} : Emit(signal)
  <2>1. CASE dragging
    BY <1>2, <2>1 DEF StopIsLast
  <2> QED BY <1>2, <2>1, SentBehind
<1>3. CASE dragging' = TRUE /\ open' = TRUE
  BY <1>3 DEF StopIsLast
<1>4. CASE dragging' = FALSE /\ Emit("halt") /\ UNCHANGED <<velocity, open>>
  <2>1. "halt" \in Signals \ {"move"}
    BY DEF Signals, Velocities
  <2> QED BY <1>4, <2>1, SentBehind
<1>5. CASE ServeStep
  <2>1. CASE dragging
    BY <1>5, <2>1 DEF StopIsLast, ServeStep
  <2> QED BY <1>5, <2>1, ServedInFront
<1>6. CASE velocity' = FALSE /\ signals' = <<>>
  <2>1. DOMAIN <<>> = {}
    OBVIOUS
  <2> QED BY <1>6, <2>1 DEF StopIsLast
<1> QED BY <1>1, <1>2, <1>3, <1>4, <1>5, <1>6 DEF StickStep

\* The lock and the add mode: unchanged, or the lock ends the add mode.
LockStep ==
    \/ UNCHANGED locked /\ adding' \in {adding, FALSE}
    \/ UNCHANGED locked /\ ~locked
    \/ locked' = FALSE
    \/ adding' = FALSE

\* A lock step keeps a locked window out of the add mode.
LEMMA LockEnds ==
    ASSUME LockEndsAdding, LockStep
    PROVE  LockEndsAdding'
  BY DEF LockEndsAdding, LockStep

\* setWaypointEditingLocked is such a step.
LEMMA SetLockedEnds ==
    ASSUME FlagsOK, NEW lock \in BOOLEAN, SetLocked(lock)
    PROVE  LockStep /\ locked' \in BOOLEAN /\ adding' \in BOOLEAN
<1>1. CASE lock
  BY <1>1 DEF SetLocked, LockStep
<1>2. CASE ~lock
  BY <1>2 DEF SetLocked, LockStep, FlagsOK
<1> QED BY <1>1, <1>2

\* A signal that is sent, or taken from the queue.
LEMMA QueueKeeps ==
    ASSUME SignalsOK
    PROVE  /\ UNCHANGED signals => SignalsOK'
           /\ signals' = <<>> => SignalsOK'
           /\ \A signal \in Signals : Emit(signal) => SignalsOK'
           /\ signals # <<>> /\ signals' = Tail(signals) => SignalsOK'
<1>1. MaxQueue \in Nat /\ signals \in Seq(Signals) /\ Len(signals) <= MaxQueue
      /\ Len(signals) \in Nat
  BY ConsoleAssumption DEF ConsoleAssumption, SignalsOK
<1>2. UNCHANGED signals => SignalsOK'
  BY <1>1 DEF SignalsOK
<1>3. signals' = <<>> => SignalsOK'
  <2>1. <<>> \in Seq(Signals) /\ Len(<<>>) = 0
    OBVIOUS
  <2> QED BY <1>1, <2>1 DEF SignalsOK
<1>4. ASSUME NEW signal \in Signals, Emit(signal) PROVE SignalsOK'
  BY <1>1, <1>4 DEF Emit, SignalsOK
<1>5. ASSUME signals # <<>>, signals' = Tail(signals) PROVE SignalsOK'
  BY <1>1, <1>5 DEF SignalsOK
<1> QED BY <1>2, <1>3, <1>4, <1>5

\* One step of the window keeps the types and the lock, leaves a stop behind
\* a stick that is let go, and adds nothing to a locked schedule.
Keeps == ConsoleInv' /\ (locked => Len(waypoints') <= Len(waypoints))

\* How steps that leave the schedule alone are shown to keep everything.
LEMMA OtherKeeps ==
    ASSUME ConsoleInv, UNCHANGED <<waypoints, selected, aim>>,
           FlagsOK', SignalsOK', LockStep, StickStep
    PROVE  Keeps
<1>1. ScheduleOK /\ SignalsOK /\ Len(waypoints) \in Nat
  BY ConsoleTypeParts DEF ConsoleInv, ScheduleOK
<1>2. ScheduleOK'
  BY <1>1 DEF ScheduleOK
<1>3. ConsoleTypeOK'
  BY <1>2, ConsoleTypeParts DEF ConsoleTypeOK, ScheduleOK, FlagsOK, SignalsOK
<1>4. Len(waypoints') <= Len(waypoints)
  BY <1>1
<1> QED BY <1>1, <1>3, <1>4, LockEnds, StickStops DEF ConsoleInv, Keeps

\* The clicks on the schedule.
LEMMA EditingStep ==
    ASSUME ConsoleInv, Editing
    PROVE  Keeps
<1>1. UNCHANGED <<adding, locked, panel, joystick, signals, navigator, open>>
      /\ heading' \in BOOLEAN
  BY DEF Editing, PressScene, SelectWaypoint, MoveSelectedWaypoint, ReleaseScene,
     AddAimAsWaypoint, RemoveSelectedWaypoint, ClearSchedule, ConsoleInv, ConsoleTypeOK
<1>2. ScheduleOK' /\ (locked => Len(waypoints') <= Len(waypoints))
  BY EditingKeeps, ConsoleTypeParts DEF ConsoleInv
<1>3. FlagsOK' /\ SignalsOK'
  BY <1>1 DEF ConsoleInv, ConsoleTypeOK, FlagsOK, SignalsOK, joystick, navigator
<1>4. ConsoleTypeOK'
  BY <1>2, <1>3 DEF ConsoleTypeOK, ScheduleOK, FlagsOK, SignalsOK
<1>5. LockEndsAdding' /\ StopIsLast'
  BY <1>1, Zenon DEF ConsoleInv, LockEndsAdding, StopIsLast, joystick
<1> QED BY <1>2, <1>4, <1>5 DEF ConsoleInv, Keeps

\* The joystick, the panel it is on, and the end of the window.
LEMMA JoystickStep ==
    ASSUME ConsoleInv,
           \/ \E off \in BOOLEAN : PressStick(off) \/ PublishCurrentCommand(off)
           \/ ReleaseStick
           \/ \E ai \in BOOLEAN : SetControlMode(ai)
           \/ AnimationFinished \/ Close
    PROVE  Keeps
<1> USE DEF schedule, joystick, navigator
<1>1. FlagsOK /\ SignalsOK
  BY ConsoleTypeParts DEF ConsoleInv
<1>2. UNCHANGED <<waypoints, selected, aim, heading, adding, locked,
                  sent, running, driving, stopping>>
  BY DEF PressStick, PublishCurrentCommand, ReleaseStick, SetControlMode,
     AnimationFinished, Close
<1>3. "move" \in Signals /\ "halt" \in Signals \ {"move"}
  BY DEF Signals, Velocities
<1>4. LockStep
  BY <1>2 DEF LockStep
<1>5. CASE \E off \in BOOLEAN : PressStick(off) \/ PublishCurrentCommand(off)
  <2>1. /\ dragging' = TRUE /\ open' = TRUE /\ UNCHANGED <<velocity, panel>>
        /\ Emit("move") \/ Emit("halt")
    BY <1>1, <1>5 DEF PressStick, PublishCurrentCommand, RequestCommand, FlagsOK
  <2>2. FlagsOK'
    BY <1>1, <1>2, <2>1 DEF FlagsOK
  <2>3. StickStep
    BY <2>1 DEF StickStep
  <2>4. SignalsOK'
    BY <1>1, <1>3, <2>1, QueueKeeps
  <2> QED BY <1>2, <1>4, <2>2, <2>3, <2>4, OtherKeeps
<1>6. CASE ReleaseStick \/ AnimationFinished \/ \E ai \in BOOLEAN : SetControlMode(ai)
  <2>1. /\ UNCHANGED <<velocity, open>>
        /\ \/ UNCHANGED <<dragging, signals>>
           \/ dragging' = FALSE /\ Emit("halt")
    BY <1>6 DEF ReleaseStick, AnimationFinished, SetControlMode, ResetControl
  <2>2. panel' \in {"shown", "hiding", "hidden"}
    BY <1>1, <1>6 DEF ReleaseStick, AnimationFinished, SetControlMode, FlagsOK
  <2>3. FlagsOK'
    BY <1>1, <1>2, <2>1, <2>2 DEF FlagsOK
  <2>4. StickStep
    BY <2>1 DEF StickStep
  <2>5. SignalsOK'
    BY <1>1, <1>3, <2>1, QueueKeeps
  <2> QED BY <1>2, <1>4, <2>3, <2>4, <2>5, OtherKeeps
<1>7. CASE Close
  <2>1. /\ dragging' = FALSE /\ velocity' = FALSE /\ open' = FALSE
        /\ signals' = <<>> /\ panel' = panel
    BY <1>7 DEF Close, PublishVelocityCommand
  <2>2. FlagsOK'
    BY <1>1, <1>2, <2>1 DEF FlagsOK
  <2>3. StickStep
    BY <2>1 DEF StickStep
  <2>4. SignalsOK'
    BY <1>1, <2>1, QueueKeeps
  <2> QED BY <1>2, <1>4, <2>2, <2>3, <2>4, OtherKeeps
<1> QED BY <1>5, <1>6, <1>7

\* The buttons, and what the ROS thread hears and does.
LEMMA GoalStep ==
    ASSUME ConsoleInv,
           \/ ToggleAdding \/ SendGoal \/ CancelNavigation
           \/ GoalResponse \/ CancelArrives
           \/ \E outcome \in {"succeeded", "failed"} : GoalResult(outcome)
           \/ ControllerFollows \/ HearMotionStatus \/ HearRuntimeSummary
    PROVE  Keeps
<1> USE DEF schedule, joystick, navigator
<1>1. FlagsOK /\ SignalsOK
  BY ConsoleTypeParts DEF ConsoleInv
<1>2. UNCHANGED <<waypoints, selected, aim, heading, panel, dragging, velocity, open>>
  BY DEF ToggleAdding, SendGoal, CancelNavigation, GoalResponse, CancelArrives, GoalResult,
     ControllerFollows, HearMotionStatus, HearRuntimeSummary
<1>3. \/ UNCHANGED signals
      \/ \E signal \in Signals \ {"move"} : Emit(signal)
  BY DEF ToggleAdding, SendGoal, CancelNavigation, GoalResponse, CancelArrives,
     GoalResult, ControllerFollows, HearMotionStatus, HearRuntimeSummary, Signals
<1>4. LockStep /\ locked' \in BOOLEAN /\ adding' \in BOOLEAN
  <2>1. CASE ToggleAdding
    BY <1>1, <2>1 DEF ToggleAdding, LockStep, FlagsOK
  <2>2. CASE SendGoal
    BY <1>1, <2>2 DEF SendGoal, LockStep, FlagsOK
  <2>3. CASE CancelNavigation
    BY <1>1, <2>3, SetLockedEnds DEF CancelNavigation
  <2>4. CASE UNCHANGED <<locked, adding>>
    BY <1>1, <2>4 DEF LockStep, FlagsOK
  <2> QED BY <2>1, <2>2, <2>3, <2>4
          DEF GoalResponse, CancelArrives, GoalResult, ControllerFollows, HearMotionStatus,
              HearRuntimeSummary
<1>5. SignalsOK' /\ StickStep
  BY <1>1, <1>2, <1>3, QueueKeeps DEF StickStep
<1>6. sent' \in 0 .. MaxSent /\ running' \in BOOLEAN /\ driving' \in BOOLEAN
      /\ stopping' \in BOOLEAN
  <2>1. CASE SendGoal
    <3>1. sent' \in {sent, sent + 1} /\ sent < MaxSent /\ MaxSent \in Nat
      BY <2>1, ConsoleAssumption
         DEF SendGoal, SendSingleGoal, SendRoute, ConsoleAssumption
    <3> QED BY <1>1, <2>1, <3>1 DEF SendGoal, FlagsOK
  <2>2. CASE GoalResponse
    <3>1. sent' = sent - 1 /\ sent > 0 /\ MaxSent \in Nat
      BY <2>2, ConsoleAssumption DEF GoalResponse, ConsoleAssumption
    <3>2. sent' \in 0 .. MaxSent
      BY <1>1, <3>1 DEF FlagsOK
    <3>3. UNCHANGED <<driving, stopping>> /\ (running' = TRUE \/ running' = running)
      BY <2>2 DEF GoalResponse
    <3> QED BY <1>1, <3>2, <3>3, Zenon DEF FlagsOK
  <2>3. CASE ~SendGoal /\ ~GoalResponse
    BY <1>1, <2>3 DEF FlagsOK, ToggleAdding, CancelNavigation, CancelArrives,
       GoalResult, ControllerFollows, HearMotionStatus, HearRuntimeSummary
  <2> QED BY <2>1, <2>2, <2>3
<1>7. FlagsOK'
  BY <1>1, <1>2, <1>4, <1>6 DEF FlagsOK
<1> QED BY <1>2, <1>4, <1>5, <1>7, OtherKeeps

\* A signal taken from the queue: it may move or stop the robot, or lock, unlock
\* or empty the schedule.
LEMMA SignalStep ==
    ASSUME ConsoleInv, ProcessSignal
    PROVE  Keeps
<1> USE DEF schedule, joystick, navigator
<1>1. ScheduleOK /\ FlagsOK /\ SignalsOK
  BY ConsoleTypeParts DEF ConsoleInv
<1>2. /\ UNCHANGED <<heading, panel, dragging, open, sent, running, driving, stopping>>
      /\ signals # <<>> /\ signals' = Tail(signals)
      /\ UNCHANGED <<locked, adding>> \/ \E lock \in BOOLEAN : SetLocked(lock)
      /\ UNCHANGED <<waypoints, selected, aim>> \/ EmptySchedule
  BY DEF ProcessSignal, UpdateMotionStatus, UpdateRuntimeSummary, NavigationCompleted
<1>3. SignalsOK'
  BY <1>1, <1>2, QueueKeeps
<1>4. LockStep /\ locked' \in BOOLEAN /\ adding' \in BOOLEAN
  <2>1. CASE UNCHANGED <<locked, adding>>
    BY <1>1, <2>1 DEF LockStep, FlagsOK
  <2> QED BY <1>1, <1>2, <2>1, SetLockedEnds
<1>5. ServeStep
  BY DEF ProcessSignal, ServeStep, PublishVelocityCommand
<1>6. StickStep /\ FlagsOK'
  <2>1. velocity' \in BOOLEAN
    BY <1>1, <1>5 DEF ServeStep, FlagsOK
  <2> QED BY <1>1, <1>2, <1>4, <1>5, <2>1 DEF StickStep, FlagsOK
<1>7. CASE EmptySchedule
  <2>1. /\ waypoints' = <<>> /\ selected' = 0 /\ aim' = NoPose
        /\ <<>> \in Seq(Spots) /\ Len(<<>>) = 0
    BY <1>7 DEF EmptySchedule, Schedule
  <2>2. MaxWaypoints \in Nat /\ Len(waypoints) \in Nat
    BY <1>1, ConsoleAssumption DEF ConsoleAssumption, ScheduleOK
  <2>3. ScheduleOK' /\ Len(waypoints') <= Len(waypoints)
    BY <2>1, <2>2 DEF ScheduleOK
  <2>4. ConsoleTypeOK'
    BY <1>3, <1>6, <2>3 DEF ConsoleTypeOK, ScheduleOK, FlagsOK, SignalsOK
  <2> QED BY <1>1, <1>4, <1>6, <2>3, <2>4, LockEnds, StickStops DEF ConsoleInv, Keeps
<1>8. CASE UNCHANGED <<waypoints, selected, aim>>
  BY <1>3, <1>4, <1>6, <1>8, OtherKeeps
<1> QED BY <1>2, <1>7, <1>8

\* Every step keeps the invariant, and adds nothing to a locked schedule.
LEMMA ConsoleSteps == ConsoleInv /\ [ConsoleNext]_consoleVars => Keeps
<1> SUFFICES ASSUME ConsoleInv, [ConsoleNext]_consoleVars PROVE Keeps
  OBVIOUS
<1>1. CASE UNCHANGED consoleVars
  <2>1. UNCHANGED <<waypoints, selected, aim, heading, adding, locked, panel, dragging,
                    velocity, signals, sent, running, driving, stopping, open>>
    BY <1>1 DEF consoleVars, schedule, joystick, navigator
  <2>2. FlagsOK /\ SignalsOK
    BY ConsoleTypeParts DEF ConsoleInv
  <2>3. FlagsOK' /\ SignalsOK'
    BY <2>1, <2>2 DEF FlagsOK, SignalsOK
  <2>4. LockStep /\ StickStep
    BY <2>1 DEF LockStep, StickStep
  <2> QED BY <2>1, <2>3, <2>4, OtherKeeps
<1>2. CASE Editing
  BY <1>2, EditingStep
<1> QED BY <1>1, <1>2, EditingStep, JoystickStep, GoalStep, SignalStep
        DEF ConsoleNext, Editing

\* An empty window.
LEMMA ConsoleStarts == ConsoleInit => ConsoleInv
<1> SUFFICES ASSUME ConsoleInit PROVE ConsoleInv
  OBVIOUS
<1>1. /\ <<>> \in Seq(Spots) /\ <<>> \in Seq(Signals) /\ Len(<<>>) = 0 /\ DOMAIN <<>> = {}
      /\ MaxWaypoints \in Nat /\ MaxQueue \in Nat /\ MaxSent \in Nat
  BY ConsoleAssumption DEF ConsoleAssumption
<1>2. ScheduleOK /\ FlagsOK /\ SignalsOK
  <2>1. ScheduleOK
    BY <1>1 DEF ConsoleInit, ScheduleOK
  <2>2. FlagsOK
    <3>1. sent \in 0 .. MaxSent
      BY <1>1 DEF ConsoleInit
    <3> QED BY <3>1, Zenon DEF ConsoleInit, FlagsOK
  <2>3. SignalsOK
    BY <1>1 DEF ConsoleInit, SignalsOK
  <2> QED BY <2>1, <2>2, <2>3
<1>3. LockEndsAdding /\ StopIsLast
  BY <1>1 DEF ConsoleInit, LockEndsAdding, StopIsLast
<1> QED BY <1>2, <1>3, ConsoleTypeParts DEF ConsoleInv

\* The invariant of the window.
LEMMA ConsoleInvariance == ConsoleSpec => []ConsoleInv
<1>1. ConsoleInv /\ [ConsoleNext]_consoleVars => ConsoleInv'
  BY ConsoleSteps DEF Keeps
<1> QED BY <1>1, ConsoleStarts, PTL DEF ConsoleSpec

\* The selection is always a row of the schedule, the schedule and the queue
\* stay within their bounds, and every flag is one.
THEOREM ConsoleTypeCorrect == ConsoleSpec => []ConsoleTypeOK
<1>1. ConsoleInv => ConsoleTypeOK
  BY DEF ConsoleInv
<1> QED BY <1>1, ConsoleInvariance, PTL

\* A stick that was let go, in whichever way, leaves a robot that was told to
\* stop once the commands that wait are published: the stop is the last of them.
THEOREM StickLetGoStops == ConsoleSpec => []ReleasedStickStops
<1>1. ConsoleInv => ReleasedStickStops
  BY DEF ConsoleInv, StopIsLast, ReleasedStickStops, Velocities
<1> QED BY <1>1, ConsoleInvariance, PTL

\* A locked schedule takes no waypoint, whatever was held down when the lock
\* came.
THEOREM LockHolds == ConsoleSpec => LockedScheduleDoesNotGrow
<1>1. ConsoleInv /\ [ConsoleNext]_consoleVars =>
        [locked => Len(waypoints') <= Len(waypoints)]_consoleVars
  BY ConsoleSteps DEF Keeps
<1> QED BY <1>1, ConsoleInvariance, PTL DEF ConsoleSpec, LockedScheduleDoesNotGrow

-----------------------------------------------------------------------------
(* How far editing is from coming back: the safety half of                 *)
(* EditingComesBack.                                                       *)

\* The controller has stopped, and no status of the drive waits behind the
\* first k signals.
Calm(k) ==
    /\ ~driving
    /\ \A i \in DOMAIN signals : signals[i] = "running" => i <= k

\* What is sent while the controller stands does not say that it drives.
LEMMA SentWhileCalm ==
    ASSUME SignalsOK, NEW k \in Nat, Calm(k), NEW signal \in Signals \ {"running"},
           Emit(signal), UNCHANGED driving
    PROVE  Calm(k)'
<1>1. signals \in Seq(Signals) /\ signals' = Append(signals, signal) /\ Len(signals) \in Nat
  BY DEF SignalsOK, Emit
<1>2. \A i \in DOMAIN signals' : \/ i \in DOMAIN signals /\ signals'[i] = signals[i]
                                 \/ signals'[i] = signal
  BY <1>1
<1> QED BY <1>2 DEF Calm

\* A signal that is served brings the later ones one place forward.
LEMMA ServedWhileCalm ==
    ASSUME SignalsOK, NEW k \in Nat, NEW l \in Nat, l <= k + 1, k <= l,
           Calm(l), ProcessSignal
    PROVE  Calm(k)' /\ (l = 0 /\ Head(signals) \notin Velocities => ~locked')
<1>1. signals \in Seq(Signals) /\ signals # <<>> /\ signals' = Tail(signals)
      /\ Len(signals) \in Nat \ {0} /\ ~driving' /\ ~driving
  BY DEF SignalsOK, ProcessSignal, navigator, Calm
<1>2. Len(signals') = Len(signals) - 1
      /\ \A i \in 1 .. Len(signals') : i + 1 \in 1 .. Len(signals) /\ signals'[i] = signals[i + 1]
  BY <1>1
<1>3. \A i \in 1 .. Len(signals) : signals[i] = "running" => i <= l
  BY <1>1 DEF Calm
<1>4. signals' \in Seq(Signals)
  BY <1>1
<1>5. \A i \in DOMAIN signals' : signals'[i] = "running" => i <= k
  <2> SUFFICES ASSUME NEW i \in 1 .. Len(signals'), signals'[i] = "running" PROVE i <= k
    BY <1>4
  <2>1. i + 1 <= l
    BY <1>2, <1>3
  <2>2. i \in Int
    OBVIOUS
  <2> QED BY <2>1, <2>2
<1>6. ASSUME l = 0, Head(signals) \notin Velocities PROVE ~locked'
  <2>1. Head(signals) = signals[1] /\ 1 \in 1 .. Len(signals)
    BY <1>1
  <2>2. Head(signals) # "running"
    BY <1>3, <1>6, <2>1
  <2> QED BY <1>6, <2>2 DEF ProcessSignal, UpdateMotionStatus, UpdateRuntimeSummary,
              NavigationCompleted, SetLocked
<1> QED BY <1>1, <1>5, <1>6 DEF Calm

\* What brings editing back when the route is over.
Returns ==
    ~running =>
        /\ driving' => driving
        /\ ControllerFollows => ~driving'
        /\ \A k \in Nat : Calm(k) => Calm(k)'
        /\ \A k \in Nat : Calm(k + 1) /\ ProcessSignal => Calm(k)'
        /\ Calm(0) /\ ProcessSignal /\ Head(signals) \notin Velocities => ~locked'
        /\ Calm(0) /\ ~locked => ~locked'

\* Every step is of that kind.
LEMMA ConsoleReturns == ConsoleInv /\ [ConsoleNext]_consoleVars => [Returns]_consoleVars
<1> SUFFICES ASSUME ConsoleInv, ConsoleNext, ~running
             PROVE  Returns
  BY DEF Returns
<1> USE DEF schedule, joystick, navigator
<1>0. SignalsOK
  BY ConsoleTypeParts DEF ConsoleInv
<1>1. ControllerFollows => ~driving'
  BY DEF ControllerFollows
<1>2. CASE ProcessSignal
  <2>1. driving' = driving
    BY <1>2 DEF ProcessSignal
  <2>2. \A k \in Nat : k <= k + 1 /\ k <= k /\ k + 1 \in Nat
    OBVIOUS
  <2>3. \A k \in Nat : Calm(k) => Calm(k)'
    BY <1>0, <1>2, <2>2, ServedWhileCalm
  <2>4. \A k \in Nat : Calm(k + 1) => Calm(k)'
    BY <1>0, <1>2, <2>2, ServedWhileCalm
  <2>5. Calm(0) /\ Head(signals) \notin Velocities => ~locked'
    BY <1>0, <1>2, ServedWhileCalm
  <2>6. Calm(0) /\ ~locked => ~locked'
    BY <1>2, <2>5 DEF ProcessSignal
  <2> QED BY <1>1, <2>1, <2>3, <2>4, <2>5, <2>6 DEF Returns
<1>3. CASE ~ProcessSignal
  <2>1. CASE /\ \E signal \in Signals : Emit(signal) /\ (signal = "running" => driving)
             /\ UNCHANGED <<driving, locked>>
    <3>1. \A k \in Nat : Calm(k) => Calm(k)'
      BY <1>0, <2>1, SentWhileCalm DEF Calm
    <3> QED BY <1>1, <1>3, <2>1, <3>1 DEF Returns
  <2>2. CASE /\ signals' \in {signals, <<>>}
             /\ driving' => driving
             /\ locked' => locked
    <3>1. DOMAIN <<>> = {}
      OBVIOUS
    <3>2. \A k \in Nat : Calm(k) => Calm(k)'
      BY <2>2, <3>1 DEF Calm
    <3> QED BY <1>1, <1>3, <2>2, <3>2 DEF Returns
  <2>3. CASE HearMotionStatus \/ HearRuntimeSummary
    <3>1. "running" \in Signals /\ "not_running" \in Signals /\ "summary_idle" \in Signals
      BY DEF Signals
    <3> QED BY <2>1, <2>3, <3>1 DEF HearMotionStatus, HearRuntimeSummary
  <2>4. CASE CancelArrives \/ \E outcome \in {"succeeded", "failed"} : GoalResult(outcome)
    <3>1. CancelArrives
      BY <2>4, Zenon DEF GoalResult
    <3>2. UNCHANGED <<signals, driving, locked>>
      BY <3>1, Zenon DEF CancelArrives
    <3> QED BY <2>2, <3>2
  <2>5. CASE ControllerFollows
    BY <1>1, <2>2, <2>5 DEF ControllerFollows
  <2>6. CASE Editing
    BY <2>2, <2>6 DEF Editing, PressScene, SelectWaypoint, MoveSelectedWaypoint, ReleaseScene,
       AddAimAsWaypoint, RemoveSelectedWaypoint, ClearSchedule
  <2>7. CASE ToggleAdding \/ SendGoal \/ CancelNavigation \/ GoalResponse
    BY <2>2, <2>7 DEF ToggleAdding, SendGoal, CancelNavigation, GoalResponse, SetLocked
  <2>8. CASE \/ \E off \in BOOLEAN : PressStick(off) \/ PublishCurrentCommand(off)
             \/ ReleaseStick
             \/ \E ai \in BOOLEAN : SetControlMode(ai)
             \/ AnimationFinished \/ Close
    <3>1. UNCHANGED <<driving, locked>>
      BY <2>8 DEF PressStick, PublishCurrentCommand, ReleaseStick, SetControlMode,
         AnimationFinished, Close
    <3>2. signals' \in {signals, <<>>} \/ Emit("move") \/ Emit("halt")
      BY <2>8 DEF PressStick, PublishCurrentCommand, ReleaseStick, SetControlMode,
         AnimationFinished, Close, ResetControl, RequestCommand
    <3>3. "move" \in Signals /\ "halt" \in Signals
      BY DEF Signals, Velocities
    <3> QED BY <2>1, <2>2, <3>1, <3>2, <3>3
  <2> QED BY <1>3, <2>3, <2>4, <2>5, <2>6, <2>7, <2>8 DEF ConsoleNext, Editing
<1> QED BY <1>2, <1>3

\* When the route is over, editing is at most a queue of signals and one more
\* away: nothing starts the controller, it stops as soon as it follows, no
\* status of the drive is then sent, each signal that is served brings the last
\* of them nearer, the first after them that is no velocity unlocks, and nothing
\* locks again.
THEOREM EditingIsNear ==
    ConsoleSpec => /\ [](~driving => Calm(MaxQueue))
                   /\ [][Returns]_consoleVars
<1>1. ConsoleInv => (~driving => Calm(MaxQueue))
  <2> SUFFICES ASSUME ConsoleInv, ~driving PROVE Calm(MaxQueue)
    OBVIOUS
  <2>1. signals \in Seq(Signals) /\ Len(signals) <= MaxQueue /\ MaxQueue \in Nat
    BY ConsoleAssumption, ConsoleTypeParts DEF ConsoleInv, SignalsOK, ConsoleAssumption
  <2> QED BY <2>1 DEF Calm
<1> QED BY <1>1, ConsoleReturns, ConsoleInvariance, PTL DEF ConsoleSpec
===============================================================================
