SPECIFICATION CostmapFairSpec
CONSTANTS
    Size = 5
    Maps <- MCMaps
    Places <- MCPlaces
    Obstacles <- MCObstacles
    GlobalRadius = 1
    DynamicRadius = 1
    StaticClearance = 1
    WindowRadius = 3
    WindowEnabled = TRUE
    MaxRange = 3
    GlobalOnScan = FALSE
    MaxUpdates = 3
INVARIANTS
    ShownMapIsCurrent
    ClearHolds
PROPERTIES
    ObstacleIsShown
