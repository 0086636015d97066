SPECIFICATION FairSpec
CONSTANTS
    Width = 3
    Height = 3
    EightConnected = TRUE
    PreventCornerCutting = TRUE
    StraightCost = 10
    DiagonalCost = 14
    TurnPenalty = 5
    HoldPenalty = 12
    AlignDistance = 1
    AlignPenalty = 17
    Radius = 1
    Straighten = TRUE
    Tolerance = 0
    SampleStep = 1
    Maps <- MCMaps
    Requests <- MCRequests
INVARIANTS
    PlanIsDrivable
    NoPathIsTrue
PROPERTIES
    RequestsAreAnswered
CHECK_DEADLOCK FALSE
