SPECIFICATION FairSpec
CONSTANTS
    single = single
    route = route
    NoGoal = NoGoal
    Goals <- OneSingle
    KindOf <- KindOfGoal
    PoseCount <- PosesOfGoal
    PlanReports <- EscapeOrReplan
    MaxRetries = 2
    MaxCommandId = 5
    StatusLag = 1
    MaxDeactivations = 0
    AllowCleanup = TRUE
    AllowExceptions = TRUE
CHECK_DEADLOCK FALSE
PROPERTIES
    CancelEnds
