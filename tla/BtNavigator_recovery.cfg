SPECIFICATION Spec
CONSTANTS
    single = single
    route = route
    NoGoal = NoGoal
    Goals <- OneRoute
    KindOf <- KindOfGoal
    PoseCount <- PosesOfGoal
    PlanReports <- AnyReport
    MaxRetries = 2
    MaxCommandId = 5
    StatusLag = 2
    MaxDeactivations = 0
    AllowCleanup = FALSE
    AllowExceptions = FALSE
INVARIANTS
    SuccessIsEarned
    TerminalGoalIsStopped
PROPERTIES
    NoDriveAfterConclusion
