SPECIFICATION Spec
CONSTANTS
    single = single
    route = route
    NoGoal = NoGoal
    Goals <- TwoGoals
    KindOf <- KindOfGoal
    PoseCount <- PosesOfGoal
    PlanReports <- NoReports
    MaxRetries = 1
    MaxCommandId = 0
    StatusLag = 1
    MaxDeactivations = 1
    AllowCleanup = FALSE
    AllowExceptions = TRUE
INVARIANTS
    OneGoalThread
PROPERTIES
    ContractSafety
    EarlyCancelWins
