SPECIFICATION FairSpec
CONSTANTS
    g1 = g1
    g2 = g2
    NoGoal = NoGoal
    Goals <- TwoGoals
    MaxIterations = 1
    LimitOf <- FirstStages
    MaxTransitions = 2
    AllowCleanup = TRUE
CHECK_DEADLOCK FALSE
INVARIANTS
    SuccessIsEarned
    DelegateIsKnown
    CanceledGoalWithdrew
    OutOfUseIsQuiet
PROPERTIES
    ContractSafety
    CancelEnds
    TransitionEnds
