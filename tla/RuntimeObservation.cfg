SPECIFICATION ObserverSpec
CONSTANTS
    Goals = {g1}
    Plans <- MCPlans
    Decisions <- MCDecisions
    Fields <- MCFields
    MaxDistance = 2
    RouteDistances = {1}
    Epsilon = 0
    ClearDelta = 2
    GoalApproach = 1
    FinalAlignment = 0
    StallWindow = 1
INVARIANTS
    VerdictsAgree
    StallTakesAWindow
    EventsTellTheRest
CHECK_DEADLOCK FALSE
