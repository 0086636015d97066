SPECIFICATION FairSpec
CONSTANTS
    burger1 = burger1
    burger2 = burger2
    r1 = r1
    r2 = r2
    NoRobot = NoRobot
    NoRequest = NoRequest
    first = first
    NoId = NoId
    Ids <- OneId
    IdOf <- FirstHasId
    FirstRobot = burger1
    Robots <- TwoRobots
    Requests <- TwoRequests
    MaxQueue = 1
    MaxSwitches = 1
CHECK_DEADLOCK FALSE
INVARIANTS
    TruthfulAnswers
    BridgeHoldsItsGoal
PROPERTIES
    BridgeIsFreed
