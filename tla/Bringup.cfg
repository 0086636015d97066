SPECIFICATION FairSpec
CONSTANTS
    N = 3
    PoseEnabled = TRUE
    MaxPolls = 2
    MaxLives = 2
INVARIANTS
    StartedInOrder
PROPERTIES
    ShutdownEnds
CHECK_DEADLOCK FALSE
