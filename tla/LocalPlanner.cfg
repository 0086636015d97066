SPECIFICATION FairSpec
CONSTANTS
    MaxCommandId = 2
    RecoveryConfirm = 3
    ProximityConfirm = 2
    CorridorConfirm = 5
    ClearConfirm = 2
    MaxDeactivations = 1
    AllowCleanup = TRUE
CHECK_DEADLOCK FALSE
INVARIANTS
    RecoveryBelongsToCommand
    ClearForgets
    RecoveryKeepsPlan
PROPERTIES
    BlockageIsReported
