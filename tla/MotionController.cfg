SPECIFICATION FairSpec
CONSTANTS
    MaxCommandId = 3
    Durations <- StopOrWait
    SettleTicks = 2
    BlockedConfirm = 3
    BlockedClear = 2
    StalledConfirm = 2
    AllowanceTicks = 4
    AlignTicks = 2
    HoldTicks = 1
    Lags <- OnTimeOrLate
    MaxDeactivations = 1
    AllowCleanup = TRUE
CHECK_DEADLOCK FALSE
INVARIANTS
    BlockedIsEarned
    StalledIsEarned
    GateStopsTracking
    CompletionIsFinal
PROPERTIES
    BoundedRecoveryEnds
