SPECIFICATION ConsoleFairSpec
CONSTANTS
    Spots = {p1, p2}
    NoPose = NoPose
    MaxWaypoints = 2
    MaxQueue = 2
    MaxSent = 2
INVARIANTS
    ReleasedStickStops
PROPERTIES
    LockedScheduleDoesNotGrow
    EditingComesBack
CHECK_DEADLOCK FALSE
