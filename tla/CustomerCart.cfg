SPECIFICATION FairSpec
CONSTANTS
    Requests = {q1, q2}
    None = None
    MaxClicks = 3
    MaxFaults = 1
    MaxSessions = 2
INVARIANTS
    ShownIsTheServersCart
    GuestLosesOneChange
PROPERTY
    PendingReturnsToZero
CHECK_DEADLOCK FALSE
