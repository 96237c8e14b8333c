SPECIFICATION FairSpec
CONSTANTS
    Calls = {n1, n2}
    Processes = {p1, p2}
    Handlers = {h1, h2}
    Tokens = {t1}
    None = None
    MaxAttempts = 2
    MaxStalled = 1
    MaxFaults = 2
INVARIANTS
    AnnouncedOnce
    StatusTellsPush
PROPERTY PendingResolved
CHECK_DEADLOCK FALSE
