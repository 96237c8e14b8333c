SPECIFICATION FairSpec
CONSTANTS
    Riders = {r1}
    NoRider = NoRider
    Workers = {w1}
    Schedulers = {s1}
    MaxAttempts = 3
    MaxCrashes = 1
    MaxRefundFailures = 1
INVARIANTS
    GivenUpAfterAllAttempts
PROPERTIES
    OpenOrderResolved
    CancelledOrderRestocked
CHECK_DEADLOCK FALSE
