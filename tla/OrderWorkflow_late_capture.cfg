SPECIFICATION Spec
CONSTANTS
    Riders = {r1}
    NoRider = NoRider
    Workers = {w1}
    Schedulers = {s1}
    MaxAttempts = 2
    MaxCrashes = 0
    MaxRefundFailures = 0
INVARIANT CancellationKeepsNoMoney
CHECK_DEADLOCK FALSE
