SPECIFICATION Spec
CONSTANTS
    Riders = {r1, r2}
    NoRider = NoRider
    Workers = {w1, w2}
    Schedulers = {s1}
    MaxAttempts = 2
    MaxCrashes = 1
    MaxRefundFailures = 1
SYMMETRY Symmetry
INVARIANTS
    StockReturnedOnce
    MoneyReturnedOnce
    PaidBeforeSeller
    RiderMatchesStatus
    WinnerIsTheRider
    TimeoutsHonourDeadlines
PROPERTIES
    ImplementsLifecycle
CHECK_DEADLOCK FALSE
