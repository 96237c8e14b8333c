SPECIFICATION FairSpec
CONSTANTS
    Riders = {r1}
    NoRider = NoRider
    Keep = Keep
    Workers = {w1}
    Schedulers = {s1}
    MaxAttempts = 2
    AutoRelease = TRUE
    MaxPickupOtps = 1
    MaxCrashes = 0
PROPERTIES
    PickupSearchEnds
    HeldPayoutReleased
CHECK_DEADLOCK FALSE
