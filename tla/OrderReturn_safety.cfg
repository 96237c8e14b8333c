SPECIFICATION Spec
CONSTANTS
    Riders = {r1}
    NoRider = NoRider
    Keep = Keep
    Workers = {w1, w2}
    Schedulers = {w1, w2}
    MaxAttempts = 1
    AutoRelease = FALSE
    MaxPickupOtps = 0
    MaxCrashes = 1
SYMMETRY ReturnSymmetry
INVARIANTS
    TypeOK
    SellerPaidOnce
    CustomerRefundedOnce
    SellerChargedOnce
PROPERTY ImplementsReturnMoney
CHECK_DEADLOCK FALSE
