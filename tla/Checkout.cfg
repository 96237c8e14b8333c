SPECIFICATION FairSpec
CONSTANTS
    Requests = {r1, r2}
    Keys = {k1}
    NoKey = NoKey
    Wants = {{}, {"cart", "wallet"}, {"coupon", "other"}}
    InitialStock = 1
    InitialFunds = 1
    Ledgers <- MCLedgers
    CouponLimit = 1
    Canonical = TRUE
    MaxAdds = 1
    MaxCredits = 1
    MaxCancels = 1
    MaxExpiries = 1
    MaxFaults = 1
INVARIANTS
    OneOrderPerKey
    NothingOverdrawn
PROPERTIES
    ImplementsAtomicCheckout
    KeyedRequestResolved
CHECK_DEADLOCK FALSE
