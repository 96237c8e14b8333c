SPECIFICATION Spec
CONSTANTS
    veg = veg
    seed = seed
    NoCoupon = NoCoupon
    Category <- MCCategory
    Radius = 5000
    Requests <- MCRequests
    RuleSets <- MCRuleSets
    SettingSets <- MCSettingSets
INVARIANTS
    MoneyAccountedFor
    HandlingChargedOnce
    SharesAddUp
    PayableNotNegative
