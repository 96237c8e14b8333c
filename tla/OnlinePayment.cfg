SPECIFICATION FairSpec
CONSTANTS
    GroupSize = 2
    Contexts = {c1, c2}
    MaxAttempts = 2
    MaxCreates = 2
    MaxChecks = 1
    MaxCrashes = 1
INVARIANTS
    CaptureCreditedOnce
    
    
PROPERTY CaptureReachesOrders
CHECK_DEADLOCK FALSE
