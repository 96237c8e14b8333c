SPECIFICATION Spec
CONSTANTS
    NumOrders = 2
    Riders = {r1, r2}
    Contexts = {c1, c2}
    Gross = 2
    Commission = 1
    Amounts = {2}
    MaxTries = 1
    MaxCodes = 1
    MaxRequests = 1
    MaxSettlements = 1
    MaxFaults = 1
SYMMETRY CashSymmetry
INVARIANTS
    TypeOK
    DeliveredOrderSettled
    CashInHandIsPending
CHECK_DEADLOCK FALSE
