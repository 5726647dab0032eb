CONSTANTS
    o1 = o1
    o2 = o2
    Orders = {o1, o2}
    None = None
    FillSizes <- OneSide
    MaxShares = 1
    MaxNet = 2
    MaxFills = 2
    Threshold = 1
    Sessions = {"Regular"}
    RetryHedges = TRUE
    MayCancel = TRUE
    MayLackPrice = FALSE
    MaxFaults = 1
SPECIFICATION Spec
INVARIANTS
    NoDoubleHedge ExecutedIsTracked CreditedOnce
