CONSTANTS
    o1 = o1
    o2 = o2
    Orders = {o1}
    None = None
    FillSizes <- TwoBought
    MaxShares = 2
    MaxNet = 2
    MaxFills = 1
    Threshold = 1
    Sessions = {"Regular", "Extended", "Closed"}
    RetryHedges = FALSE
    MayCancel = TRUE
    MayLackPrice = TRUE
    MaxFaults = 2
SPECIFICATION FairSpec
INVARIANTS
    VerdictIsTheBrokers TypeOK
PROPERTY
    ClaimReleased
