CONSTANTS
    m1 = m1
    r1 = r1
    none = none
    Mints = {m1}
    Redemptions = {r1}
    None = none
    RecoveryEnabled = FALSE
    MaxFaults = 2
    MaxCrashes = 0
    MaxAttempts = 2
    MaxTxs = 7
    SweepTimesOut = TRUE
    MaxOperations = 0
SPECIFICATION FairSpec
CONSTRAINT SecondFaultBound
PROPERTY
    SlotReleased
CHECK_DEADLOCK FALSE
