CONSTANTS
    m1 = m1
    r1 = r1
    none = none
    Mints = {m1}
    Redemptions = {r1}
    None = none
    RecoveryEnabled = FALSE
    MaxFaults = 1
    MaxCrashes = 1
    MaxAttempts = 2
    MaxTxs = 6
    SweepTimesOut = FALSE
    MaxOperations = 1
SPECIFICATION Spec
INVARIANT
    DepositsBacked
CHECK_DEADLOCK FALSE
