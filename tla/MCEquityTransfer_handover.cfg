CONSTANTS
    m1 = m1
    r1 = r1
    none = none
    Mints = {m1}
    Redemptions = {r1}
    None = none
    RecoveryEnabled = TRUE
    MaxFaults = 1
    MaxCrashes = 1
    MaxAttempts = 2
    MaxTxs = 5
    SweepTimesOut = FALSE
    MaxOperations = 0
SPECIFICATION Spec
CONSTRAINT TroubleBound
INVARIANTS
    TypeOK OneSpender
CHECK_DEADLOCK FALSE
