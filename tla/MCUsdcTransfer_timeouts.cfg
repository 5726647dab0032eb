CONSTANTS
    t1 = t1
    t2 = t2
    Transfers = {t1, t2}
    Directions <- Both
    MaxFaults = 2
    MaxCrashes = 2
    MaxAttempts = 1
    MaxRedrives = 1
    MaxTxs = 10
    SweepTimesOut = TRUE
    DeadlinePasses = TRUE
    Relayed = FALSE
    OperatorActs = FALSE
    ManualStarts = FALSE
SPECIFICATION Spec
SYMMETRY TransferSymmetry
INVARIANTS
    UnsettledBurnBlocksTrigger
CHECK_DEADLOCK FALSE
