CONSTANTS
    t1 = t1
    t2 = t2
    Transfers = {t1, t2}
    Directions <- Both
    MaxFaults = 2
    MaxCrashes = 1
    MaxAttempts = 2
    MaxRedrives = 1
    MaxTxs = 10
    SweepTimesOut = FALSE
    DeadlinePasses = FALSE
    Relayed = FALSE
    OperatorActs = FALSE
    ManualStarts = FALSE
SPECIFICATION Spec
SYMMETRY TransferSymmetry
INVARIANTS
    TypeOK
    LegsAreOwn
    SettledFundsArrived
CHECK_DEADLOCK FALSE
