CONSTANTS
    t1 = t1
    t2 = t2
    Transfers = {t1}
    Directions <- Both
    MaxFaults = 1
    MaxCrashes = 1
    MaxAttempts = 2
    MaxRedrives = 1
    MaxTxs = 12
    SweepTimesOut = TRUE
    DeadlinePasses = TRUE
    Relayed = TRUE
    OperatorActs = TRUE
    ManualStarts = TRUE
SPECIFICATION FairSpec
INVARIANTS
    NoDoubleBurn
PROPERTIES
    EveryRowEnds
    BurnedFundsResolved
CHECK_DEADLOCK FALSE
