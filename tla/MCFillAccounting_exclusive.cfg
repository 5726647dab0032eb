SPECIFICATION FairSpec
CONSTANTS
    f1 = f1
    f2 = f2
    f3 = f3
    j1 = j1
    j2 = j2
    j3 = j3
    Fills = {f1, f2, f3}
    NoFill = NoFill
    Hedgeable = {f1, f2, f3}
    LegacyFill = f3
    Jobs = {j1, j2, j3}
    NoJob = NoJob
    FillOf <- TwoRowsOneFill
    Bot = Bot
    Clis = {c1}
    Exclusive = TRUE
    Retries = 1
    MaxFaults = 2
    MaxCliRuns = 1
INVARIANTS ExactlyOnce SetBoundedByJobs
PROPERTIES ImplementsLedger DeliveredIsAccounted
CHECK_DEADLOCK FALSE
