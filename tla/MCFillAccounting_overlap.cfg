SPECIFICATION Spec
CONSTANTS
    f1 = f1
    f2 = f2
    f3 = f3
    j1 = j1
    j2 = j2
    j3 = j3
    Fills = {f1, f2, f3}
    NoFill = NoFill
    Hedgeable = {f1, f2}
    LegacyFill = NoFill
    Jobs = {j1, j2, j3}
    NoJob = NoJob
    FillOf <- WithForeignEvent
    Bot = Bot
    Clis = {c1}
    Exclusive = FALSE
    Retries = 1
    MaxFaults = 2
    MaxCliRuns = 2
INVARIANTS TypeOK MarkedIsCounted
PROPERTIES RecountOnlyAfterSettle
CHECK_DEADLOCK FALSE
