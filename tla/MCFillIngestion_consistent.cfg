SPECIFICATION FairSpec
CONSTANTS
    f1 = f1
    f2 = f2
    f3 = f3
    orderbook = orderbook
    inventory = inventory
    Fills = {f1, f2, f3}
    BlockOf <- MCBlockOf
    Kinds = {orderbook, inventory}
    KindOf <- MCKindOf
    MaxBlock = 4
    DeploymentBlock = 1
    BatchSize = 2
    Nodes = {n1, n2}
    ConsistentReads = TRUE
    Rows = {r1, r2}
    NoRow = NoRow
    Retries = 1
    MaxFaults = 2
INVARIANTS TypeOK NothingSkipped OneRangeInFlight
PROPERTIES EveryFillIngested
