CONSTANTS
    Holding = 1
    MaxOrders = 3
    MaxFaults = 1
    MaxCrashes = 1
SPECIFICATION FairSpec
INVARIANTS
    TypeOK GateFollowsOrder MirrorExact
PROPERTIES
    GateReleased
