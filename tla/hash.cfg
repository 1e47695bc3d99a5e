SPECIFICATION Spec
CONSTANTS
    Ids = {1, 2, 3, 4}
    BeaconIndex <- MCBeaconIndex
    TableLength = 2
    Nodes = {n1, n2, n3, n4}
    Null = Null
SYMMETRY Symmetry
INVARIANTS
    TypeOK
    ChainsHoldLive
    OneNodePerBeacon
    BackLinks
    NeverOnFreed
    OnlyRootsAreStale
PROPERTIES
    WalkVisits
CHECK_DEADLOCK FALSE
