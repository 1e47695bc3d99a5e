SPECIFICATION Spec
CONSTANTS
    Ids = {1, 2, 3}
    BeaconIndex <- MCBeaconIndex
    TableLength = 2
    Nodes = {n1, n2, n3}
    Null = Null
INVARIANTS
    RootHasNoPrev
CHECK_DEADLOCK FALSE
