SPECIFICATION Spec
CONSTANTS
    IBeacons = {b1}
    MaxPackets = 2
    Packets <- MCPackets
INVARIANTS
    NoFreedBev
CHECK_DEADLOCK FALSE
