SPECIFICATION FairSpec
CONSTANTS
    IBeacons = {b1}
    MaxPackets = 4
    Packets <- MCPackets
INVARIANTS
    TypeOK
    DownMeansRetry
    PacketsInOrder
PROPERTIES
    NoPacketStuck
CHECK_DEADLOCK FALSE
