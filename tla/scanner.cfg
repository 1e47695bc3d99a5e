SPECIFICATION FairSpec
CONSTANTS
    Streams <- MCStreams
    Correction = 5
    CountMod = 3
    Cuts = {0, 1, 2, 5, 20}
    MaxFailures = 2
INVARIANTS
    TypeOK
    WakesInTime
    LostOnlyByLength
    HeardWasSaid
    EachCountedOnce
    PowerIsAMean
PROPERTIES
    ArrivedIsTaken
CHECK_DEADLOCK FALSE
