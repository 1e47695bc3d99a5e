SPECIFICATION FairSpec
CONSTANTS
    MaxPosts = 2
    MaxPending = 2
    SerialMod = 16
    MaxRead = 6
    Batches <- SingleBatches
    Results = {"ok"}
    FragmentsTo = {"child"}
    OutOfMemory = FALSE
    Crashes = FALSE
PROPERTIES
    EveryFormAnswered
CHECK_DEADLOCK FALSE
