SPECIFICATION FairSpec
CONSTANTS
    MaxPosts = 2
    MaxPending = 2
    SerialMod = 16
    MaxRead = 6
    Batches <- SingleBatches
    Results = {"ok", "rejected"}
    FragmentsTo = {}
    OutOfMemory = FALSE
    Crashes = FALSE
PROPERTIES
    FirstErrorMakesItBack
CHECK_DEADLOCK FALSE
