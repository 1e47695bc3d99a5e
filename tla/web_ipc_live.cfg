SPECIFICATION FairSpec
CONSTANTS
    MaxPosts = 3
    MaxPending = 2
    SerialMod = 16
    MaxRead = 9
    Batches <- LiveBatches
    Results = {"ok", "rebooting"}
    FragmentsTo = {"parent"}
    OutOfMemory = FALSE
    Crashes = FALSE
INVARIANTS
    ParentHears
PROPERTIES
    EveryFormAnswered
CHECK_DEADLOCK FALSE
