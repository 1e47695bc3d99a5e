SPECIFICATION Spec
CONSTANTS
    MaxPosts = 3
    MaxPending = 1
    SerialMod = 16
    MaxRead = 3
    Batches <- MixedBatches
    Results = {"ok", "rebooting", "rejected", "unsaved"}
    FragmentsTo = {"child"}
    OutOfMemory = TRUE
    Crashes = TRUE
INVARIANTS
    TypeOK
    ReplyOnce
    PendingBounded
    UnansweredHasCause
    FramingLostOnlyByAbort
    ResetReqIsTrue
PROPERTIES
    ImplementsService
CHECK_DEADLOCK FALSE
