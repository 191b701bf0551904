SPECIFICATION FairSpec
CONSTANTS
    NoId = NoId
    LongIds = {}
    MaxPending = 0
    c2s = c2s
    s2c = s2c
    Pumps = {c2s, s2c}
    DirectionOf <- MCDirectionOf
    Payloads <- LossyPayloads
    MaxFrames = 3
    ChannelCapacity = 2
    MaxBytes = 2
    BatchSize = 2
    ReorderMax = 2
    RedactorActive = TRUE
    CancelMidForward = FALSE
    StoreFaults = {"batch", "dropped", "close"}
    CrashPossible = TRUE
INVARIANTS
    CleanExitIsComplete
PROPERTIES
    FinishTerminates
