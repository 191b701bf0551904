SPECIFICATION Spec
CONSTANTS
    NoId = NoId
    LongIds = {}
    MaxPending = 1
    c2s = c2s
    s2c = s2c
    Pumps = {c2s, s2c}
    DirectionOf <- MCDirectionOf
    Payloads <- MixedPayloads
    MaxFrames = 3
    ChannelCapacity = 2
    MaxBytes = 4
    BatchSize = 2
    ReorderMax = 2
    RedactorActive = TRUE
    CancelMidForward = FALSE
    StoreFaults = {"batch", "close"}
    CrashPossible = TRUE
INVARIANTS
    BudgetExact
    HealthyIsComplete
    ContextAgreement
PROPERTIES
    InOrderUntilLoss
    ImplementsCaptureLog
