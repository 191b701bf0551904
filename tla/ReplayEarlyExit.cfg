SPECIFICATION Spec
CONSTANTS
    NoId = NoId
    NoTool = NoTool
    LongIds = {}
    MaxPending = 8
    Sources <- MCSources
    Options <- MCOptions
    ServerIds = {"b"}
    PipeCapacity = 2
    MaxFrames = 3
INVARIANTS EarlyExitFails
CHECK_DEADLOCK FALSE
