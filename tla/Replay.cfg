SPECIFICATION Spec
CONSTANTS
    NoId = NoId
    NoTool = NoTool
    LongIds = {}
    MaxPending = 8
    Sources <- MCSources
    Options <- MCOptions
    ServerIds = {"b"}
    PipeCapacity = 2
    MaxFrames = 3
INVARIANTS SentOnceInOrder PacedByAnswers ReplayIsWhole
PROPERTY ReplayEnds
CHECK_DEADLOCK FALSE
