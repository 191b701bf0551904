CONSTANTS
    NoId = NoId
    NoTool = NoTool
    NoCall = NoCall
    NoProc = NoProc
    NoDocument = NoDocument
    LongIds = {}
    MaxPending = 4
    MaxMessages = 10
    Recorders = {r1}
    Clis = {c1, c2}
    Names = {n1}
    LatestVersion = 3
    FirstVersions = {1, 4}
    MaxCandidates = 2
    MaxCrashes = 1
    Options <- MCOptions
    Menus <- MCMenus
    Script <- MCScript
    Recorded <- MCRecorded
    Cassette <- MCCassette
SPECIFICATION IndexSpec
CONSTRAINT OpenedFirst
SYMMETRY Symmetry
INVARIANTS
    MigratedOnce
    OneApproved
    ApprovedIsComplete
    ClosedCopyIsWhole
    DeduplicationKeepsCalls
    IndexReflectsSessions
PROPERTIES
    BaselineLifecycle
CHECK_DEADLOCK FALSE
