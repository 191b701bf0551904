SPECIFICATION Spec
CONSTANTS
    NoId = "noid"
    NoTool = "notool"
    LongIds = {}
    MaxPending = 2
    MaxSchemaDepth = 1
    MaxSchemaNodes = 3
    MaxExplanations = 4
    SensitiveKeys = {"token"}
    Suspicious <- MCSuspicious
    EmptyKey = "-"
    MaxFrameBytes = 3
    Sessions <- MCSessions
    RequestBodies <- MCRequestBodies
    ResponseBodies <- MCResponseBodies
    Schemas <- MCSchemas
    Keywords <- MCKeywords
    PropertySchemas <- MCPropertySchemas
    Instances <- MCInstances
    Hidden <- MCHidden
    PolicyChoices <- MCPolicyChoices
    Lines <- MCLines
    Mocked <- MCMocked
    Asked <- MCAsked
    MaxEdits = 3
    MaxLines = 3
    MaxCuts = 2
    MaxAsked = 3
INVARIANTS
    DiffAgreesWithTraces
    MaskingAddsNoDifference
    WideningClaimsAreSound
    MaskedIsClean
    ChunkingIsInvisible
    RepliesAreRecorded
CHECK_DEADLOCK FALSE
