SPECIFICATION Spec
CONSTANTS
    NoId = NoId
    NoTool = NoTool
    NoState = NoState
    LongIds = {}
    MaxPending = 8
    MaxRounds = 1
    Captures <- MCCaptures
    Replies <- MCReplies
    Events <- MCEvents
    MaxReceived = 4
INVARIANTS RetriesAreLive SubscriptionEvidence NothingAfterClose
PROPERTY HttpReplayEnds
CHECK_DEADLOCK FALSE
