SPECIFICATION FairSpec
CONSTANTS
    Kinds = {"json", "sse", "other"}
    RequestChunks = 2
    ResponseChunks = 3
    RequestCapacity = 1
    ResponseCapacity = 1
INVARIANTS
    CompleteUnlessOutrun
    FaithfulRecords
PROPERTIES
    PermitComesBack
