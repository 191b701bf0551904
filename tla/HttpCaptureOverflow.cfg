SPECIFICATION Spec
CONSTANTS
    Kinds = {"sse"}
    RequestChunks = 1
    ResponseChunks = 3
    RequestCapacity = 1
    ResponseCapacity = 1
INVARIANTS
    AcceptedIsComplete
