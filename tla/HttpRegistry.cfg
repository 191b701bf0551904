SPECIFICATION FairSpec
CONSTANTS
    Exchanges = {e1, e2, e3}
    Groups = {"g"}
    MaxRecordings = 2
    MaxCaptures = 2
    None = None
INVARIANTS
    LeaseKeepsOpen
    LossIsPublished
    ExitIsAccounted
PROPERTIES
    ShutdownTerminates
