SPECIFICATION FairSpec
CONSTANT MaxStops = 2
INVARIANTS
    ZeroExitIsEarned
PROPERTIES
    FreshStopCutsReap
    StopTerminates
