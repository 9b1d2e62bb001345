CONSTANTS
    NumCalls = 2
    NumStops = 2
    Overlap = {}

SPECIFICATION FairSpec
INVARIANTS
    NothingLost
    ValidStartIntact
PROPERTIES
    ImplementsBridge
    UnwindsItsOwn
    TasksEnd

CHECK_DEADLOCK FALSE
