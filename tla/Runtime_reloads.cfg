CONSTANTS
    Clients = {k1, k2}
    NoClient = NoClient
    MaxBackoff = 3
    HealthyRun = 2
    StopSuspends = FALSE

SPECIFICATION FairSpec
INVARIANTS
    NoOrphan
    UnloadedIsQuiet
PROPERTIES
    Reconnects
