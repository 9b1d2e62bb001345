CONSTANTS
    NumRings = 2
    Video = "on"
    CancelKeys = {"call_id", "uuid"}
    Races = {"teardown"}

SPECIFICATION FairSpec
INVARIANTS
    ManagerTracksDialog
    StreamServed
    DoorCodeMatchesCall
    BridgeUsesOfferedPort
    BridgeReaped
    StopIsFinal
    RingStaysAnswerable
PROPERTIES
    RingNotBlocked
    CallsKeepPromise
    BridgeKeepsPromise
    CallSettles
    StopReaps

CHECK_DEADLOCK FALSE
