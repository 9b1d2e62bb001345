CONSTANTS
    NumRings = 2
    Video = "on"
    CancelKeys = {"call_id"}
    Races = {"connect", "overlap", "teardown"}

SPECIFICATION Spec
INVARIANT DialledOnce

CHECK_DEADLOCK FALSE
