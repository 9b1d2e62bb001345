CONSTANTS
    NumRings = 2
    Video = "on"
    CancelKeys = {"call_id"}
    Races = {"connect"}

SPECIFICATION Spec
INVARIANT OneDialog

CHECK_DEADLOCK FALSE
