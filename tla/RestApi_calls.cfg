CONSTANTS
    Callers = {"answer", "list", "open"}
    NumTels = 1
    Server = {"revoke"}
    NumSlots = 2

SPECIFICATION Spec
INVARIANTS
    SingleFlight
    ExpiryIsCured
    CancelIsPrivate

CHECK_DEADLOCK FALSE
