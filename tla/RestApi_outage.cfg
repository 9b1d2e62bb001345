CONSTANTS
    Callers = {}
    NumTels = 3
    Server = {"revoke"}
    NumSlots = 2

SPECIFICATION Spec
INVARIANT ReauthMeansRevoked

CHECK_DEADLOCK FALSE
