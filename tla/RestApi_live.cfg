CONSTANTS
    Callers = {"mobipass"}
    NumTels = 1
    Server = {"revoke", "move"}
    NumSlots = 2

SPECIFICATION FairSpec
INVARIANT ReauthMeansRevoked
PROPERTIES
    CallsEnd
    RevocationNoticed
    IssueSettles

CHECK_DEADLOCK FALSE
