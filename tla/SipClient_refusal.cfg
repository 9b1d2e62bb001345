CONSTANTS
    InitialCSeq = 1
    Media = "video"
    MaxRequests = 3
    MaxInFlight = 3

SPECIFICATION Spec
PROPERTY RefusalKeepsCall

CHECK_DEADLOCK FALSE
