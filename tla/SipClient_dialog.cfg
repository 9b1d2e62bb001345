CONSTANTS
    InitialCSeq = 1
    Media = "video"
    MaxRequests = 3
    MaxInFlight = 3

SPECIFICATION FairSpec
INVARIANTS
    CSeqIncreasing
    CancelNamesInvite
    ReinviteAnswered
PROPERTIES
    AnswerAcked
    ImplementsDialog

CHECK_DEADLOCK FALSE
