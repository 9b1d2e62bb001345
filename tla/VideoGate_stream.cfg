CONSTANTS
    Horizon = 14
    InTransit = 2
    MaxDelay = 1
    Resume = 4
    PliMax = 2
    PliWait = 2
    Periodic = 4
    Rate = 2
    Width = 32
    Bases = {0, 19}
    Network = {}

SPECIFICATION Spec
INVARIANTS
    FfmpegFed
    GateReopens
PROPERTIES
    DecodableFrames
    TimestampsAdvance
    DowngradeJustified

CHECK_DEADLOCK FALSE
