SPECIFICATION Spec
CONSTANTS
    MaxFrames <- Frames50
    SndWnd = 2
    RcvWnd = 2
    InCap = 1
    OutCap = 1
    NoDelay = TRUE
    Abrupt = {}
    MaxAcks = 2
    MaxPushes = 2
    Lens = {1, 2}
INVARIANTS OnlyFinDropped
CHECK_DEADLOCK FALSE
