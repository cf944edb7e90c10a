SPECIFICATION Spec
CONSTANTS
    MaxFrames <- Frames30
    SndWnd = 1
    RcvWnd = 2
    InCap = 1
    OutCap = 1
    NoDelay = TRUE
    Abrupt = {}
    MaxAcks = 2
    MaxPushes = 2
    Lens = {1, 2}
INVARIANTS GracefulNoLoss
CHECK_DEADLOCK FALSE
