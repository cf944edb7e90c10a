SPECIFICATION FairSpec
CONSTANTS
    MaxFrames <- Frames20
    SndWnd = 2
    RcvWnd = 2
    InCap = 1
    OutCap = 1
    NoDelay = FALSE
    Abrupt = {"key", "timeout", "deadlink", "drop"}
    MaxAcks = 2
    MaxPushes = 2
    Lens = {1, 2}
INVARIANTS StreamInv FinAfterAllStored NoStrandedFrame PacketsUnderstood
PROPERTIES UsesPipes EventuallyDelivered ClosingEnds
CHECK_DEADLOCK FALSE
