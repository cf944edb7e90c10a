SPECIFICATION FairSpec
CONSTANTS
    Conv = {1}
    Sid = {s1}
    Backlog = 1
    Repeat = 1
    SndWnd = 1
    Outlasted = TRUE
    Holders = {}
    Traffic = {}
    MaxStreams = 1
    MaxPkt = 0
PROPERTIES CloseReturns
CHECK_DEADLOCK FALSE
