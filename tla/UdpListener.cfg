SPECIFICATION FairSpec
CONSTANTS
    Conv = {1}
    Sid = {s1, s2}
    Backlog = 1
    Repeat = 3
    SndWnd = 1
    Outlasted = TRUE
    Holders = {1}
    Traffic = {1}
    MaxStreams = 2
    MaxPkt = 1
INVARIANTS ListenerInv MessagesMatch DroppedIsOver ClosedIsOver
PROPERTIES GetsUnblocked CloseReturns
CHECK_DEADLOCK FALSE
