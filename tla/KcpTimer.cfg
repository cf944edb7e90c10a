SPECIFICATION FairSpec
CONSTANTS
    Modulus = 28
    Slack = 2
    SynInterval = 1
    Interval = 2
    Rtos = {3}
    DeadLink = 3
    ConnectTimeout = 4
    ShutdownTimeout = 4
    SessionExpire = 5
    MaxBlock = 3
INVARIANTS TimerInv RetransmitsInTime
PROPERTIES NothingEarly OrphanEnds
