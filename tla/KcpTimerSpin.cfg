SPECIFICATION Spec
CONSTANTS
    Modulus = 28
    Slack = 4
    SynInterval = 3
    Interval = 3
    Rtos = {4}
    DeadLink = 3
    ConnectTimeout = 5
    ShutdownTimeout = 4
    SessionExpire = 6
    MaxBlock = 0
INVARIANT NoSpin
