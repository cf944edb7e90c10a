SPECIFICATION FairSpec
CONSTANTS
    Closed = {t1, t2}
    Callers = {c1, c2}
    Repeat = 2
PROPERTIES ShutdownReturns
CHECK_DEADLOCK FALSE
