SPECIFICATION FairSpec
CONSTANTS
    Closed = {t1, t2, t3}
    Callers = {c1}
    Repeat = 2
INVARIANT PoolInv
PROPERTIES ReturnsDrained ShutdownReturns
CHECK_DEADLOCK FALSE
