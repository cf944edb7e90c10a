SPECIFICATION Spec
CONSTANTS
    Conv = {0, 1, 2}
    Invalid = {0}
    Listener = {l1, l2}
    Timeout = 2
    MaxTime = 4
INVARIANT CacheInv
PROPERTIES NotDrawnEarly
