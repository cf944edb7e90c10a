SPECIFICATION Spec
CONSTANTS
    MaxClients = 2
    Addr = {a}
    Server = {s1}
    Conv = {c1, c2}
    Outlasted = TRUE
INVARIANTS OwnFramesOnly
CHECK_DEADLOCK FALSE
