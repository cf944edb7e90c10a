SPECIFICATION Spec
CONSTANTS
    MaxClients = 1
    Addr = {a}
    Server = {s1}
    Conv = {c1, c2}
    Outlasted = TRUE
INVARIANTS ConnectedToOwn
CHECK_DEADLOCK FALSE
