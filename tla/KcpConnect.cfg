SPECIFICATION Spec
CONSTANTS
    MaxClients = 2
    Addr = {a}
    Server = {s1, s2}
    Conv = {c1, c2}
    Outlasted = TRUE
INVARIANTS ConnectInv ConnectedAfterReply ClientFrames
CHECK_DEADLOCK FALSE
SYMMETRY PeerSymmetry
CONSTRAINT FewPackets
