---------------------------- MODULE MCKcpStream ----------------------------
\* KcpStream for TLC: how many frames each application writes.
EXTENDS KcpStream

Frames30 == [e \in End |-> IF e = "client" THEN 3 ELSE 0]

Frames50 == [e \in End |-> IF e = "client" THEN 5 ELSE 0]

Frames20 == [e \in End |-> IF e = "client" THEN 2 ELSE 0]
=============================================================================
