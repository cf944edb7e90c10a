------------------------------ MODULE MCKcpArq ------------------------------
EXTENDS KcpArq

\* One segment at a time towards "a", two (that may overtake) towards "b".
Net12 == [e \in End |-> IF e = "a" THEN 1 ELSE 2]

\* Two towards "a" (acknowledgements that overtake), one towards "b".
Net21 == [e \in End |-> IF e = "a" THEN 2 ELSE 1]

\* One segment in flight in each direction.
Net11 == [e \in End |-> 1]
=============================================================================
