--------------------------- MODULE MCRequestGate ---------------------------
EXTENDS RequestGate

CONSTANTS s1, r1, r2, l1, l2, u1

MCUserOf == [s \in Logins |-> u1]
=============================================================================
