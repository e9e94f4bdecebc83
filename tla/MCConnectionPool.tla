-------------------------- MODULE MCConnectionPool --------------------------
EXTENDS ConnectionPool

CONSTANTS r1, r2, r3, v1, v2, w1, w2

\* One unit of each variant, and carts that compete for one or for both.
MCStock == [v \in Variants |-> 1]
MCCarts == [Variants -> 0..1] \ {[v \in Variants |-> 0]}

\* One request with a pool to itself and two that share a connection: the one
\* that waits for it may wait behind a row lock of the other process.
MCWorkerOf == [r \in Requests |-> IF r = r1 THEN w1 ELSE w2]
=============================================================================
