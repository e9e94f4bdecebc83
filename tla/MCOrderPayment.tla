--------------------------- MODULE MCOrderPayment ---------------------------
EXTENDS OrderPayment

CONSTANTS w1, w2, a1, a2, x1, x2
=============================================================================
