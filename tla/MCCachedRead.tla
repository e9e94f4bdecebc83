---------------------------- MODULE MCCachedRead ----------------------------
EXTENDS CachedRead

CONSTANTS r1, r2, w1, w2, k1, k2
=============================================================================
