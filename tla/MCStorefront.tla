---------------------------- MODULE MCStorefront ----------------------------
EXTENDS Storefront

CONSTANTS c1, k1, k2, t1, v1, u1

\* README.md:61 checks out with a session token.
MCOwners == {[user |-> Null, token |-> t1], [user |-> Null, token |-> Null]}
=============================================================================
