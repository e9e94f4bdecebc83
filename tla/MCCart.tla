------------------------------- MODULE MCCart -------------------------------
EXTENDS Cart

CONSTANTS c1, c2, k1, k2, t1, v1, v2, v9

\* A guest with a session token and one without: no other pair reaches the
\* service, because nothing sets request.state.user_id on these routes.
MCOwners == {[user |-> Null, token |-> t1], [user |-> Null, token |-> Null]}

ASSUME GuestsAreApart == OwnersApart
=============================================================================
