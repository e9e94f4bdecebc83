----------------------------- MODULE MCOtpAuth -----------------------------
EXTENDS OtpAuth, TLC

CONSTANTS c1, c2, u1, u2, p1, p2, x1, x2

\* No action and no property names a call, a user, a number or a code.
Alike == Permutations(Calls) \cup Permutations(Users) \cup Permutations(Phones)
            \cup Permutations(Codes)

\* Bound on the codes that are stored.
FewCodes == Cardinality({otp \in Otps : otps[otp] # Null}) <= 2
=============================================================================
