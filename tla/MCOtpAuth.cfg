SPECIFICATION Spec
CONSTANTS
    c1 = c1
    c2 = c2
    u1 = u1
    u2 = u2
    p1 = p1
    p2 = p2
    x1 = x1
    x2 = x2
    Null = Null
    Calls = {c1, c2}
    Users = {u1, u2}
    Phones = {p1, p2}
    Codes = {x1}
    MaxSessions = 2
    Seeded = {}
    AdminsAdmitted = TRUE
SYMMETRY Alike
CONSTRAINT FewCodes
INVARIANTS
    TypeOK
    AccountsAreProven
    UsersHaveCodes
    SessionsHaveSource
    SingleUseUnlessShared
    UsesWithinCalls
PROPERTIES
    OldNumberCannotRegister
