SPECIFICATION SeedingSpec
CONSTANTS
    c1 = c1
    c2 = c2
    n1 = n1
    p1 = p1
    p2 = p2
    Null = Null
    Calls = {c1, c2}
    Usernames = {n1, p1, p2}
    Phones = {p1, p2}
    Registered <- MCRegistered
    Updates <- MCUpdates
    MaxUsers = 2
    SuperAdmin = p1
    SampleProducts = 1
    OwnCategories <- MCOwnCategories
    OwnProducts = {1}
INVARIANTS
    SeedingTypeOK
    SeedIsWhole
    NobodyWaitsInRing
PROPERTIES
    UniqueIfInTurn
    ChangesAsAsked
