SPECIFICATION StoreSpec
CONSTANTS
    c1 = c1
    k1 = k1
    k2 = k2
    t1 = t1
    v1 = v1
    u1 = u1
    Null = Null
    NoCall = NoCall
    FirstUser = u1
    Calls = {c1}
    Owners <- MCOwners
    Variants = {v1}
    UnknownVariants = {}
    Quantities = {1}
    MaxInteger = 3
    CartIds = {k1, k2}
INVARIANTS
    OrderHoldsTheCart
