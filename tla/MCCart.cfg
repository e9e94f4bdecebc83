SPECIFICATION Spec
CONSTANTS
    c1 = c1
    c2 = c2
    k1 = k1
    k2 = k2
    t1 = t1
    v1 = v1
    v2 = v2
    v9 = v9
    Null = Null
    NoCall = NoCall
    Calls = {c1, c2}
    Owners <- MCOwners
    Variants = {v1}
    UnknownVariants = {v9}
    Quantities = {1, 2}
    MaxInteger = 3
    CartIds = {k1, k2}
INVARIANTS
    TypeOK
    LinesWithinAcked
PROPERTIES
    ExactUnlessOverlapping
    WritesOwnLine
