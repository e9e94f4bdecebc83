SPECIFICATION FairSpec
CONSTANTS
    r1 = r1
    r2 = r2
    v1 = v1
    v2 = v2
    NoRequest = NoRequest
    NoVariant = NoVariant
    Requests = {r1, r2}
    Variants = {v1, v2}
    InitialStock <- MCStock
    Carts <- MCCarts
INVARIANTS
    TypeOK
    StockNotNegative
    NoUnitVanishes
PROPERTIES
    WritesUnderLock
    KeepsLooseLedger
    ExactUnlessShared
    EveryCheckoutEnds
