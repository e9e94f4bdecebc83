SPECIFICATION PoolFairSpec
CONSTANTS
    r1 = r1
    r2 = r2
    r3 = r3
    v1 = v1
    v2 = v2
    w1 = w1
    w2 = w2
    NoRequest = NoRequest
    NoVariant = NoVariant
    Requests = {r1, r2, r3}
    Variants = {v1, v2}
    InitialStock <- MCStock
    Carts <- MCCarts
    Workers = {w1, w2}
    WorkerOf <- MCWorkerOf
    PoolSize = 1
    MaxOrders = 2
INVARIANTS
    PoolTypeOK
    NoLockAwaitsPool
    OneOrderUnlessAnswerLost
PROPERTIES
    EveryRequestAnswered
