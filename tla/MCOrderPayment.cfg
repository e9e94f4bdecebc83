SPECIFICATION Spec
CONSTANTS
    w1 = w1
    w2 = w2
    a1 = a1
    a2 = a2
    x1 = x1
    x2 = x2
    None = None
    Webhooks = {w1, w2}
    Admins = {a1, a2}
    Delivered = {"pending", "succeeded", "failed", "refunded"}
    TrackingCodes = {x1, x2}
INVARIANTS
    TypeOK
    SucceededLeavesPending
    LastWordCounts
PROPERTIES
    OrderMovesForward
    DuplicatesHarmless
