SPECIFICATION Spec
CONSTANTS
    a1 = a1
    a2 = a2
    o1 = o1
    t1 = t1
    t2 = t2
    Slabs = {1, 2}
    Accounts = {a1}
    Objects = {o1}
    ObjectSlabs <- TwoSlabObject
    Txns = {t1, t2}
    PinOrders <- Backwards
    PruneLimit = 1
    QueueLimit = 2
    MaxQueued = 1
    AccountMax = 2
    KeyMax = 2
SYMMETRY Symmetry
INVARIANTS
    DeadlocksNeedLateRows
CHECK_DEADLOCK FALSE
