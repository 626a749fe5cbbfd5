SPECIFICATION Spec
CONSTANTS
    a1 = a1
    a2 = a2
    o1 = o1
    t1 = t1
    t2 = t2
    Slabs = {1}
    Accounts = {a1}
    Objects = {o1}
    ObjectSlabs <- OneSlabObject
    Txns = {t1, t2}
    PinOrders <- OneAtATime
    PruneLimit = 1
    QueueLimit = 1
    MaxQueued = 2
    AccountMax = 1
    KeyMax = 2
SYMMETRY Symmetry
INVARIANTS
    AllSlabsReclaimed
CHECK_DEADLOCK FALSE
