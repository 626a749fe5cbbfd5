SPECIFICATION EventsSpec
CONSTANTS
    ObjKeys = {1, 2}
    Writers = {w1, w2}
    PageLimit = 1
    MaxDelay = 1
    MaxClock = 3
    MaxTx = 3
INVARIANTS
    NothingPassed
CHECK_DEADLOCK FALSE
