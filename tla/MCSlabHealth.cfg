SPECIFICATION HealthSpec
CONSTANTS
    h1 = h1
    h2 = h2
    h3 = h3
    Hosts = {h1, h2, h3}
    NoHost = NoHost
    N = 2
    MinShards = 1
    Placement <- Uploaded
    Near <- NoneNear
    Local = {l1}
    Remote = {r1}
    MinBackoff = 1
    MaxBackoff = 2
    WordBits = 8
    MaxFailures = 2
    MaxFaults = 2
    Roots = {q1, q2}
    CheckBatch = 2
    ClaimTime = 1
    FailedTime = 2
    SuccessTime = 2
    MaxFailedChecks = 2
    FundTarget = 2
    Costs = {2}
INVARIANTS
    OneSectorPerHost
    ShardsOnlyLostByHosts
PROPERTIES
    EventuallyRepaired
    EverySectorChecked
CHECK_DEADLOCK FALSE
