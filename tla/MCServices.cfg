SPECIFICATION ServicesSpec
CONSTANTS
    k1 = k1
    k2 = k2
    r1 = r1
    r2 = r2
    a1 = a1
    a2 = a2
    h1 = h1
    h2 = h2
    SlabHosts = {t1, t2, t3}
    Missing = {t3}
    Pool = {p1, p2}
    MinPieces = 2
    NumChunks = 2
    Concurrency = 2
    Shards = {s1, s2}
    MaxUploads = 2
    MaxDrops = 1
    Workers = {w1, w2}
    NumBatches = 2
    BatchSize = 2
    ResultCap = 2
    GroupSize = 2
    MaxShift = 1
    MaxPasses = 2
    Callers = {c1, c2, c3}
    Untracked = {}
    Addresses = {d1, d2}
    MaxDials = 2
    MaxConns = 4
    MaxCalls = 4
    ObjKeys = {1, 2}
    Writers = {x1, x2}
    PageLimit = 1
    MaxDelay = 1
    MaxClock = 3
    MaxTx = 3
    ConnectKeys = {k1, k2}
    Quotas = {"q"}
    AppKeySet = {a1, a2}
    AuthRequests = {r1, r2}
    AppOf <- Requester
    Clients = {y1, y2}
    UseLimits = {1}
    PreUses = 1
    MaxKeyChanges = 1
    Items = {i1, i2}
    Updaters = {u1, u2}
    FlushBatch = 2
    MaxIds = 6
    Pools = {g1, g2}
    FundContracts = {1, 2}
    FundQuotas = {1, 2}
    QuotaOf <- FirstQuota
    UploadTarget <- UploadTargets
    ReadTarget <- ReadTargets
    ServiceTarget = 1
    FundBatch = 2
    FundInterval = 1
    MaxBackoff = 1
    MaxFunds = 2
    MHosts = {h1, h2}
    Near <- NoneNear
    Period = 3
    RenewWindow = 2
    Wanted = 2
    PageSize = 1
    BroadcastBatch = 1
    MaxHeight = 1
    MaxContracts = 3
    MaxChanges = 1
    InitialUse <- InUse
    Roots = {q1, q2}
    CheckBatch = 2
    ClaimTime = 1
    FailedTime = 2
    SuccessTime = 2
    MaxFailedChecks = 2
    FundTarget = 2
    Costs = {1, 2}
INVARIANTS
    SlotsReturned
    TransferSound
    TransferNotStuck
    
    PassNotStuck
    ClientSound
    OnlyLatePassed
    RegistrationsApproved
    FundingSound
    LossIsObserved
PROPERTIES
    NoNeedlessContract
    ImplementsStatistic
CHECK_DEADLOCK FALSE
