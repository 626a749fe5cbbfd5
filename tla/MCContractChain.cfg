SPECIFICATION Spec
CONSTANTS
    c1 = c1
    c2 = c2
    NULL = NULL
    Contracts = {c1, c2}
    Renewal <- Renews
    ProofHeight <- Proofs
    ExpirationHeight <- Expirations
    BroadcastBuffer = 0
    PruneBuffer = 1
    BatchSize = 2
    MaxHeight = 5
    MaxRev = 1
    MaxDepth = 2
    MaxReorgs = 2
    MaxFaults = 1
INVARIANTS
    RowsFollowChain
    PrunedWasTried
PROPERTIES
    CatchesUp
CHECK_DEADLOCK FALSE
