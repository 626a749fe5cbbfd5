SPECIFICATION Spec
CONSTANTS
    r1 = r1
    r2 = r2
    h1 = h1
    h2 = h2
    c1 = c1
    c2 = c2
    c3 = c3
    s1 = s1
    s2 = s2
    NULL = NULL
    Roots = {r1, r2}
    Hosts = {h1, h2}
    Contracts = {c1, c2, c3}
    Slabs = {s1, s2}
    SlabRoots <- MCSlabRoots
    MinShards <- MCMinShards
    HostOf <- MCHostOf
    ProofHeight <- MCProofHeight
    ExpirationHeight <- MCExpirationHeight
    PruneBuffer = 0
    MaxChecks = 1
    BatchSize = 1
    MaxHeight = 1
    MaxFailed = 1
    MaxLost = 1
INVARIANTS
    PinnedOnContractsHost
    StatsExact
    SectorsOfSlabs
PROPERTIES
    LostChargedOnce
    MovedSectorStartsOver
