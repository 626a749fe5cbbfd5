SPECIFICATION Spec
CONSTANTS
    r1 = r1
    r2 = r2
    c1 = c1
    c2 = c2
    NULL = NULL
    Workers = {"maintenance", "renewal"}
    Roots = {r1}
    Contracts = {c1, c2}
    Initial = {c1}
    BatchSize = 1
    MaxLen = 1
    MaxRev = 3
INVARIANTS
    PinnedIsStored
    HealthyContractsStayGood
