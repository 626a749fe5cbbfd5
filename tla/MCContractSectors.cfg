SPECIFICATION Spec
CONSTANTS
    r1 = r1
    r2 = r2
    c1 = c1
    c2 = c2
    NULL = NULL
    Workers = {"maintenance", "funding"}
    Roots = {r1, r2}
    Contracts = {c1}
    Initial = {c1}
    BatchSize = 1
    MaxLen = 2
    MaxRev = 4
SYMMETRY Symmetry
INVARIANTS
    PinnedIsStored
    SavedRevisionIsCurrent
PROPERTIES
    PruneKeepsStored
