SPECIFICATION HostsLockerSpec
CONSTANTS
    h1 = h1
    h2 = h2
    HostKeys = {h1, h2}
    ScanThreads = 1
    ScanInterval = 1
    MaxScanBackoff = 1
    PruneFailures = 2
    MaxFailures = 2
    MaxManual = 1
    Hanging = {h2}
    NULL = NULL
    Procs = {p1, p2, p3}
    Contracts = {c1, c2}
    Objects = {o1, o2, o3}
PROPERTIES
    ImplementsMutex
    WaitersServed
    PrunedAfterFailures
    EveryHostScanned
CHECK_DEADLOCK FALSE
