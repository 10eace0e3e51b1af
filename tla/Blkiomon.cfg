CONSTANTS
    r1 = r1
    r2 = r2
    d1 = d1
    d2 = d2
    Requests = {r1, r2}
    Device <- MCDevice
    Traces = {1, 2, 3, 4}
    Dstats = {1, 2, 3, 4}
    MaxVacant = 1
    MaxTime = 3
    Usec = 2
    MaxTraces = 4
SPECIFICATION FairSpec
INVARIANTS MemoryOwned ReportTrue
PROPERTY GatheredIsPrinted
CHECK_DEADLOCK FALSE
