SPECIFICATION FairSupplySpec
CONSTANTS
    k1 = k1
    k2 = k2
    k3 = k3
    Keys = {k1, k2, k3}
    Bytes <- MCBytes
    MaximumEntries = 2
    MaximumResidentBytes = 2
    Callers = {a, b}
    Jobs <- MCJobs
    ChunkSize = 2
    MaximumPacks = 1
    MaxJobs = 2
    MaxCrashes = 1
    MaxDisturbances = 1
    None = None
INVARIANTS
    CacheCorrect
    PlansMatchRequests
PROPERTIES
    PlanPhaseEnds
\* The executors wait for jobs.
CHECK_DEADLOCK FALSE
