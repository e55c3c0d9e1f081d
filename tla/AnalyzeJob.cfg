SPECIFICATION FairSpec
CONSTANTS
    ResultCounts = {2, 7}
    ChunkSize = 2
    WorkerCount = 3
    MaxWorkers = 2
    MaxCandidates = 7
    MaxCalls = 2
INVARIANTS
    PoolInv
    ProgressOrdered
    OutcomeFaithful
PROPERTIES
    Settles
\* The job has ended.
CHECK_DEADLOCK FALSE
