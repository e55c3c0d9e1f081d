SPECIFICATION FairSpec
CONSTANTS
    Jobs = {v}
    VerifyJobs = {v}
    CancelJobs = {v}
    MaxCrashes = 2
    Mount = mount
    Restarts = {c}
    Undecodable = TRUE
    None = None
INVARIANTS
    ClientConsistent
    EndIsTrue
PROPERTIES
    WaitsEnd
\* Every flow and job has come to its end.
CHECK_DEADLOCK FALSE
