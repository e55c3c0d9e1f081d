SPECIFICATION FairSpec
CONSTANTS
    Workers = {w1, w2}
    Producers = {p1, p2}
    Runner = Runner
    Canceller = Canceller
    MaxFrames = 3
    MayCancel = TRUE
INVARIANTS
    PipelineInv
    OutcomeFaithful
PROPERTIES
    Returns
    ImplementsContract
\* run() returns.
CHECK_DEADLOCK FALSE
