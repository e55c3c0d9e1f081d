SPECIFICATION FairSpec
CONSTANTS
    SelectedFrames = 3
    Concurrency = 2
    BatchSize = 2
INVARIANTS
    DeliveredOnce
    TerminalAgrees
PROPERTIES
    Settles
\* The job has ended.
CHECK_DEADLOCK FALSE
