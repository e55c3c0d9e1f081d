SPECIFICATION FairSpec
CONSTANTS
    Workers = {w1, w2}
    Exec = Exec
    Reader = Reader
    MaxFrames = 3
    BatchSize = 2
INVARIANTS
    TypeOK
    ReportedOnce
    TerminalAccounts
PROPERTIES
    EndedSettles
    ImplementsContract
\* The client may stop sending commands, and the job then waits or is over.
CHECK_DEADLOCK FALSE
