SPECIFICATION FairSpec
CONSTANTS
    JobRequests = {j1}
    IndexRequests = {x1, x2}
    MediaRequests = {m1}
    None = None
INVARIANTS
    SettlementInv
PROPERTIES
    ShutdownIsLast
    CommandsComplete
\* The process exits, or waits for the next command.
CHECK_DEADLOCK FALSE
