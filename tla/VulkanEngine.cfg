SPECIFICATION FairSpec
CONSTANTS
  i1 = i1  b1 = b1  b2 = b2
  Callers = {1, 2}
  SlotCounts = {1, 2}
  Images = {i1}
  Host = Host
  Batches = {b1, b2}
  Inputs <- MCInputs
  CachePlans = {TRUE, FALSE}
  MaxCalls = 3
  MaxFailures = 1
  MaxDecodes = 1
  None = None
INVARIANTS FramesSettled ResultFromBatch
PROPERTY CallsReturn
CHECK_DEADLOCK FALSE
