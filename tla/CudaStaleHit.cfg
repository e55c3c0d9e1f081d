SPECIFICATION CudaSpec
CONSTANTS
  f1 = f1  f2 = f2  f3 = f3
  a1 = a1  a2 = a2  b1 = b1  b2 = b2  b3 = b3
  Callers = {1}
  SlotCounts = {1}
  Frames = {f1, f2, f3}
  Addresses = {a1, a2}
  Batches = {b1, b2, b3}
  Inputs <- MCInputs
  Horizontal = {b2, b3}
  Bytes <- MCBytes
  Probe <- MCProbe
  InputBudgets = {0}
  MaxCalls = 3
  MaxFailures = 1
  Device = Device
  Absent = Absent
  Garbage = Garbage
INVARIANT NoStaleHit
CHECK_DEADLOCK FALSE
