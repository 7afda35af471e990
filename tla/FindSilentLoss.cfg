CONSTANTS
  p1 = p1
  p2 = p2
  a = a
  b = b
  m = m
  k = k
  None = None
  Absent = Absent
  Torn = Torn
  Proc <- TwoProc
  Op <- TwoOps
  Memory <- Nothing
  Token <- Nothing
  Pauses = FALSE
  LockFails = FALSE
  DiskFails = FALSE
  LosesPower = FALSE
  MaxFaults = 0
SPECIFICATION Spec
INVARIANTS
  LostUpdatesReported
