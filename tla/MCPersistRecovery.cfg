CONSTANTS
  p1 = p1
  p2 = p2
  a = a
  b = b
  m = m
  k = k
  None = None
  Absent = Absent
  Torn = Torn
  Proc <- TwoProc
  Op <- Nothing
  Memory <- Nothing
  Token <- OneToken
  Pauses = TRUE
  LockFails = TRUE
  DiskFails = TRUE
  LosesPower = TRUE
  MaxFaults = 2
SPECIFICATION FairSpec
PROPERTIES
  OrphanRemoved
