CONSTANTS
  p1 = p1
  p2 = p2
  a = a
  b = b
  m = m
  k = k
  None = None
  Absent = Absent
  Torn = Torn
  Proc <- TwoProc
  Op <- TwoOps
  Memory <- OneMemory
  Token <- Nothing
  Pauses = FALSE
  LockFails = TRUE
  DiskFails = TRUE
  LosesPower = FALSE
  MaxFaults = 1
SPECIFICATION Spec
INVARIANTS
  VersionNamesState
PROPERTIES
  MemoriesKept
  CommittedMoneyStays
  MainStaysWhole
SYMMETRY Symmetric
