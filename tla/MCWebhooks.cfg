CONSTANTS
  e1 = e1
  s1 = s1
  s2 = s2
  p1 = p1
  p2 = p2
  None = None
  Event <- OneEvent
  Sub <- TwoSubs
  Matches <- FirstToBoth
  Blocked <- SecondBlocked
  Pump <- TwoPumps
  BatchSize = 2
  MaxAttempts = 3
  MaxCrashes = 1
CHECK_DEADLOCK FALSE
SPECIFICATION FairSpec
INVARIANTS
  TypeOK
  AcceptedOnce
  DeadWasTried
PROPERTIES
  DeliveriesEnd
