CONSTANTS
  Route <- HoldAndRelease
  Amount <- OneCent
  Keep <- KeepOneOrThree
  MaxEntry = 6
SPECIFICATION Spec
INVARIANTS
  TypeOK
  NoBrokenLinks
  SeqIncreasing
  ReconcileConsistent
