CONSTANTS
  t1 = t1
  t2 = t2
  o1 = o1
  o2 = o2
  None = None
  Tx <- OneTx
  Obj <- TwoObj
  Amount <- TwoCents
  Fee <- FreeOrOneCent
  MaxTransactions = 2
  MaxWallet = 2
  TxHistoryBuffer = 3
  RequireCounterparty = TRUE
  Outcome <- BothOutcomes
  RailSoftFails = TRUE
  Overlap = TRUE
  Reconciles = TRUE
  MaxSettlements = 2
  MaxDisputes = 1
SPECIFICATION FairSpec
INVARIANTS
  FeeAtMostOnce
PROPERTIES
  NeverPayableAgain
  CallsEnd
\* All transactions may end and nobody charge again.
CHECK_DEADLOCK FALSE
