CONSTANTS
  t1 = t1
  t2 = t2
  o1 = o1
  o2 = o2
  None = None
  Tx <- TwoTx
  Obj <- OneObj
  Amount <- TwoCents
  Fee <- FreeOrOneCent
  MaxTransactions = 2
  MaxWallet = 3
  TxHistoryBuffer = 1
  RequireCounterparty = FALSE
  Outcome <- BothOutcomes
  RailSoftFails = FALSE
  Overlap = FALSE
  Reconciles = FALSE
  MaxSettlements = 2
  MaxDisputes = 2
SPECIFICATION Spec
INVARIANTS
  TypeOK
  EscrowMatchesPending
  WalletBacked
PROPERTIES
  ImplementsContract
SYMMETRY Symmetric
\* All transactions may end and nobody charge again.
CHECK_DEADLOCK FALSE
