SPECIFICATION Spec
CONSTANTS
  Txs <- MCTxs
  Senders = {"sender"}
  Legacy <- MCLegacy
  Families <- MCAbandonedFamilies
  Activation = 1
  Batch = 2
  Faults = {"crash", "reorg"}
  MaxFaults = 2
CHECK_DEADLOCK FALSE
INVARIANTS
  RowsAreFromChain
