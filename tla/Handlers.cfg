SPECIFICATION Spec
CONSTANTS
  Txs <- MCTxs
  Senders = {"sender"}
  Legacy <- MCLegacy
  Families <- MCFamilies
  Activation = 1
  Batch = 2
  Faults = {"crash", "error", "kill", "lookup", "reorg", "stop"}
  MaxFaults = 2
CHECK_DEADLOCK FALSE
INVARIANTS
  TablesAreReplay
  CommissionIsReplay
  OneIndexerPerOwner
  StatusCountsRegisters
  RowsHaveIndexer
  ValidEventHasRow
