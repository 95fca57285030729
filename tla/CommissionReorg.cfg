SPECIFICATION Spec
CONSTANTS
  Txs <- MCTxs
  Senders = {"sender"}
  Legacy <- MCLegacy
  Families <- MCCommissionFamilies
  Activation = 1
  Batch = 2
  Faults = {"reorg"}
  MaxFaults = 1
CHECK_DEADLOCK FALSE
INVARIANTS
  TablesReplayed
