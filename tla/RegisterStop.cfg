SPECIFICATION Spec
CONSTANTS
  Txs <- MCTxs
  Senders = {"sender"}
  Legacy <- MCLegacy
  Families <- MCStopFamilies
  Activation = 1
  Batch = 2
  Faults = {"stop"}
  MaxFaults = 1
CHECK_DEADLOCK FALSE
INVARIANTS
  FirstRegisterIsValid
