SPECIFICATION Spec
CONSTANTS
  Txs <- MCTxs
  Senders = {"sender"}
  Legacy <- MCLegacy
  Families <- MCRegisterFamilies
  Activation = 1
  Batch = 2
  Faults = {"lookup"}
  MaxFaults = 1
CHECK_DEADLOCK FALSE
INVARIANTS
  FirstRegisterIsValid
