SPECIFICATION Spec
CONSTANTS
    a1 = a1
    a2 = a2
    Addr = {a1}
    Txs = {"stake"}
    TxOf <- MCTxOf
    IndexerOf <- MCIndexerOf
    UserOf <- MCUserOf
    TxidMode = FALSE
    Forks = {1}
    MaxBlocks = 2
    MaxMoves = 4
    Faults = {}
    MaxFaults = 0
INVARIANTS
    StatusAppliesDeltas
