SPECIFICATION Spec
CONSTANTS
    a1 = a1
    a2 = a2
    Addr = {a1, a2}
    Txs = {"stake", "stake2"}
    TxOf <- MCTxOf
    IndexerOf <- MCIndexerOf
    UserOf <- MCOneUser
    TxidMode = FALSE
    Forks = {1}
    MaxBlocks = 2
    MaxMoves = 4
    Faults = {}
    MaxFaults = 0
INVARIANTS
    PendingMeansAffected
