SPECIFICATION Spec
CONSTANTS
    a1 = a1
    a2 = a2
    Addr = {a1, a2}
    Txs = {"stake", "part", "pay", "stake2", "spend", "bad"}
    TxOf <- MCTxOf
    IndexerOf <- MCIndexerOf
    UserOf <- MCUserOf
    TxidMode = FALSE
    Forks = {1}
    MaxBlocks = 2
    MaxMoves = 5
    Faults = {}
    MaxFaults = 0
INVARIANTS
    PendingViewsAgree
    PendingForetellsCommit
    PendingMeansAffected
