SPECIFICATION Spec
CONSTANTS
    a1 = a1
    a2 = a2
    Addr = {a1}
    Txs = {"ratio"}
    TxOf <- MCTxOf
    IndexerOf <- MCIndexerOf
    UserOf <- MCUserOf
    TxidMode = FALSE
    Forks = {1, 2}
    MaxBlocks = 4
    MaxMoves = 5
    Faults = {}
    MaxFaults = 0
INVARIANTS
    EventsKept
