SPECIFICATION FairSpec
CONSTANTS
    a1 = a1
    a2 = a2
    Addr = {a1}
    Txs = {"stake", "claim", "support"}
    TxOf <- MCTxOf
    IndexerOf <- MCIndexerOf
    UserOf <- MCUserOf
    TxidMode = TRUE
    Forks = {1, 2}
    MaxBlocks = 2
    MaxMoves = 3
    Faults = {"write", "rpc", "crash", "parse"}
    MaxFaults = 2
INVARIANTS
    SyncedTables
    NeverDeductedTwice
    ConfirmedEventsKept
PROPERTIES
    FollowsPool
