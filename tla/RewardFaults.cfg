SPECIFICATION FairSpec

CONSTANTS
    EpsInv = 1000
    Cfg <- MCCfg
    MCWindow = 1
    MCStart = 9
    MCAddrUsers <- MCOneEach
    UserOf <- MCUserOf
    Contents <- MCContents
    Indexer = "i1"
    Ratio = 5000
    Lag = 1
    Batch = 2
    FinalDepth = 2
    MaxHeight = 4
    Faults = {"reorg", "crash", "error", "partial", "lost"}
    MaxFaults = 2

INVARIANT ConsumersKeepDistance
PROPERTY EveryHeightOnce
PROPERTY ConsumersCatchUp

CHECK_DEADLOCK FALSE
