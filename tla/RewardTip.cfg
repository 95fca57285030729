SPECIFICATION Spec

CONSTANTS
    EpsInv = 1000
    Cfg <- MCCfg
    MCWindow = 1
    MCStart = 1
    MCAddrUsers <- MCOneEach
    UserOf <- MCUserOf
    Contents <- MCContents
    Indexer = "i1"
    Ratio = 5000
    Lag = 1
    Batch = 2
    FinalDepth = 1
    MaxHeight = 5
    Faults = {"reorg"}
    MaxFaults = 1

INVARIANT AllocationIsReplay

CHECK_DEADLOCK FALSE
