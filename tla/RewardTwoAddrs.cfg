SPECIFICATION Spec

CONSTANTS
    EpsInv = 1000
    Cfg <- MCCfg
    MCWindow = 1
    MCStart = 1
    MCAddrUsers <- MCSameUser
    UserOf <- MCUserOf
    Contents <- MCContents
    Indexer = "i1"
    Ratio = 5000
    Lag = 2
    Batch = 2
    FinalDepth = 1
    MaxHeight = 5
    Faults = {}
    MaxFaults = 0

INVARIANT MemoryIsSnapshot

CHECK_DEADLOCK FALSE
