SPECIFICATION FairSpec
CONSTANTS
    Start = 1
    End = 6
    Cap = 2
    MaxFaults = 2
    Faults = {"rpc", "short", "stop", "invalid", "redis"}
INVARIANT ReturnsWhatWasParsed
INVARIANT BoundedReadAhead
PROPERTY ImplementsSerialParse
PROPERTY Returns
PROPERTY LeavesNothingBehind
CHECK_DEADLOCK FALSE
