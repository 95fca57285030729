SPECIFICATION Spec
CONSTANTS
    EpsInv = 1000
    Default <- MCDefault
    Inputs <- MCUnsorted
INVARIANT ReleaseIsHighestReachedTier
CHECK_DEADLOCK FALSE
