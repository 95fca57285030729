SPECIFICATION Spec
CONSTANTS
    a1 = a1
    a2 = a2
    a3 = a3
    a4 = a4
    b2 = b2
    b3 = b3
    b4 = b4
    s1 = s1
    s2 = s2
    s3 = s3
    c1 = c1
    d1 = d1
    x = x
    A = A
    C = C
    D = D
    NoBlock = NoBlock
    Block <- MCBlock
    Outpoint <- MCOutpoint
    Addr <- MCAddr
    News <- MCNews
    Spends <- MCSpends
    Binds <- MCBinds
    Owner <- MCOwner
    ClaimSenders <- MCClaimSenders
    Parent <- MCParent
    Batch = 1
    Lookback = 2
    Retention = 2
    MaxHeight = 4
    MaxReorgs = 0
    MaxFaults = 0
    Faults = {}
INVARIANT BatchWithinLimit
