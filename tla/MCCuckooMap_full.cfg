CONSTANTS
    t1 = t1
    t2 = t2
    t3 = t3
    v1 = v1
    v2 = v2
    Empty = Empty
    Absent = Absent
    Fn <- MCFn
    IndexHash <- MCIndexHash
    AltIndex <- MCAltIndex
    PartialKey <- MCPartialKey
    Threads <- ThreeThreads
    Vals <- TwoVals
    Keys <- FullKeys
    Layouts <- FullLayouts
    Requests <- FullRequests
    InitPower = 1
    MaxPower = 3
    MaxSecond = 1
    MaxCalls = 1
    SlotsPerBucket = 2
    MaxCuckooCount = 4
    MaxBfsDepth = 3
    NumLocks = 2
    NumCores = 3
SPECIFICATION FairSpec
INVARIANTS
    TypeOK
    SizeExact
PROPERTIES
    Linearizable
    GrowsOnly
    EveryCallReturns
