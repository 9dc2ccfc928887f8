CONSTANTS
    t1 = t1
    t2 = t2
    t3 = t3
    v1 = v1
    v2 = v2
    Empty = Empty
    Absent = Absent
    Fn <- MCFn
    IndexHash <- MCIndexHash
    AltIndex <- MCAltIndex
    PartialKey <- MCPartialKey
    Threads <- TwoThreads
    Vals <- TwoVals
    Keys <- MoveKeys
    Layouts <- MoveLayouts
    Requests <- MoveRequests
    InitPower = 2
    MaxPower = 3
    MaxSecond = 1
    MaxCalls = 2
    SlotsPerBucket = 2
    MaxCuckooCount = 5
    MaxBfsDepth = 3
    NumLocks = 4
    NumCores = 3
SPECIFICATION Spec
INVARIANTS
    OwnBuckets
    NoDuplicates
    ReadyToInsert
    NeverDrained
PROPERTIES
    Linearizable
