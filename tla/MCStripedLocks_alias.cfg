CONSTANTS
    t1 = t1
    t2 = t2
    Threads <- TwoThreads
    Buckets <- AliasedBuckets
    NumLocks = 4
SPECIFICATION FairSpec
INVARIANTS
    TypeOK
    MutualExclusion
    WorksLocked
    NoLeak
    AscendingOrder
    DeadlockFree
PROPERTIES
    TakesLockSets
    SomeoneGetsIn
