CONSTANTS
    t1 = t1
    t2 = t2
    a1 = a1
    a2 = a2
    a3 = a3
    NoAddr = NoAddr
    NoThread = NoThread
    Threads <- TwoThreads
    Addrs <- ThreeAddrs
    LockIds <- OneLock
    Orders <- BothOrders
    MaxPower = 3
    MaxCalls = 1
    MaxSections = 1
    Requests <- AllRequests
SPECIFICATION FairSpec
INVARIANTS
    TypeOK
    Accounted
PROPERTIES
    SafeIfOrdered
    SafeWhenLocked
    ReplacesCurrent
    EveryCallReturns
