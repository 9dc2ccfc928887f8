CONSTANTS
    a = a
    b1 = b1
    b2 = b2
    c = c
    Garbage = Garbage
    Addrs <- FourAddrs
    Ip <- MCIp
    Memories <- Sizes
    Points <- Ring
    Hash <- MCHash
    Configs <- Files
    PropertyFiles <- Properties
    Missing = Missing
    MemoryValues = 60
    CountValues = 20
    Saturates = FALSE
    MaxServers = 3
    MaxStray = 1
SPECIFICATION Spec
INVARIANTS
    TotalsExact
    ServesListed
PROPERTIES
    MovesOnlyItsKeys
