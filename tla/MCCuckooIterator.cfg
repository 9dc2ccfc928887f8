CONSTANTS
    m1 = m1
    m2 = m2
    i1 = i1
    i2 = i2
    x = x
    y = y
    Empty = Empty
    None = None
    SlotPerBucket = 2
    Maps <- TwoMaps
    Iterators <- TwoIterators
    Items <- TwoItems
    Tables <- Layouts
SPECIFICATION Spec
INVARIANTS
    HeldOnce
    FilledOrEnd
    SnapshotExact
PROPERTIES
    MovesToNeighbour
\* When assignments have left the locks of every map behind, no call returns.
CHECK_DEADLOCK FALSE
