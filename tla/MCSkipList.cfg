CONSTANTS
    v1 = v1
    v2 = v2
    NoVal = NoVal
    Head = Head
    Tail = Tail
    None = None
    MaxKey = 3
    MaxHeight = 3
    Keys <- FourKeys
    Vals <- TwoVals
SPECIFICATION FairSpec
INVARIANTS
    TypeOK
    Linked
    Towers
    HeightExact
    Tracked
PROPERTIES
    IsSortedMap
    Returns
