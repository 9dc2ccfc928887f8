CONSTANTS
    x = x
    blank = blank
    Nul = Nul
    None = None
    Undefined = Undefined
    Objects = {o1, o2}
    Chars <- Letters
    Blank = blank
    Literals <- Texts
    Sizes <- Lengths
    Positions <- Indexes
    SSO_SIZE = 2
    UintValues = 32
    MaxLen = 3
    MaxFree = 4
SYMMETRY Interchangeable
SPECIFICATION Spec
INVARIANTS
    EditsAsAsked
    CopiesAsAsked
