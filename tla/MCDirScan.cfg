SPECIFICATION FairSpec
CONSTANTS
    a = a
    b = b
    long = long
    Name = {a, b, long}
    NameLen <- Lengths
    BufLen = 40
    Operands <- Tops
    Path <- Paths
    MaxChanges = 5
INVARIANTS
    TypeInvariant
    ListedOnce
    CopyComplete
    RmAlone
PROPERTIES
    StaysInside
    WalkEnds
CHECK_DEADLOCK FALSE
