CONSTANTS
    Name = {x, y}
    Node = {root, n1, n2, n3}
    RootDir = root
    MaxDepth = 3
    Byte = {0, 1}
    MaxSize = 1
    MayNest = TRUE
SYMMETRY Symmetry
SPECIFICATION Spec
INVARIANTS
    NothingOrphaned
CHECK_DEADLOCK FALSE
