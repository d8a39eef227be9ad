CONSTANTS
    Name = {x, y}
    Node = {root, n1, n2, n3}
    RootDir = root
    MaxDepth = 2
    Byte = {0, 1}
    MaxSize = 2
    MayNest = FALSE
SYMMETRY Symmetry
VIEW View
SPECIFICATION Spec
INVARIANTS
    TypeInvariant
    OneName
    NothingOrphaned
PROPERTIES
    ImplementsTree
CHECK_DEADLOCK FALSE
