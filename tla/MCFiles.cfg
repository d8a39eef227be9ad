CONSTANTS
    Proc = {sh, c1}
    Shell = sh
    File = {f}
    ChildFd = {0, 16}
    Flags <- AnyFlags
    Byte = {1}
    MaxSize = 1
    MaxHandles = 2
SYMMETRY Symmetry
SPECIFICATION Spec
INVARIANTS
    NoSharedPosition
    ClosedOnceByOwner
PROPERTIES
    DescriptorsAreStable
CHECK_DEADLOCK FALSE
