CONSTANTS
    Proc = {sh, c1}
    Shell = sh
    File = {f}
    ChildFd = {0, 16}
    Flags <- AppendFlags
    Byte = {1, 2}
    MaxSize = 1
    MaxHandles = 2
SPECIFICATION Spec
PROPERTIES
    AppendsAtEnd
CHECK_DEADLOCK FALSE
