CONSTANTS
    Proc = {sh, a, b}
    Root = sh
    Std = {1}
    HostFds = {}
    MaxPipes = 2
    Capacity = 1
SPECIFICATION Spec
INVARIANT HeldEndStaysOpen
CHECK_DEADLOCK FALSE
