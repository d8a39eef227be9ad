CONSTANTS
    Proc = {sh, a, b}
    Root = sh
    Std = {1, 2}
    HostFds = {}
    MaxPipes = 3
    Capacity = 1
SPECIFICATION MCFairSpec
INVARIANTS
    NoHolderForgotten
    JoinIsBarrier
    ResultIsComplete
PROPERTIES
    ClosedByLastHolder
    ResultArrives
CHECK_DEADLOCK FALSE
