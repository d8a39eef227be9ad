CONSTANTS
    Proc = {sh, p1, p2, p3, p4}
    Root = sh
    Std = {0, 1}
    HostFds = {0, 1}
    MaxPipes = 5
    Capacity = 1
    Lines <- AllLines
    MaxLines = 2
    Chunks = 2
    MayNotStart = {"echo", "cat", "head"}
SPECIFICATION ShellFairSpec
INVARIANTS
    ShellTypes
    EofMeansDone
    NoStragglers
PROPERTIES
    PipelineEnds
CHECK_DEADLOCK FALSE
