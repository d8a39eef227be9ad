CONSTANTS
    Proc = {sh, p1, p2}
    Root = sh
    Std = {0, 1}
    HostFds = {0, 1}
    MaxPipes = 3
    Capacity = 1
    Lines <- HeadLines
    MaxLines = 1
    Chunks = 3
    MayNotStart = {}
SPECIFICATION ShellFairSpec
PROPERTY EveryPipelineEnds
CHECK_DEADLOCK FALSE
