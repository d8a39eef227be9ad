SPECIFICATION FairSpec
CONSTANTS
    x = x
    y = y
    NL = NL
    Garbage = Garbage
    Letter = {x, y}
    Byte = {x, y, NL}
    Capacity = 2
    ChunkLen = 3
    CatChunk = 2
    CatBuf = 1
    MaxTyped = 5
    Prompt <- PromptText
    Output <- OutputText
INVARIANTS
    TypeInvariant
    TypedIsReadOnce
    LinesAreWhole
    ScreenInOrder
PROPERTIES
    EveryLineRuns
    CloseEndsSession
CHECK_DEADLOCK FALSE
