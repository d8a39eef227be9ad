CONSTANTS
    Writers = {w1, w2, w3}
    Guests = {g1}
    Drainers = {d1}
    Capacity = 2
    WriteSizes = {0, 1, 3}
    ReadSizes = {1, 2}
    DrainSize = 4
    MaxCalls = 4
SPECIFICATION FairSpec
INVARIANTS
    NoLostWakeup
    Conservation
    EofIsFinal
    InCallOrder
    ResultTellsBytes
PROPERTIES
    CallsReturn
    ImplementsStream
CHECK_DEADLOCK FALSE
