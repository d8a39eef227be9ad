CONSTANTS
    a = a
    b = b
    Client = {c1, c2}
    Name = {a, b}
    Request <- Calls
    Trees <- Left
    MaxCalls = 3
SPECIFICATION FairSpec
INVARIANTS
    TypeInvariant
    OneAnswerEach
    HandleNamesItsFile
PROPERTIES
    BytesGoOnlyAsAsked
    EveryCallIsAnswered
CHECK_DEADLOCK FALSE
