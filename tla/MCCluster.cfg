SPECIFICATION Spec
CONSTANTS
    a = a
    b = b
    c = c
    Node = {a, b, c}
    First = {a}
    Mortal = {a, b, c}
    MaxIncarnation = 1
    NoEntry = NoEntry
    Doubts <- MCDoubts
CHECK_DEADLOCK FALSE
INVARIANTS
    TypeOK
PROPERTIES
    SplitIsFinal
    Converges
