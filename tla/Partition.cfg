SPECIFICATION Spec
CONSTANTS
    a = a
    b = b
    c = c
    Node = {a, b, c}
    First = {a}
    Mortal = {}
    MaxIncarnation = 1
    NoEntry = NoEntry
    Doubts <- MCDoubts
CHECK_DEADLOCK FALSE
PROPERTY
    Repairs
