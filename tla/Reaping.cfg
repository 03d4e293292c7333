SPECIFICATION Spec
CONSTANTS
    s = s
    a = a
    w = w
    Node = {s, a}
    Subject = {s}
    Worker = {w}
    Event = {"expiry"}
    NoEntry = NoEntry
    MaxIncarnation = 1
    MaxInFlight = 1
CHECK_DEADLOCK FALSE
PROPERTIES
    ReapTakesOnlyDead
