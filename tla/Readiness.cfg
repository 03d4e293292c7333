SPECIFICATION Spec
CONSTANTS
    s = s
    a = a
    w = w
    Node = {s, a}
    Subject = {s}
    Worker = {w}
    Event = {"health", "stop"}
    NoEntry = NoEntry
    MaxIncarnation = 2
    MaxInFlight = 1
CHECK_DEADLOCK FALSE
INVARIANTS
    ReadinessAgrees
