SPECIFICATION Spec
CONSTANTS
    s = s
    a = a
    w = w
    Node = {s, a}
    Subject = {s}
    Worker = {w}
    Event = {"leave", "stop", "expiry"}
    NoEntry = NoEntry
    MaxIncarnation = 1
    MaxInFlight = 2
CHECK_DEADLOCK FALSE
INVARIANTS
    TypeOK
    IncarnationOwned
    DetectorCopiesCurrent
PROPERTIES
    OnlySubjectClears
    LeaveStands
    ReapingSticks
