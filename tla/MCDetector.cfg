SPECIFICATION Spec
CONSTANTS
    p = p
    q = q
    Node = {p, q}
    NoEntry = NoEntry
    MaxIncarnation = 1
    ProbeInterval = 1
    DirectTimeout = 1
    IndirectTimeout = 1
    SuspicionTimeout = 2
    ReapTimeout = 3
INVARIANTS
    TypeOK
    RotationFair
    SweptInTime
    DetectedInTime
SYMMETRY Symmetry
