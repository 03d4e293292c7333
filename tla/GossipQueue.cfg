SPECIFICATION Spec
CONSTANTS
    x = x
    y = y
    z = z
    Subject = {x, y, z}
    Version = {1, 2}
    None = None
    ClusterSize = {2, 5}
    MaxPiggyback = 1
INVARIANTS
    TypeOK
    OnePerSubject
    SendsAddUp
PROPERTIES
    FreshestOfEqualsFirst
    Drains
    OwedSpec
