SPECIFICATION Spec
CONSTANTS
    self = self
    p = p
    q = q
    r = r
    c1 = c1
    c2 = c2
    Member <- MCMember
    Self = self
    Ip <- MCIp
    Client = {c1, c2}
    Wants <- MCWants
    Belief = {"ready", "suspect"}
INVARIANTS
    TypeOK
    OneTryEach
    RoundRobin
PROPERTIES
    ListIsCurrent
