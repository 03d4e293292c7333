SPECIFICATION Spec
CONSTANTS
    s = s
    a = a
    b = b
    shared = shared
    other = other
    NoSeed = NoSeed
    Node <- MCNode
    Seeds <- MCSeeds
    Keyring <- MCKeyring
    MaxExchanges <- MCMaxExchanges
CHECK_DEADLOCK FALSE
INVARIANTS
    TypeOK
    OnlyServersAreKnown
    KeysKeepApart
    FirstThatAnswers
    JoinIsMutual
PROPERTIES
    NoMutualWait
    WaitsEnd
