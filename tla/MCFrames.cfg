SPECIFICATION Spec
CONSTANTS
    Base = 3
    PrefixLen = 2
    MAX_FRAME_LEN = 2
    PROTOCOL_VERSION = 1
    MaxFrames = 3
    Payload <- MCPayload
    Opened <- MCOpened
    Decoded <- MCDecoded
CHECK_DEADLOCK FALSE
INVARIANTS
    TypeOK
    FailsForAReason
PROPERTIES
    IsMailbox
    EveryFrameRead
