CONSTANTS
    Blocks = {1}
    NumFragments = 2
    SendQueueSize = 2
    ReceiveQueueSize = 2
    MaxPerPacket = 2
    AckBits = 2
    ReplayWindow = 2
    HalfRange = 3
    MaxMessages = 4
    MaxLosses = 1
    MaxDelays = 1

SPECIFICATION FairSpec

INVARIANTS
    TypeOK
    ForgottenIsReceived
    NoDesync
    Comparable
PROPERTY
    ImplementsFifo

CHECK_DEADLOCK FALSE
