CONSTANTS
    Players = {p1, p2}
    MaxAttempts = 2
    MaxFlying = 2
    MaxRestarts = 1
    Settings <- MCSettings
    MaxMappings = 2
    Addresses <- MCAttempts
    NoAddress <- MCNone
    Slots <- MCSlots
    NoSlot <- MCNoSlot

SPECIFICATION FairSpec

INVARIANTS
    TypeOK
    MappingsOwned
    OwnEntryIsFirst
    QueueIsOwn
PROPERTY
    ImplementsSessionEnds

CHECK_DEADLOCK FALSE
