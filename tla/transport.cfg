CONSTANTS
    WindowSize = 2
    SeqMod = 4
    SlotGarbage <- Mixed
    MaxSeq <- OneWay
    NetCapacity = 2
SPECIFICATION SoundSpec
INVARIANTS
    TypeOK
    SafetyInv
    AckedIsDelivered
    ConnectedBeforeData
PROPERTIES
    UnackedKept
    ImplementsStream
CHECK_DEADLOCK FALSE
