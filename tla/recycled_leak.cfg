CONSTANTS
    WindowSize = 2
    SeqMod = 4
    SlotGarbage <- Recycled
    MaxSeq <- OneWay
    NetCapacity = 2
SPECIFICATION Spec
INVARIANTS
    NoAllocFailure
CHECK_DEADLOCK FALSE
