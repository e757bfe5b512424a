CONSTANTS
    WindowSize = 2
    SeqMod = 4
    SlotGarbage <- Zeroed
    MaxSeq <- TwoWay
    NetCapacity = 1
SPECIFICATION FairSpec
INVARIANTS
    BufferInv
PROPERTIES
    HandshakeCompletes
    ChunksArrive
CHECK_DEADLOCK FALSE
