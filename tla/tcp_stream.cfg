CONSTANTS
    HeaderLength = 1
    Bodies <- MCBodies
    BufferSize = 2
    BlockSize = 2
    OutSize = 1
    InSize = 2
SPECIFICATION FairSpec
INVARIANTS
    TypeOK
    OperationsInv
    EndsOnce
PROPERTIES
    ImplementsStream
    Delivered
    EndNoticed
CHECK_DEADLOCK FALSE
