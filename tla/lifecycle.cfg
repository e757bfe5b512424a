CONSTANTS
    Connections = {c1, c2}
    NumFds = 2
    Nobody = Nobody
    EventFd = EventFd
    EventCapacity = 1
    MessageCapacity = 3
SPECIFICATION FairSpec
INVARIANTS
    TypeOK
    ReferencesAlive
    EndsOnce
    DescriptorsInv
PROPERTIES
    EndCompletes
CHECK_DEADLOCK FALSE
