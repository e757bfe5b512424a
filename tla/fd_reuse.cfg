CONSTANTS
    Connections = {c1, c2}
    NumFds = 2
    Nobody = Nobody
    EventFd = EventFd
    EventCapacity = 2
    MessageCapacity = 1
SPECIFICATION Spec
SYMMETRY Symmetry
INVARIANTS
    LiveIsMapped
CHECK_DEADLOCK FALSE
