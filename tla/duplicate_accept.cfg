CONSTANTS
    Clients = {c1, c2}
    Elsewhere = {}
    Malformed = Malformed
    Buckets <- MCBuckets
    Hash <- OneBucket
    PoolSize = 3
    InboxSize = 3
    MaxCopies = 3
SPECIFICATION Spec
INVARIANTS
    OneConnector
CHECK_DEADLOCK FALSE
