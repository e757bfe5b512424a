CONSTANTS
    Clients = {c1, c2}
    Elsewhere = {c2}
    Malformed = Malformed
    Buckets <- MCBuckets
    Hash <- OneBucket
    PoolSize = 3
    InboxSize = 3
    MaxCopies = 3
SPECIFICATION FairSpec
INVARIANTS
    TypeOK
    PoolInv
PROPERTIES
    Served
CHECK_DEADLOCK FALSE
