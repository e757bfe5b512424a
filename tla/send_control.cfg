CONSTANTS
    SeqMod = 3
    WindowSize = 2
    Scale = 1
    SendFrequency = 1
    EmptyFrequency = 1
    MaxEmpty = 1
    RetryTimes <- OneRetryTime
    FirstRetryTime = 2
    MaxRetryTime = 2
    AckOutTime = 2
    ClockSkew = 0
    Lag = 1
    PeerLag = 1
SPECIFICATION FairSpec
INVARIANTS
    TypeOK
    SendBuffersConserved
    TimeoutInTime
    ResponsiveKept
PROPERTIES
    HeadRetried
    KeptAlive
CHECK_DEADLOCK FALSE
