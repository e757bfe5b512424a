CONSTANTS
    Posters <- MCPosters
    Io <- MCIo
    MaxPosts <- MCMaxPosts
SPECIFICATION FairSpec
INVARIANTS
    TypeOK
    QueueInv
PROPERTIES
    ImplementsQueue
    EventsRun
