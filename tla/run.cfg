SPECIFICATION FairSpec
CONSTANTS
    MaxStories = 2
    MaxRetries = 1
    GatesAvailable = TRUE
    WiredValidators = TRUE
    MaxStreams = 2
INVARIANTS
    TypeOK
    EverySetDecided
    CompletedIsDelivered
    BlockedIsError
    StoredTellsWaiting
PROPERTIES
    SetLifecycle
    StreamsClose
CHECK_DEADLOCK FALSE
