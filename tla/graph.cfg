SPECIFICATION FairSpec
CONSTANTS
    MaxStories = 2
    MaxRetries = 3
    GatesAvailable = TRUE
    WiredValidators = FALSE
INVARIANTS
    TypeOK
    WaitsAtItsCheckpoint
    CompletedMeansSettled
    AttemptsBounded
PROPERTIES
    FreshStory
    AutomationHalts
    ImplementsPipeline
CHECK_DEADLOCK FALSE
