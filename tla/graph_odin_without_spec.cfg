SPECIFICATION Spec
CONSTANTS
    MaxStories = 2
    MaxRetries = 3
    GatesAvailable = TRUE
    WiredValidators = TRUE
INVARIANT OdinHasSpec
CHECK_DEADLOCK FALSE
