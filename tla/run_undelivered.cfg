SPECIFICATION Spec
CONSTANTS
    MaxStories = 2
    MaxRetries = 1
    GatesAvailable = TRUE
    WiredValidators = TRUE
    MaxStreams = 2
INVARIANT PassIsDelivered
CHECK_DEADLOCK FALSE
