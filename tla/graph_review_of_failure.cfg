SPECIFICATION Spec
CONSTANTS
    MaxStories = 2
    MaxRetries = 3
    GatesAvailable = TRUE
    WiredValidators = TRUE
INVARIANT ReviewIsOfAPass
CHECK_DEADLOCK FALSE
