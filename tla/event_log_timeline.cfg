SPECIFICATION Spec
CONSTANTS
    MaxEvents = 3
    MaxLegacy = 0
    MaxHistory = 2
    MaxCrashes = 0
    MaxFetches = 1
INVARIANT TimelineShowsOnce
CHECK_DEADLOCK FALSE
