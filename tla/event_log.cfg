SPECIFICATION FairSpec
CONSTANTS
    MaxEvents = 3
    MaxLegacy = 1
    MaxHistory = 2
    MaxCrashes = 1
    MaxFetches = 1
INVARIANTS
    TypeOK
    LockIsExclusive
    NumbersAreConsecutive
    NoGap
PROPERTIES
    EveryAppendSettles
    ImplementsAppendOnlyLog
CHECK_DEADLOCK FALSE
