SPECIFICATION FairSpec
CONSTANTS
    Tasks = {t1, t2}
    Origins = {t1}
    Commands <- MCCommands
    MaxTroubles = 1
INVARIANTS
    TypeOK
    NoSpawnUnapproved
    KilledIsRecorded
PROPERTIES
    WatchedSettles
CHECK_DEADLOCK FALSE
