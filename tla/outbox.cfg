SPECIFICATION FairSpec
CONSTANTS
    first = first
    second = second
    chat = chat
    Requests <- RequestsOf
    Keys = {chat}
    Key <- SameKey
    NoKey = NoKey
    Drains = {d1, d2}
    MaxAttempts = 2
    MaxTroubles = 2
INVARIANTS
    TypeOK
    OneThreadPerKey
    ProcessedIsSettled
    ColdBootSettles
PROPERTIES
    EveryQueuedSettles
CHECK_DEADLOCK FALSE
