SPECIFICATION FairSpec
CONSTANTS
    r1 = r1
    r2 = r2
    r3 = r3
    r4 = r4
    k = k
    NoKey = NoKey
    Nobody = Nobody
    Requests = {r1, r2, r3, r4}
    Key <- MCKey
    MaxTroubles = 1
INVARIANTS
    TypeOK
    WorkedOnce
    TurnsAreAnswered
PROPERTIES
    TurnsEnd
CHECK_DEADLOCK FALSE
