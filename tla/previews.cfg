SPECIFICATION Spec
CONSTANTS
    Sessions = {s1}
    Requests = {r1, r2}
    Children = {p1, p2, p3}
    None = None
    MaxTroubles = 1
SYMMETRY Symmetry
INVARIANTS
    TypeOK
    RecordKnowsChild
    ProcessIsOurs
CHECK_DEADLOCK FALSE
