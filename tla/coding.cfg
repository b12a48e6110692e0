SPECIFICATION Spec
CONSTANTS
    r1 = r1
    r2 = r2
    flow = flow
    f1 = f1
    f2 = f2
    Files = {f1, f2}
    Patchers <- PatchersOf
    Runners <- RunnersOf
    Changes <- ChangesOf
    Cancellers = {c}
    Old = Old
    Missing = Missing
    MaxTroubles = 1
SYMMETRY Symmetry
INVARIANTS
    TypeOK
    AllOrNothing
    QuietIsTerminal
    ValidatedIsReplaced
CHECK_DEADLOCK FALSE
