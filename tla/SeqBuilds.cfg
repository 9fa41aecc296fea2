SPECIFICATION FairSpec
CONSTANTS
    a1 = a1
    a2 = a2
    a3 = a3
    Actions = {a1, a2, a3}
    Graphs <- AllGraphs
    Verdicts <- AllVerdicts
INVARIANTS
    PoisonIsDownstream
    DecidedInOrder
    CutShortIsAnError
PROPERTIES
    ImplementsBuildSpec
CHECK_DEADLOCK FALSE
