SPECIFICATION FairSpec
CONSTANTS
    a1 = a1
    a2 = a2
    a3 = a3
    Actions = {a1, a2, a3}
    Graphs <- ThreeShapes
    Verdicts <- AllVerdicts
    WorkerOptions <- DefaultAndOne
    NumCPU = 2
    Interruptible = TRUE
INVARIANTS
    TypeOK
    DependenciesBuilt
    SlotsAccounted
    EveryActionDecidedOnce
    FirstErrorIsTheCause
    OutcomeMatchesCommands
PROPERTIES
    BuildReturns
    CancelledBuildReturns
    ImplementsBuildSpec
CHECK_DEADLOCK FALSE
