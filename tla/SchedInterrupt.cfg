SPECIFICATION Spec
CONSTANTS
    a1 = a1
    a2 = a2
    a3 = a3
    Actions = {a1, a2}
    Graphs <- AllGraphs
    Verdicts <- AllVerdicts
    WorkerOptions <- FewWorkers
    NumCPU = 2
    Interruptible = TRUE
INVARIANTS
    CancellationIsAnError
CHECK_DEADLOCK FALSE
