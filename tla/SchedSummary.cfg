SPECIFICATION Spec
CONSTANTS
    a1 = a1
    a2 = a2
    a3 = a3
    Actions = {a1, a2}
    Graphs <- AllGraphs
    Verdicts <- AllVerdicts
    WorkerOptions <- FewWorkers
    NumCPU = 2
    Interruptible = FALSE
INVARIANTS
    SummaryAddsUp
CHECK_DEADLOCK FALSE
