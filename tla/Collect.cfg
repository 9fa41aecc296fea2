SPECIFICATION GCSpec
CONSTANTS
    Keys = {1, 2}
    Digests = {1, 2}
    TmpNames = {}
    Outputs = 2
    MaxClock = 1
    CollectorOptions <- AllOptions
INVARIANTS
    GCTypeOK
    BudgetMet
    GarbageGone
    OldestGoesFirst
    ReportMatchesDisk
PROPERTIES
    EntriesStayRestorable
CHECK_DEADLOCK FALSE
