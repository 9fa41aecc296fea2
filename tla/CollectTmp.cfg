SPECIFICATION GCSpec
CONSTANTS
    Keys = {1}
    Digests = {1, 2}
    TmpNames = {11}
    Outputs = 1
    MaxClock = 1
    CollectorOptions <- AllOptions
INVARIANTS
    ReportMatchesDisk
CHECK_DEADLOCK FALSE
