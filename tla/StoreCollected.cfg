SPECIFICATION Spec
CONSTANTS
    b1 = b1
    b2 = b2
    Builders = {b1}
    Keys = {1}
    Digests = {1, 2}
    TmpNames = {11}
    Outputs = 2
    MaxClock = 1
    CollectorOptions <- Tight
    Makes <- Swapping
    MaxRuns = 2
    MaxCrashes = 0
    MaxDamages = 1
    MaxEdits = 1
    MaxCollections = 1
INVARIANTS
    HitIsTrue
    HitIsWhatTheEntryNamed
PROPERTIES
    OverwritesAreReported
CHECK_DEADLOCK FALSE
