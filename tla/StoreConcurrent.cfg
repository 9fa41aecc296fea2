SPECIFICATION Spec
CONSTANTS
    b1 = b1
    b2 = b2
    Builders = {b1, b2}
    Keys = {1, 2}
    Digests = {1, 2}
    TmpNames = {11, 12, 13}
    Outputs = 2
    MaxClock = 0
    CollectorOptions <- Idle
    Makes <- Sharing
    MaxRuns = 2
    MaxCrashes = 1
    MaxDamages = 0
    MaxEdits = 0
    MaxCollections = 0
SYMMETRY Symmetry
INVARIANTS
    NothingTorn
    DanglingExplained
PROPERTIES
    ImplementsCacheSafety
CHECK_DEADLOCK FALSE
