SPECIFICATION Spec
CONSTANTS
    N = 2
    Files = {1, 2, 3, 4, 5}
    Sources = {1, 2}
    Manifests <- Three
    Reads <- Opened
    Options <- AllFlags
    MaxBuilds = 3
    MaxTroubles = 2
INVARIANTS
    StoreIsTrue
    BuildIsClean
    OnlyAffectedRuns
CHECK_DEADLOCK FALSE
