SPECIFICATION Spec
CONSTANTS
    N = 2
    Files = {1, 2, 3, 4, 5}
    Sources = {1, 2}
    Manifests <- JustUndeclared
    Reads <- Opened
    Options <- Cached
    MaxBuilds = 2
    MaxTroubles = 1
INVARIANTS
    UndeclaredReadFails
CHECK_DEADLOCK FALSE
