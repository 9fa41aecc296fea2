SPECIFICATION MSpec
CONSTANTS
    N = 4
    MaxCopies = 2
    Durations = {0, 2}
    Segments = {"", ".", "..", "a", "b"}
    Files <- AllFiles
INVARIANTS
    OrderIsTopological
    OrderIffAcyclic
    OrderIsCanonical
    CycleIsReal
    LengthIsTheLongest
    PathSpansTheGraph
PROPERTIES
    LoadIsSound
CHECK_DEADLOCK FALSE
