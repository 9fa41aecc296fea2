SPECIFICATION FairSpec
CONSTANTS
    b1 = b1
    b2 = b2
    Builders = {b1, b2}
    Server = server
    Keys = {1}
    Digests = {1, 2}
    Outputs = 2
    Makes <- Swapping
    MaxRuns = 3
    MaxFaults = 1
INVARIANTS
    TypeOK
    EntriesAreBacked
    DamageDoesNotSpread
    StatsAreTrue
PROPERTIES
    ImplementsCacheSpec
CHECK_DEADLOCK FALSE
