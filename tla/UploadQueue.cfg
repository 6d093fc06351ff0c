SPECIFICATION FairSpec
CONSTANTS
    None = None
    Calls = {c1, c2}
    Capacity = 1
    MaxConcurrent = 1
    MaxBytes = 2
    MaxAttempts = 2
    Threshold = 1
    MaxCrashes = 1
    Detached = FALSE
INVARIANTS
    CountersExact
    SlotsConserved
    OwnedOnce
    Durable
    NothingResurfaces
    GuardHasHolder
    NothingLeaks
PROPERTIES
    WaitersAnswered
CHECK_DEADLOCK FALSE
