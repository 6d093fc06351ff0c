SPECIFICATION FairSpec
CONSTANTS
    s1 = s1
    s2 = s2
    i1 = i1
    None = None
    id <- OneId
    Subs = {s1, s2}
    Ids = {i1}
    Collected = {s1}
    Imaged = {s1}
    DefaultLimit = 2
    OtherLimits = {1}
    RateThreshold = 1
    DoomMax = 1
    Watched = {s1}
    MayPanic = {s1}
    MaxAsks = 1
INVARIANTS
    OnlyPanicsLeaveEntries
    Cancellable
PROPERTIES
    KeepsPromise
    Closes
CHECK_DEADLOCK FALSE
