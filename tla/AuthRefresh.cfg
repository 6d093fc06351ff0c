SPECIFICATION Spec
CONSTANTS
    None = None
    pa = pa
    pb = pb
    ca = ca
    cb = cb
    ea = ea
    fa = fa
    Owner <- OwnerOf
    Procs = {pa, pb}
    Tasks = {ca, cb, ea, fa}
    Chains = {ca, cb}
    Enrichers = {ea}
    Flows = {fa}
    Sleepers = {pa}
    MaxInodes = 6
    MaxLeaked = 1
    MaxTransient = 2
    MaxGen = 2
    MaxStarts = 2
    MaxEvents = 1
INVARIANTS
    SpendersExclusive
    FamilySurvives
    NewestKept
    StickyVerdictIsDead
    AckedMeansDrained
CHECK_DEADLOCK FALSE
