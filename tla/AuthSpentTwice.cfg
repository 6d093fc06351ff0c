SPECIFICATION Spec
CONSTANTS
    None = None
    pa = pa
    pb = pb
    ca = ca
    cb = cb
    ea = ea
    fa = fa
    Owner <- OwnerOf
    Procs = {pa, pb}
    Tasks = {ca, cb}
    Chains = {ca, cb}
    Enrichers = {}
    Flows = {}
    Sleepers = {}
    MaxInodes = 4
    MaxLeaked = 1
    MaxTransient = 2
    MaxGen = 1
    MaxStarts = 2
    MaxEvents = 0
INVARIANTS
    SpentByOne
CHECK_DEADLOCK FALSE
