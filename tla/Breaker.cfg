SPECIFICATION Spec
CONSTANTS
    None = None
    Threads = {t1, t2}
    OpenDuration = 2
    WindowDuration = 1
    MinSamples = 1
    RateNum = 1
    RateDen = 2
    MaxProbes = 1
    MaxEntries = 2
    CounterMod = 4
    MaxTime = 4
SYMMETRY ThreadSymmetry
VIEW LiveLocals
INVARIANTS
    TypeOK
    WindowCountsFailures
PROPERTIES
    RefusedWithCause
