SPECIFICATION Spec
CONSTANTS
    None = None
    Calls = {c1, c2}
    Capacity = 1
    MaxConcurrent = 1
    MaxBytes = 2
    MaxAttempts = 2
    Threshold = 1
    MaxCrashes = 1
    Detached = TRUE
INVARIANTS
    OwnedOnce
CHECK_DEADLOCK FALSE
