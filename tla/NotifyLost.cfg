SPECIFICATION Spec
CONSTANTS
    b1 = b1
    m1 = m1
    e1 = e1
    e2 = e2
    u1 = u1
    u2 = u2
    MonitorOf <- MonitorOfEvent
    Bash = {b1}
    Monitors = {m1}
    Awaited = {b1}
    Events = {e1, e2}
    Users = {u1, u2}
    AutoWake = {TRUE}
    MaxNotes = 1
    MaxBuffer = 1
    MaxCancels = 0
    MaxSent = 3
INVARIANTS
    NoReportLost
SYMMETRY Symmetry
CHECK_DEADLOCK FALSE
