SPECIFICATION Spec
CONSTANTS
    None = None
    Mine = {a, b}
    Theirs = {c}
    Wakes = {w}
    Images = {b}
    Twins = {a, c}
    MaxPrompts = 2
    MaxDeltas = 1
    MaxCommands = 1
    MaxLost = 1
INVARIANTS
    MirrorConverges
    FinishedTurnLeavesScreen
    TypedOrderKept
CHECK_DEADLOCK FALSE
