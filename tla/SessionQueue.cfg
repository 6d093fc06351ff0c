SPECIFICATION FairSpec
CONSTANTS
    None = None
    UserPrompts = {u1, u2}
    CronPrompts = {}
    WakePrompts = {}
    PlanPrompts = {}
    GoalPrompts = {}
    DrainPrompts = {}
    Interjections = {i1}
    Waiting = {}
    Clients <- MCClients
    Owner <- MCOwner
INVARIANTS
    FrontIsRunning
    NoDoubleRun
    ExactlyOnePlace
    OneTerminalPerTurn
PROPERTIES
    PromptsAnswered
    InterjectionsLeaveBuffer
