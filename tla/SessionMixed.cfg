SPECIFICATION Spec
CONSTANTS
    None = None
    UserPrompts = {u1, u2}
    CronPrompts = {}
    WakePrompts = {w1}
    PlanPrompts = {p1}
    GoalPrompts = {g1}
    DrainPrompts = {d1}
    Interjections = {i1}
    Waiting = {u1}
    Clients <- MCClients
    Owner <- MCOwner
INVARIANTS
    TypeOK
    NoStrandedInterjection
    PinAgreesAtCancel
    UserTextNeverDropped
    SendNowSurvivesItsCancel
PROPERTIES
    SendNowStaysFirst
CONSTRAINT Scenario
VIEW Observable
