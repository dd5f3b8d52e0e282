\* Two rooms whose events are handled in one round; nothing fails.
SPECIFICATION Spec
CONSTANTS
    r1 = r1
    r2 = r2
    Rooms = {r1, r2}
    RoundLimit = 2
    TransactionLimit = 1
    CatchUpLimit = 1
    FirstContact = FALSE
    MaxEvents = 2
    MaxFaults = 0
    MaxLongBackOffs = 0
    MaxCrashes = 0
INVARIANTS
    NoEventForgotten
CHECK_DEADLOCK FALSE
