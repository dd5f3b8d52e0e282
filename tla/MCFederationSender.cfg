\* Two rooms whose events are handled in one round, a failure of any kind, a long
\* back-off and a restart.
SPECIFICATION Spec
CONSTANTS
    r1 = r1
    r2 = r2
    Rooms = {r1, r2}
    RoundLimit = 2
    TransactionLimit = 1
    CatchUpLimit = 1
    FirstContact = TRUE
    MaxEvents = 2
    MaxFaults = 1
    MaxLongBackOffs = 1
    MaxCrashes = 1
INVARIANTS
    TypeOK
    EventsKept
PROPERTIES
    EventsArrive
CHECK_DEADLOCK FALSE
