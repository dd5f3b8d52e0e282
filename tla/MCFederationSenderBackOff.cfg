\* A destination that backs off for more than an hour once; no restart.
SPECIFICATION Spec
CONSTANTS
    r1 = r1
    r2 = r2
    Rooms = {r1, r2}
    RoundLimit = 1
    TransactionLimit = 1
    CatchUpLimit = 1
    FirstContact = FALSE
    MaxEvents = 2
    MaxFaults = 1
    MaxLongBackOffs = 1
    MaxCrashes = 0
INVARIANTS
    SentUpToLastSuccessful
CHECK_DEADLOCK FALSE
