\* One writer, and both sides lose connections; tasks; users of a worker lock.
\* No query fails.
SPECIFICATION LiveSpec
CONSTANTS
    Foci = {"replication", "scheduler", "lock"}
    a = a
    b = b
    Writers = {a}
    Reader = Reader
    MaxId = 3
    MaxRows = 2
    DeltaLimit = TRUE
    MaxBreaks = 1
    MaxWriterBreaks = 1
    Capacity = 1
    MaxTasks = 3
    MaxTaskFaults = 1
    MaxTaskRestarts = 1
    Workers = {"w1", "w2"}
    LockUsers = {1, 2, 3}
    Homes <- SpreadOrTogether
    RenewEvery = 1
    Timeout = 4
    MaxDelay = 1
    MaxLate = 1
    MaxCrashes = 1
INVARIANTS
    PositionsSkipNoRows
PROPERTIES
    PositionsArrive
    EveryTaskEnds
    EveryoneGetsLock
CHECK_DEADLOCK FALSE
