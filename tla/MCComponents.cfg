\* Each component alone, with what can go wrong in it.
SPECIFICATION ComponentsSpec
CONSTANTS
    Foci = {"rw", "linearizer", "queue", "cache", "scheduler", "lock", "loops", "replication",
            "changes", "appservice", "pusher"}
    MaxUsers = 4
    MaxCallers = 5
    MaxCount = 2
    QueueTasks = 4
    a = a
    b = b
    Inner = {a, b}
    MaxWrites = 1
    MaxFetches = 3
    Capacity = 2
    MaxTasks = 3
    MaxFaults = 1
    MaxRestarts = 1
    MaxTaskFaults = 1
    MaxTaskRestarts = 1
    Workers = {"w1", "w2"}
    LockUsers = {1, 2, 3}
    Homes <- SpreadOrTogether
    RenewEvery = 1
    Timeout = 4
    MaxDelay = 1
    MaxLate = 1
    MaxCrashes = 1
    Writers = {a, b}
    Reader = Reader
    MaxId = 4
    MaxRows = 1
    Entities = {e1, e2, e3}
    MaxPos = 4
    MaxSize = 2
    MaxEvents = 2
    MaxTxns = 2
    RoundLimit = 2
    TxnLimit = 1
    MaxRecoverers = 2
    PushLimit = 1
    MaxPushers = 2
    MaxPushFaults = 2
INVARIANTS
    Exclusion
    ArrivalOrder
    NobodyStuck
    ComponentTypes
    PlacesAccountedFor
    OrderOfArrival
    EveryoneAnswered
    NothingStale
    PendingIsRunning
    WorkSurvivesRestart
    KeptInTime
    AddMatches
    LoadMatches
    NoMissedRows
    NoChangeMissed
    AnswersExact
    NothingForgotten
    DownIsRecovered
    NothingSteppedOver
CHECK_DEADLOCK FALSE
