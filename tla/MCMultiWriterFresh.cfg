\* Writer b has no row in stream_positions yet.
SPECIFICATION Spec
CONSTANTS
    a = a
    b = b
    r = r
    t1 = t1
    t2 = t2
    t3 = t3
    Instances <- MCInstances
    Writers <- MCWriters
    Txns = {t1, t2}
    Home <- MCHome
    FreshWriters = {b}
    Positive = TRUE
    MaxId = 3
    MaxBatch = 2
    MaxRestarts = 1
INVARIANTS
    PersistedUptoSound
CHECK_DEADLOCK FALSE
