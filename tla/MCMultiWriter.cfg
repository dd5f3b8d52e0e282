\* Two writers, one of them with two transactions at once, a reader and a restart.
SPECIFICATION Spec
CONSTANTS
    a = a
    b = b
    r = r
    t1 = t1
    t2 = t2
    t3 = t3
    Instances <- MCInstances
    Writers <- MCWriters
    Txns = {t1, t2, t3}
    Home <- MCHome3
    FreshWriters = {}
    Positive = TRUE
    MaxId = 3
    MaxBatch = 2
    MaxRestarts = 1
SYMMETRY SameHome
INVARIANTS
    TypeOK
    PersistedUptoSound
    LocalTokenSound
PROPERTIES
    NoLateRows
    TokensNeverGoBack
    OwnRowsKept
    ImplementsStreamTokens
CHECK_DEADLOCK FALSE
