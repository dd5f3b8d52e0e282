\* Two writers and a restart, with fairness and no database failures.
SPECIFICATION HealthySpec
CONSTANTS
    a = a
    b = b
    r = r
    t1 = t1
    t2 = t2
    t3 = t3
    Instances <- MCWriters
    Writers <- MCWriters
    Txns = {t1, t2}
    Home <- MCHome
    FreshWriters = {}
    Positive = TRUE
    MaxId = 3
    MaxBatch = 2
    MaxRestarts = 1
PROPERTIES
    RowsBecomeVisible
CHECK_DEADLOCK FALSE
