\* Three transactions at a time, restarts of both sides.
SPECIFICATION Spec
CONSTANTS
    t1 = t1
    t2 = t2
    t3 = t3
    r1 = r1
    r2 = r2
    main = main
    extra = extra
    Readers = {r1}
    Txns = {t1, t2, t3}
    Tables = {main, extra}
    MaxId = 4
    MaxBatch = 2
    MaxRestarts = 1
    MaxReaderRestarts = 1
SYMMETRY TxnSymmetry
INVARIANTS
    TypeOK
    WriterTokenSound
    FreshIds
PROPERTIES
    ImplementsStreamTokens
CHECK_DEADLOCK FALSE
