\* Two writers; the reader reconnects.
SPECIFICATION Spec
CONSTANTS
    a = a
    b = b
    Reader = Reader
    Writers = {a, b}
    MaxId = 4
    MaxRows = 1
    DeltaLimit = FALSE
    MaxBreaks = 1
    MaxWriterBreaks = 0
INVARIANTS
    NoMissedRows
CHECK_DEADLOCK FALSE
