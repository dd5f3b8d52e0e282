\* One writer; the reader loses two connections.
SPECIFICATION AloneSpec
CONSTANTS
    a = a
    b = b
    Reader = Reader
    Writers = {a}
    MaxId = 4
    MaxRows = 2
    DeltaLimit = TRUE
    MaxBreaks = 2
    MaxWriterBreaks = 0
INVARIANTS
    NoMissedRows
PROPERTIES
    ImplementsReplicatedStream
CHECK_DEADLOCK FALSE
