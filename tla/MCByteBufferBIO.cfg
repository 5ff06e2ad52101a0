CONSTANTS
    Size = 3
    MaxUsable = 3
    MaxChunk = 3
    MaxBytes = 6
    FlushesFirst = TRUE
SPECIFICATION Spec
INVARIANTS TypeOK BufferAccounting ReportsBytesWritten StreamIntact SourceIntact
PROPERTY ImplementsStream
CHECK_DEADLOCK FALSE
