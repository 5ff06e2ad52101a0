CONSTANTS
    Size = 3
    MaxUsable = 3
    MaxChunk = 3
    MaxBytes = 6
    FlushesFirst = TRUE
SPECIFICATION Spec
INVARIANT ReadyToCapture
CHECK_DEADLOCK FALSE
