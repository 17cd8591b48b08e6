CONSTANTS
    Calls <- FramedCalls
    BufSize = 2
SPECIFICATION Spec
CHECK_DEADLOCK FALSE
INVARIANT ChunkedUnderstood
