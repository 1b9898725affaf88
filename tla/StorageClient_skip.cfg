SPECIFICATION Spec
CONSTANTS
    N = 2
    Threshold = 4
    Block = 2
    Batch = 2
    Chunk = 3
    Wrap = 16
    Sizes = {2, 5}
    Errors = {"FAILED", "TOKEN_EXPIRED"}
    MaxRepeats = 0
INVARIANT
    SkippedIsStored
CHECK_DEADLOCK FALSE
