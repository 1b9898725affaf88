SPECIFICATION FairSpec
CONSTANTS
    N = 2
    Threshold = 8
    Block = 2
    Batch = 4
    Chunk = 3
    Wrap = 32
    Sizes = {0, 7, 16, 23, 25}
    Errors = {"TOKEN_EXPIRED"}
    MaxRepeats = 1
INVARIANTS
    TypeOK
    NoUseAfterReturn
    FailedPartReported
    TransferredIsFile
    OutputIsPrefix
    CipherEndsLast
PROPERTY
    ReturnsOrBlocked
CHECK_DEADLOCK FALSE
