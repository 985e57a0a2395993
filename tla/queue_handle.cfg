SPECIFICATION Spec
CONSTANTS
    Depth = 1
    SQEntries = 1
    CQEntries = 2
    NBlocks = 2
    Values = {0, 1}
    Zero = 0
    BufLen = 1
    HasDiscarder = TRUE
    HasZeroer = FALSE
    HonourLimits = FALSE
    SyscallsFail = TRUE
    ShortSubmits = FALSE
    ExternalStop = FALSE
PROPERTY Linearizable
