SPECIFICATION Spec
CONSTANTS
    Depth = 3
    SQEntries = 4
    CQEntries = 8
    NBlocks = 1
    Values = {0}
    Zero = 0
    BufLen = 1
    HasDiscarder = FALSE
    HasZeroer = FALSE
    HonourLimits = TRUE
    SyscallsFail = TRUE
    ShortSubmits = TRUE
    ExternalStop = TRUE
INVARIANTS TagOwnership RingsNeverOverflow NoRequestForgotten NoUseAfterRelease
