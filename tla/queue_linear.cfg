SPECIFICATION Spec
CONSTANTS
    Depth = 2
    SQEntries = 2
    CQEntries = 4
    NBlocks = 1
    Values = {0, 1}
    Zero = 0
    BufLen = 1
    HasDiscarder = TRUE
    HasZeroer = FALSE
    HonourLimits = TRUE
    SyscallsFail = TRUE
    ShortSubmits = FALSE
    ExternalStop = FALSE
INVARIANTS NeverRefused SleepsOnlyWhenFlushed ServiceInv
PROPERTY Linearizable
