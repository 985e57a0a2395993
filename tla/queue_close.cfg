SPECIFICATION CloseSpec
CONSTANTS
    Depth = 2
    SQEntries = 2
    CQEntries = 4
    NBlocks = 1
    Values = {0}
    Zero = 0
    BufLen = 1
    HasDiscarder = FALSE
    HasZeroer = FALSE
    HonourLimits = TRUE
    SyscallsFail = TRUE
    ShortSubmits = TRUE
    ExternalStop = TRUE
PROPERTIES RequestsAnswered ShutdownAnswers CancelStopsWorker NewReturns CloseReturns
