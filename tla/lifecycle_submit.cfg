SPECIFICATION Spec
CONSTANTS
    Calls <- DefaultCall
    Sectors <- EdgeSectors
    SQEntries = 4
    DevIds = {0, 1}
    Closers = {c1, c2}
    MaxTries = 2
    KernelTakes = {"ioctl", "legacy"}
    CommandsFail = TRUE
    OpensFail = TRUE
    SubmitFails = TRUE
    WaitFails = TRUE
INVARIANTS NoHandleLeaks CloseMeansReleased
