SPECIFICATION Spec
CONSTANTS
    Calls <- DefaultCall
    Sectors <- EdgeSectors
    SQEntries = 4
    DevIds = {0, 1}
    Closers = {c1, c2}
    MaxTries = 2
    KernelTakes = {"ioctl", "legacy"}
    CommandsFail = FALSE
    OpensFail = FALSE
    SubmitFails = TRUE
    WaitFails = FALSE
INVARIANT PinnedReads
