SPECIFICATION FairSpec
CONSTANTS
    Calls <- EdgeCalls
    Sectors <- EdgeSectors
    SQEntries = 4
    DevIds = {0}
    Closers = {c1, c2}
    MaxTries = 3
    KernelTakes = {"legacy"}
    CommandsFail = TRUE
    OpensFail = TRUE
    SubmitFails = FALSE
    WaitFails = FALSE
INVARIANTS LifeInv NoDeviceLeaks OwnAnswers DeletedLast EncodingAgrees ServesWhatItAdvertised
PROPERTIES ImplementsDevices NewReturns ClosesReturn
