SPECIFICATION FairSpec
CONSTANTS
    Entries = 1
    Width = 2
    UserData = {u1, u2, u3}
    NoData = NoData
    MaxOutstanding = 2
    SyscallsFail = FALSE
    ShortSubmits = FALSE
INVARIANT ExactlyOnce
PROPERTY CancelWakes
