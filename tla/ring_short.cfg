SPECIFICATION Spec
CONSTANTS
    Entries = 2
    Width = 3
    UserData = {u1, u2, u3}
    NoData = NoData
    MaxOutstanding = 4
    SyscallsFail = FALSE
    ShortSubmits = TRUE
SYMMETRY UserDataSymmetry
INVARIANT NilIfFull
