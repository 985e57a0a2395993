SPECIFICATION Spec
CONSTANTS
    Devs <- AllDevs
    Holders <- NoHolders
    Attempts = 2
    Roundtrips = 2
    Singles = 0
    Retries = 1
    Looks = 1
    RoundDevs <- TwoRounds
    FdNums <- FiveFds
    Which <- SigkillOnly
INVARIANT ExitZeroMeansGone
