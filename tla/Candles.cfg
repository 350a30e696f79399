SPECIFICATION FairSpec
CONSTANTS
    Horizon = 3
    BucketSize = 2
    Overlap = 2
    Lookback = 4
    PageLimit = 2
    Windows <- MCWindows
    MaxTrades = 3
    MaxFaults = 1
    MaxRequests = 1
INVARIANTS TypeOK FinishedKept DerivedFromClosed BackfillCovers
PROPERTIES DerivedCatchesUp
CHECK_DEADLOCK FALSE
