SPECIFICATION MCFairSpec
CONSTANTS
    Accounts = {a1, a2}
    Items = {i1}
    NoAccount = NoAccount
    NoEntry = NoEntry
    NoPosition = NoPosition
    Positions = {1, 2}
    MaxRequests = 3
    MaxFaults = 1
    MaxCrashes = 1
CHECK_DEADLOCK FALSE
INVARIANTS TypeOK SessionPaired LatestWins PositionKept
PROPERTY WatchedDrains
