SPECIFICATION FairSpec
CONSTANTS
    LastFile = 3
    LastVersion = 3
    Ships <- MCShips
    MaxAttempts = 2
    MaxChecks = 2
    MaxFaults = 3
    MaxCuts = 1
CHECK_DEADLOCK FALSE
INVARIANTS TypeOK NeverBehind
PROPERTIES AllOrNothing Confirmed JoinReturns
