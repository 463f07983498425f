SPECIFICATION Spec
CONSTANTS
    Scopes = {s1,s2}
    Ids = {i1}
    Sources = {v1}
    LateIds = {}
    NoItem = NoItem
    NoBytes = NoBytes
    NoIndex = NoIndex
    BadIndex = BadIndex
    NoXfer = NoXfer
    MaxRounds = 2
    MaxEdits = 3
    MaxSwitches = 1
    MaxFaults = 0
    MaxCrashes = 0
CHECK_DEADLOCK FALSE
INVARIANT NothingLost
