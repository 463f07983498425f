SPECIFICATION Spec
CONSTANTS
    Scopes = {s1,s2}
    Ids = {i1}
    Sources = {v1}
    LateIds = {i1}
    NoItem = NoItem
    NoBytes = NoBytes
    NoIndex = NoIndex
    BadIndex = BadIndex
    NoXfer = NoXfer
    MaxRounds = 2
    MaxEdits = 2
    MaxSwitches = 2
    MaxFaults = 0
    MaxCrashes = 0
CHECK_DEADLOCK FALSE
ACTION_CONSTRAINT LateAtFirst
INVARIANTS TypeOK NoOrphans NoResurrection BusyExact
