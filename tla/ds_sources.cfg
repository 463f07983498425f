SPECIFICATION Spec
CONSTANTS
    Scopes = {s1}
    Ids = {i1}
    Sources = {v1,v2}
    LateIds = {}
    NoItem = NoItem
    NoBytes = NoBytes
    NoIndex = NoIndex
    BadIndex = BadIndex
    NoXfer = NoXfer
    MaxRounds = 2
    MaxEdits = 3
    MaxSwitches = 0
    MaxFaults = 1
    MaxCrashes = 0
CHECK_DEADLOCK FALSE
ACTION_CONSTRAINT FromFirst
INVARIANTS SettledDisk NoMixedSources BusyExact
PROPERTIES StartsClean EventuallySettled
