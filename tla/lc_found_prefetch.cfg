SPECIFICATION Spec
CONSTANTS
    Items = {i1}
    Capacity = 1
    MaxApply = 1
    MaxGen = 9
    NoRequest = NoRequest
    MaxHierarchy = 1
    MaxFetches = 1
    MaxToggles = 1
    MaxChanges = 0
    MaxDrops = 0
    MaxSafety = 0
    MaxScreens = 0
    MaxFaults = 0
CHECK_DEADLOCK FALSE
INVARIANT PrefetchTracked
