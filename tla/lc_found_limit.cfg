SPECIFICATION FairSpec
CONSTANTS
    Items = {i1, i2}
    Capacity = 2
    MaxApply = 1
    MaxGen = 1
    NoRequest = NoRequest
    MaxHierarchy = 1
    MaxFetches = 1
    MaxToggles = 0
    MaxChanges = 2
    MaxDrops = 1
    MaxSafety = 0
    MaxScreens = 0
    MaxFaults = 0
CHECK_DEADLOCK FALSE
PROPERTY BarrierLifted
