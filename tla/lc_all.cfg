SPECIFICATION Spec
CONSTANTS
    Items = {i1, i2}
    Capacity = 1
    MaxApply = 1
    MaxGen = 9
    NoRequest = NoRequest
    MaxHierarchy = 1
    MaxFetches = 2
    MaxToggles = 1
    MaxChanges = 2
    MaxDrops = 1
    MaxSafety = 1
    MaxScreens = 1
    MaxFaults = 1
CHECK_DEADLOCK FALSE
SYMMETRY ItemSymmetry
CONSTRAINT Focus
INVARIANTS TypeOK Accounted Exclusive OwnTransaction SlotHeld DemandOwned
