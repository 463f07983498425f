SPECIFICATION Spec
CONSTANTS
    Accounts = {a, b}
    NoAccount = NoAccount
    Readers = {r}
    Walker = w
    PageCount = 2
    MaxPendingJobs = 1
    MaxAttempts = 2
    MaxEpochs = 2
    MaxAsks = 2
    MaxFaults = 1
    MaxLaunches = 1
CHECK_DEADLOCK FALSE
SYMMETRY AccountSymmetry
INVARIANTS TypeOK ReadyFile OwnAccount LibraryWhole CheckpointBehind NobodyStuck
PROPERTY NotTurnedAway
