SPECIFICATION Spec
CONSTANTS
    Accounts = {a, b}
    NoAccount = NoAccount
    Readers = {r}
    Walker = w
    PageCount = 2
    MaxPendingJobs = 1
    MaxAttempts = 2
    MaxEpochs = 2
    MaxAsks = 1
    MaxFaults = 0
    MaxLaunches = 1
CHECK_DEADLOCK FALSE
INVARIANT KeysCanonical
