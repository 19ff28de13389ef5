\* Two jobs of one thread over two slots, no faults.
CONSTANTS
    MaxJobs = 2
    Threads = {t1}
    NoThread = NoThread
    MaxAttempts = 2
    MaxApprovals = 1
    Slots = {s1, s2}
    TurnTimeout = FALSE
    StoreErrors = FALSE
    MaxFaults = 0
SPECIFICATION Spec
INVARIANT ThreadsSerialized
CHECK_DEADLOCK FALSE
