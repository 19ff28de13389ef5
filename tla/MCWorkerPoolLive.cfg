\* Two jobs of one thread over two slots, one fault, no symmetry: liveness.
CONSTANTS
    MaxJobs = 2
    Threads = {t1}
    NoThread = NoThread
    MaxAttempts = 2
    MaxApprovals = 1
    Slots = {s1, s2}
    TurnTimeout = TRUE
    StoreErrors = FALSE
    MaxFaults = 1
SPECIFICATION FairSpec
PROPERTIES
    ShutdownDrains
    TurnLeavesSlot
    QueuedJobsSettle
CHECK_DEADLOCK FALSE
