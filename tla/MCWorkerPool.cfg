\* Two jobs over two threads, two slots, two attempts, two faults.
CONSTANTS
    MaxJobs = 2
    Threads = {t1, t2}
    NoThread = NoThread
    MaxAttempts = 2
    MaxApprovals = 1
    Slots = {s1, s2}
    TurnTimeout = FALSE
    StoreErrors = TRUE
    MaxFaults = 2
SYMMETRY Symmetry
SPECIFICATION Spec
INVARIANTS
    SingleOwner
    RetryBudget
    DeadLetterOnce
    FirstTurnsInOrder
    InflightIsLive
PROPERTIES
    StrandedOnlyByFault
    ImplementsLedger
CHECK_DEADLOCK FALSE
