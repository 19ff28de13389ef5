\* A loop start, a spec and one command more, one fault, two slots.
CONSTANTS
    MaxJobs = 4
    MaxTries = 2
    MaxSlots = 2
    MaxSpecs = 2
    MaxRuns = 3
    Modes = {"until_done", "manual", "watcher"}
    Caps = {1}
    Starters = {c1}
    MaxCommands = 3
    MaxFaults = 1
    StoreErrors = TRUE
SPECIFICATION Spec
INVARIANTS
    TurnsNeverMultiply
    TurnsCounted
    CapNearlyKept
PROPERTIES
    NoSilentStall
CHECK_DEADLOCK FALSE
