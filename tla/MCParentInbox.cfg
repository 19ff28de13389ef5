SPECIFICATION Spec
CONSTANTS
  t1 = t1
  c1 = c1
  Tasks = {t1}
  Talkers = {c1}
  Daemon = Daemon
  None = None
  MaxRuns <- Twice
  Signal <- Distinct
  MaxAttempts = 1
  MaxBlocks = 1
  MaxFaults = 1
INVARIANTS CompletionKept LedgerIsHonest ActedOnce
CHECK_DEADLOCK FALSE
CONSTRAINT Bound
