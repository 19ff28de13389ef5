SPECIFICATION FairSpec
CONSTANTS
  t1 = t1
  c1 = c1
  Tasks = {t1}
  Talkers = {}
  Daemon = Daemon
  None = None
  MaxRuns <- Twice
  Signal <- Distinct
  MaxAttempts = 2
  MaxBlocks = 1
  MaxFaults = 2
PROPERTY EveryCompletionSettles
CHECK_DEADLOCK FALSE
