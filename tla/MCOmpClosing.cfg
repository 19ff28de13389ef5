SPECIFICATION FairSpec
CONSTANTS
  u1 = u1
  u2 = u2
  Users = {u1}
  None = None
  ChanCap = 1
  InCap = 1
  MaxFrames <- ThreeFrames
  Said = {"ready", "call", "end", "error", "long"}
  Closers = {u1}
INVARIANTS NoPanic StreamIsPrefix
PROPERTIES ExitIsHeard LockWaitEnds EndIsHeard
CHECK_DEADLOCK FALSE
