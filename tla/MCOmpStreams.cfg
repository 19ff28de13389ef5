SPECIFICATION Spec
CONSTANTS
  u1 = u1
  u2 = u2
  Users = {u1, u2}
  None = None
  ChanCap = 1
  InCap = 1
  MaxFrames <- TwoFrames
  Said = {"ready", "end"}
  Closers = {}
INVARIANTS CompletionIsOwn
CHECK_DEADLOCK FALSE
