SPECIFICATION FairSpec
CONSTANTS
  d = d  s1 = s1  s2 = s2
  Procs = {d, s1, s2}
  Daemons = {d}
  None = None
  MaxExpiries = 1
  MaxFaults = 2
INVARIANTS TokenKept NoReplay
PROPERTIES TokenStaysWarm
\* Ticks go on for ever, or the token is warm and only sessions are left.
CHECK_DEADLOCK FALSE
