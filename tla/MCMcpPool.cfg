SPECIFICATION FairSpec
CONSTANTS
  d1 = d1  d2 = d2
  Decks = {d1, d2}
  MaxProxies = 7
  MaxTotalFailures = 2
  Scenarios <- MCScenarios
INVARIANTS NothingForgotten LonePathKept
PROPERTIES PermanentIsFinal DeadIsRetried
\* All servers and decks may have ended.
CHECK_DEADLOCK FALSE
