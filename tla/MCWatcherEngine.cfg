SPECIFICATION FairSpec
CONSTANTS
  w1 = w1  w2 = w2
  a = a  b = b  c = c
  s = s  t = t
  Watchers = {w1, w2}
  Events = {a, b, c}
  Replies = {c}
  Senders = {s, t}
  SenderOf <- SenderOfEvent
  None = None
  EventChCap = 1
  TriageReqChCap = 1
  TriageQueueCap = 1
  TriageMaxPerHour = 1
  MaxEvents = 1
  Scenarios <- MCScenarios
INVARIANTS TriageIsPending SpawnedOnce RouterTracksFile
PROPERTIES VerdictStands EveryTriageSettles
\* The engine may wait for events and sessions for ever.
CHECK_DEADLOCK FALSE
