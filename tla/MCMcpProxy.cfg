SPECIFICATION FairSpec
CONSTANTS
  a = a  b = b
  Clients = {a, b}
  MaxAsks = 2
  MaxConns = 3
  MaxGens = 3
  Scenarios <- MCScenarios
  None = None
  Ask = Ask
INVARIANTS WayBackKnown ForeignAnswerHasCause
PROPERTIES DeadServerIsHeard RequestsAnswered
CHECK_DEADLOCK FALSE
