SPECIFICATION LiveSpec
CONSTANTS
  Daemons = {d1, d2}
  Pullers = {p1}
  Workers = {}
  Stoppers = {s1}
  None = None
  Patient = TRUE
  MaxKills = 1
INVARIANT ServingIsReachable
INVARIANT SuccessMeansDone
PROPERTY EveryCommandEnds
PROPERTY ShutdownStops
CHECK_DEADLOCK FALSE
