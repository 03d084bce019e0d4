SPECIFICATION Spec
CONSTANTS
  Repos <- OneRepo
  Files <- OneFile
  MaxVersions = 2
  MaxQueue = 2
  Rescans = TRUE
  MaxFaults = 1
INVARIANT NoBlindSpot
PROPERTY EventLeadsToVisit
PROPERTY RescanConverges
PROPERTY AllAnnounced
CHECK_DEADLOCK FALSE
