SPECIFICATION Spec
CONSTANTS
  Daemons = {d1, d2}
  Pullers = {p1}
  Workers = {w1}
  Stoppers = {s1, s2}
  None = None
  Patient = FALSE
  MaxKills = 0
SYMMETRY Symmetry
INVARIANT TypeOK
INVARIANT StoreFreeForLockHolder
INVARIANT ServingIsReachable
INVARIANT SuccessMeansDone
CHECK_DEADLOCK FALSE
