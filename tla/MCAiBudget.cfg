SPECIFICATION Spec
CONSTANTS
  Users = {u1}
  Calls = {c1, c2, c3}
  QuotaLimit = 3
  QuotaWindow = 4
  RateLimit = 2
  RateWindow = 2
  MaxDelay = 2
  MaxTime = 8
INVARIANTS WithinLimits
PROPERTIES RefusalsAreJustified
SYMMETRY Interchangeable
CHECK_DEADLOCK FALSE
