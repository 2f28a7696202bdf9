SPECIFICATION FairSpec
CONSTANTS
  Planes = {"off", "inference", "coordinator"}
  RouteTimeout = 3
  PlatformLimit = 4
  ClientTimeout = 5
  MaxChunks = 2
INVARIANTS StreamTypeOK RequestAuditedOnce TurnIsHonest
PROPERTIES RequestEnds
CHECK_DEADLOCK FALSE
