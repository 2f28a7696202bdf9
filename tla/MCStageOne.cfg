SPECIFICATION FairSpec
CONSTANTS
  p = p  n = n  r1 = r1  r2 = r2
  Runs = {r1, r2}
  Events = {p, n}
  Topics = {"price", "news"}
  TopicOf <- MCTopicOf
  Deduplicated = {"price"}
  Retries <- MCRetries
  None = none
  MaxCopies = 2
  MaxFaults = 1
INVARIANTS EventsReachBronze OneBuild RecordsAreTrue
PROPERTIES RunsEnd
CONSTRAINT KindsInOrder
CHECK_DEADLOCK FALSE
