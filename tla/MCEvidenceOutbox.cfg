SPECIFICATION FairSpec
CONSTANTS
  Sessions = {s1}
  Keys = {k1, k2}
  MaxTransitions = 2
  MaxRequests = 2
  Workers = {w1, w2}
  BatchSize = 2
  MaxAttempts = 2
  MaxDisruptions = 1
  MaxSignals = 1
INVARIANTS HealthyBatchesDisjoint StopReportsBatch
PROPERTIES DoneWasCurrent HealthyOutcomeIsFinal EveryEventSettles
CHECK_DEADLOCK FALSE
