SPECIFICATION Spec
CONSTANTS
  Runs = {r1}
  NDatasets = 2
  Retries = 2
  MaxFaults = 1
INVARIANT PublishedDataSurvives
CHECK_DEADLOCK FALSE
