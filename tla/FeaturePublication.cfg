SPECIFICATION FairSpec
CONSTANTS
  Runs = {r1, r2}
  NDatasets = 2
  Retries = 1
  MaxFaults = 2
INVARIANTS OnlyGatedData PromotionIsWhole
PROPERTIES RunsEnd
CHECK_DEADLOCK FALSE
