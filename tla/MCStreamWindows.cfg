SPECIFICATION FairSpec
CONSTANTS
  Records <- MCRecords
  MaxLog = 3
  Window = 2
  OutOfOrderness = 1
  Lateness = 2
  MaxCrashes = 1
INVARIANTS CountsAreExact OracleIsStricter
PROPERTIES JobEnds
