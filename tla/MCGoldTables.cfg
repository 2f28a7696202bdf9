SPECIFICATION GoldSpec
CONSTANTS
  Null = Null
  Quarters = {1, 2, 3}
  Release <- MCRelease
  Profiles <- MCProfiles
  Moments = {2, 3, 4, 5, 6}
  Versions = {1, 2, 3}
  Attributes = {"technology", "banks", Null}
  MaxRows = 3
INVARIANTS PipelinesAgree NoLookAhead AsOfHistory
CHECK_DEADLOCK FALSE
