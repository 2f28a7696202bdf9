SPECIFICATION FairSpec
CONSTANTS
  t1 = t1  t2 = t2
  s1 = s1  s2 = s2  s3 = s3
  d1 = d1  d2 = d2
  a = a  b = b  p = p
  Tasks = {t1, t2}
  Sources = {s1, s2, s3}
  Documents = {d1, d2}
  Texts = {a, b, p}
  Versions = {"hash", "e5"}
  Doc <- MCDoc
  Body <- MCBody
  Licensed = {s1, s3}
  Open = {s1, s2, s3}
  Private = {p}
  None = none
  Retries = 2
  MaxFaults = 2
INVARIANTS GovernedStore SuccessIsComplete RerunWritesNothing
PROPERTIES ImplementsChunkStore TasksEnd
