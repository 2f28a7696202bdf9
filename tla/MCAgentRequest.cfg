SPECIFICATION FairSpec
CONSTANTS
  q1 = q1  q2 = q2
  c1 = c1  c2 = c2
  None = none
  Requests = {q1, q2}
  Hops <- MCHops
  MaxHops = 2
  MaxParallel = 2
  Chunk <- MCChunk
  Stored = {c1}
  Citable = {c1}
  MaxCalls = 2
  Valid <- MCValid
  Granted <- MCValid
INVARIANTS OutcomeIsSound TelemetryIsTrue
PROPERTIES RequestsEnd
