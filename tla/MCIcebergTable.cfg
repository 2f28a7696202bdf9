SPECIFICATION Spec
CONSTANTS
  Clients = {w1, w2}
  Fields = {"key", "value"}
  Values = {v1, v2}
  MaxCommits = 3
INVARIANTS TimeTravel NoLostUpdate DiffIsDelta
SYMMETRY Interchangeable
CHECK_DEADLOCK FALSE
