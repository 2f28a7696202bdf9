SPECIFICATION SessionSpec
CONSTANTS
  Sessions = {s1, s2}
  Keys = {k1, k2}
  MaxTransitions = 3
  MaxRequests = 3
INVARIANTS RequestAppliedAtMostOnce TransitionLeavesSeenState CurrentEventIsNewest HistoryHoldsForms
PROPERTIES ImplementsSessionMachine
SYMMETRY Interchangeable
CHECK_DEADLOCK FALSE
