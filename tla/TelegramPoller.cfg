SPECIFICATION PollerFairSpec
CONSTANTS
  Payload = {u}
  MaxBatch = 2
  MaxUpdates = 4
  MaxRuns = 3
INVARIANTS PollerTypeOK HandledInOrder
PROPERTIES NeverLate AppliedWhileUp
CHECK_DEADLOCK FALSE
