SPECIFICATION OnboardSpec
CONSTANTS
  Person = {p1}
  User = {u1, u2}
  Group = {g1}
  Mail = {m1}
  None = None
  TTL = 1
  Payload <- MCPayload
  MaxBatch = 1
  MaxUpdates = 1
  MaxRuns = 1
  MaxMints = 2
  Horizon = 1
SYMMETRY Symmetry
VIEW Unrecorded
PROPERTY EditsItsOneSlot
CHECK_DEADLOCK FALSE
