SPECIFICATION OnboardSpec
CONSTANTS
  Person = {p1}
  User = {u1, u2}
  Group = {g1}
  Mail = {m1}
  None = None
  TTL = 1
  Payload <- MCPayload
  MaxBatch = 2
  MaxUpdates = 2
  MaxRuns = 2
  MaxMints = 2
  Horizon = 1
SYMMETRY Symmetry
VIEW Unrecorded
INVARIANTS BindsOnce
PROPERTIES NewestBinds NeverLate
CHECK_DEADLOCK FALSE
