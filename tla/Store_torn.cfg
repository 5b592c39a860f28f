SPECIFICATION Spec
CONSTANTS
  MaxLines = 2
  MaxMutations = 2
  Torn = Torn
INVARIANTS OnlyTornIsSkipped EveryChangeIsJournalled
CHECK_DEADLOCK FALSE
