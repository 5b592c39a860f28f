SPECIFICATION Spec
CONSTANTS
  MaxLines = 2
  MaxMutations = 4
  Torn = Torn
INVARIANTS StateIsExplained TrailIsRecent
PROPERTY IsRegister
