SPECIFICATION Spec
CONSTANTS
  Target = {t1, t2}
  MaxAttempts = 2
  Retention = 1
  MaxRows = 3
  MaxTxns = 3
SYMMETRY Symmetry
INVARIANTS TypeOK CompleteIsTrue MissingIsShown EmptyIsTrue
PROPERTY DeletedOnlySettled
CHECK_DEADLOCK FALSE
