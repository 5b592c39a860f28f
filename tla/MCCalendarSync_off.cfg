SPECIFICATION Spec
CONSTANTS
  Key = {k1}
  Person = {}
  Reachable = {}
  Fetcher = {auto}
  Scheduled = auto
  None = None
  Window = 1
  Back = 0
  Slack = 1
  Horizon = 1
  MaxEdits = 0
  MaxRestarts = 1
INVARIANT SwitchedOffFrees
CHECK_DEADLOCK FALSE
