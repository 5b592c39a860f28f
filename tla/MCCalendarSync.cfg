SPECIFICATION FairSpec
CONSTANTS
  Key = {k1, k2}
  Person = {p}
  Reachable = {p}
  Fetcher = {auto}
  Scheduled = auto
  None = None
  Window = 1
  Back = 0
  Slack = 1
  Horizon = 1
  MaxEdits = 1
  MaxRestarts = 1
INVARIANTS CalledOffStaysOff AskedOnce PagedOncePerEpisode
PROPERTIES AgreesAgain
CHECK_DEADLOCK FALSE
