SPECIFICATION Spec
CONSTANTS
  Week = 3
  FirstOf <- SmallCalendar
  MonthsPerYear = 3
  MaxInterval = 9
  MaxCount = 9
  EventSteps = 56
  FeedSteps = 100
  None = None
  Cancelled = Cancelled
  Feeds <- AllFeeds
  Windows <- SmallWindows
INVARIANTS ExpandsTheSeries OwnAllowance
CHECK_DEADLOCK FALSE
