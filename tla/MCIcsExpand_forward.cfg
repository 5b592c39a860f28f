SPECIFICATION Spec
CONSTANTS
  Week = 3
  FirstOf <- SmallCalendar
  MonthsPerYear = 3
  MaxInterval = 9
  MaxCount = 9
  EventSteps = 200
  FeedSteps = 500
  None = None
  Cancelled = Cancelled
  Feeds <- ForwardFeeds
  Windows <- SmallWindows
INVARIANT BroughtForwardIsGiven
CHECK_DEADLOCK FALSE
