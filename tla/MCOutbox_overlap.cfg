SPECIFICATION Spec
CONSTANTS
  None = None
  Recipient = {r1, r2}
  Admin = None
  Pass = {scheduler, operator}
  Scheduler = scheduler
  MaxAttempts = 2
  RetryDelay = 1
  EscalateAfter = 1
  Retention = 1
  MaxMessages = 3
  MaxRearms = 1
  MaxCrashes = 0
  MaxSaveFailures = 0
SYMMETRY Symmetry
INVARIANTS TypeOK NoResend OneSenderPerRecipient InFlightIsOwed
PROPERTIES RearmedStaysDue AcknowledgedIsBooked
