SPECIFICATION Spec
CONSTANTS
  None = None
  Recipient = {r1}
  Admin = None
  Pass = {scheduler}
  Scheduler = scheduler
  MaxAttempts = 2
  RetryDelay = 1
  EscalateAfter = 1
  Retention = 1
  MaxMessages = 2
  MaxRearms = 0
  MaxCrashes = 0
  MaxSaveFailures = 0
PROPERTIES OrderPerRecipient
