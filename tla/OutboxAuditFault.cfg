SPECIFICATION FaultSpec
CONSTANTS
  None = None
  Recipient = {r1, admin}
  Admin = admin
  Pass = {scheduler}
  Scheduler = scheduler
  MaxAttempts = 2
  RetryDelay = 1
  EscalateAfter = 1
  Retention = 1
  MaxMessages = 1
  MaxRearms = 0
  MaxCrashes = 0
  MaxSaveFailures = 0
PROPERTIES MutationsContinueInMemory
