SPECIFICATION FairSpec
CONSTANTS
  None = None
  Recipient = {admin}
  Admin = admin
  Pass = {scheduler, operator}
  Scheduler = scheduler
  MaxAttempts = 1
  RetryDelay = 1
  EscalateAfter = 1
  Retention = 1
  MaxMessages = 1
  MaxRearms = 1
  MaxCrashes = 1
  MaxSaveFailures = 1
INVARIANTS HealthyMeansDurable
PROPERTIES KeepsItsPromise QueuedIsAttempted StuckIsReported
