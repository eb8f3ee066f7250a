SPECIFICATION FairSpec
CONSTANTS
  Subscriptions = {1, 2}
  Requests = {r1, r2}
  Consumers = {c1}
  NoMessage = NoMessage
  PageSize = 2
  MaxAttempts = 2
  MaxDuplicates = 0
  MaxChanges = 0
  Failures = {"provider", "database"}
  RetriesSuffice = TRUE
CHECK_DEADLOCK FALSE
INVARIANT
  QueuedIsCovered
PROPERTY
  NotificationSettles
