SPECIFICATION Spec
CONSTANTS
  Subscriptions = {1}
  Requests = {r1}
  Consumers = {c1, c2}
  NoMessage = NoMessage
  PageSize = 2
  MaxAttempts = 2
  MaxDuplicates = 1
  MaxChanges = 2
  Failures = {"eviction", "database", "lostReply", "provider", "maintenance"}
  RetriesSuffice = FALSE
CHECK_DEADLOCK FALSE
SYMMETRY Symmetry
INVARIANTS
  MailedOncePerAttempt
PROPERTIES
  SettledIsFinal
  OptOutIsRespected
