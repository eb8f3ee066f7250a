SPECIFICATION FairSpec
CONSTANTS
  Uploads = {u1}
  Requests = {r1, r2, r3}
  Cleaners = {c1, c2}
  Failures = {"eviction", "database", "lostReply", "compensation", "cleanup"}
CHECK_DEADLOCK FALSE
INVARIANTS
  ObjectsAreTracked
PROPERTIES
  RemovalIsFinal
  ImplementsLifecycle
  ObjectsSettle
