SPECIFICATION FairSpec
CONSTANTS
  NoLease = NoLease
  Abandoned = Abandoned
  Targets = {t1}
  Drains = {d1, d2}
  MaxRevision = 4
  ClaimLimit = 2
  DrainsWithinLease = TRUE
INVARIANTS
  NoLostProjection
PROPERTIES
  ImplementsReplication
  EventuallyProjected
