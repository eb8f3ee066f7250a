SPECIFICATION FairSpec
CONSTANTS
  old = old
  current = current
  Artifacts <- Backups
  Version <- BackupVersion
  Chunks <- BackupChunks
  Newest = 3
  Releases = {2, 3}
  Ids = {i1, i2}
  NoId = NoId
  Requests = {r1, r2}
INVARIANTS
  SchemaMatchesVersion
  NeverStranded
  AckedIsStored
PROPERTIES
  ImplementsLifecycle
  UpgradeEnds
