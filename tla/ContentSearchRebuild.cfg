SPECIFICATION FairSpec
CONSTANTS
  PostIds = {1, 2}
  PageIds = {1}
  Workers = {w1, w2}
  Searches = {s1}
  BatchSize = 1
  MaxWrites = 2
  MaxStarts = 2
  MaxResets = 1
  MaxEvictions = 1
CHECK_DEADLOCK FALSE
INVARIANTS
  EntriesAreCurrent
  ReadyIsComplete
  SearchIsComplete
PROPERTY
  RebuildEnds
