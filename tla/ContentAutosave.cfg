SPECIFICATION FairSpec
CONSTANTS
  Calls = {c1, c2, c3}
  OtherTab = tab
  Promotable = {2}
  MaxTexts = 2
  MaxPages = 2
  MaxSaves = 1
  MaxDisturbances = 2
CHECK_DEADLOCK FALSE
INVARIANTS
  RecoverableIsStored
  NoOlderCopy
  ConflictIsReal
PROPERTIES
  PromotionIsExclusive
  ChangesGetStored
