SPECIFICATION FairSpec
CONSTANTS
  Posts = {}
  Pages = {1}
  Values = {1}
  Comments = {c1}
  Workers = {w1, w2}
  BatchSize = 1
  QuietSteps = TRUE
  MaxWrites = 1
  MaxSwitches = 0
  Operations = {o1}
  Tokens = {1, 2, 3, 4, 5, 6, 7}
  NoId = NoId
PROPERTIES
  PurgeSparesContent
  PurgeSparesUnseen
  ReviewIsReached
