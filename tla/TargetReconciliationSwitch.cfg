SPECIFICATION Spec
CONSTANTS
  Posts = {1}
  Pages = {}
  Values = {1}
  Comments = {}
  Workers = {w1, w2}
  BatchSize = 2
  QuietSteps = TRUE
  MaxWrites = 3
  MaxSwitches = 1
  Operations = {o1}
  Tokens = {1, 2, 3, 4, 5, 6, 7, 8, 9}
  NoId = NoId
SYMMETRY Symmetry
INVARIANTS
  TrackedIsCovered
PROPERTIES
  CompletionIsTruthful
