SPECIFICATION Spec
CONSTANTS
  Posts = {1, 2}
  Pages = {}
  Values = {1}
  Comments = {}
  Workers = {w1, w2}
  BatchSize = 1
  QuietSteps = TRUE
  MaxWrites = 1
  MaxSwitches = 0
  Operations = {o1, o2}
  Tokens = {1, 2, 3, 4, 5, 6, 7, 8, 9}
  NoId = NoId
SYMMETRY Symmetry
INVARIANTS
  CursorsLeaveNoGap
