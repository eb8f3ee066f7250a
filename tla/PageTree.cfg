CONSTANTS
  Pages = {p1, p2, p3}
  Requests = {r1, r2}
  MaxWrites = 3
SPECIFICATION TreeSpec
SYMMETRY Symmetry
INVARIANTS
  NoCycle
  ParentsAreLive
  FrontPageIsPublished
CHECK_DEADLOCK FALSE
