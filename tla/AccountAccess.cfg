SPECIFICATION Spec
CONSTANTS
  Users = {u1, u2}
  Requests = {r1, r2}
  Steps = {1}
  MaxSessions = 1
  MaxPasskeys = 1
  MaxSerial = 3
SYMMETRY Symmetry
INVARIANTS
  AdministratorRemains
  SessionsAreProven
  NoCredentialIsLeft
PROPERTIES
  StepUsedOnce
  SetupIsPaired
CHECK_DEADLOCK FALSE
