SPECIFICATION Spec
CONSTANTS
  SessionID = {1}
  ProjectID = {1}
  ProjectOf <- OneSession
  Key = {web}
  Range <- TwoPorts
  Caller = {c1}
  Stripes = 1
  MaxLeases = 2
  Deleters = {"DeleteSession"}
  LateCalls = TRUE
INVARIANTS
  HookLeaseRegistered
CHECK_DEADLOCK FALSE
