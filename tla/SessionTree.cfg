SPECIFICATION Spec
CONSTANTS
  MaxSessions = 5
  MaxDepth = 4
INVARIANTS
  WellFormed
  WalksAgree
PROPERTIES
  SurvivorsKeepNearestAncestor
  RemovalIsExact
CHECK_DEADLOCK FALSE
