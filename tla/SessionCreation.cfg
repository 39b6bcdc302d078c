SPECIFICATION Spec
CONSTANTS
  Branch = {"b1", "b2"}
  Existing = {"b1"}
  MaxSessions = 10
  MaxDepth = 3
  Request = {r1}
  Worker = {w1}
  Stripes = 2
  Operation = {"worktree"}
  Hook = {TRUE, FALSE}
  Declared = 2
  Failing = {"add", "create", "setup", "acknowledge"}
  Outside = {}
INVARIANTS
  AllOrNothing
CHECK_DEADLOCK FALSE
