SPECIFICATION Spec
CONSTANTS
  Branch = {"b1", "b2"}
  Existing = {}
  MaxSessions = 4
  MaxDepth = 3
  Request = {r1}
  Worker = {w1}
  Stripes = 2
  Operation = {"worktree", "nested", "secondary"}
  Hook = {TRUE}
  Declared = 1
  Failing = {}
  Outside = {}
PROPERTIES
  SuccessIsKept
CHECK_DEADLOCK FALSE
