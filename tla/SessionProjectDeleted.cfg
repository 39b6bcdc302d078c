SPECIFICATION Spec
CONSTANTS
  Branch = {"b1", "b2"}
  Existing = {}
  MaxSessions = 3
  MaxDepth = 3
  Request = {r1, r2}
  Worker = {}
  Stripes = 2
  Operation = {"worktree", "nested", "project"}
  Hook = {FALSE}
  Declared = 0
  Failing = {}
  Outside = {}
INVARIANTS
  MainAlwaysThere
CHECK_DEADLOCK FALSE
