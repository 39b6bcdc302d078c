SPECIFICATION Spec
CONSTANTS
  Branch = {"b1"}
  Existing = {}
  MaxSessions = 4
  MaxDepth = 3
  Request = {r1, r2}
  Worker = {}
  Stripes = 2
  Operation = {"worktree", "delete"}
  Hook = {FALSE}
  Declared = 0
  Failing = {}
  Outside = {}
INVARIANTS
  OneSessionPerWorktree
CHECK_DEADLOCK FALSE
