SPECIFICATION Spec
CONSTANTS
  Branch = {"b1", "b2"}
  Existing = {}
  MaxSessions = 5
  MaxDepth = 2
  Request = {r1}
  Worker = {}
  Stripes = 1
  Operation = {"worktree", "nested", "secondary", "delete"}
  Hook = {FALSE}
  Declared = 1
  Failing = {"setup"}
  Outside = {"directory"}
PROPERTIES
  RefinesTree
CHECK_DEADLOCK FALSE
