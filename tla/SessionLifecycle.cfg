SPECIFICATION Spec
CONSTANTS
  Branch = {"b1", "b2"}
  Existing = {}
  MaxSessions = 3
  MaxDepth = 3
  Request = {r1, r2}
  Worker = {}
  Stripes = 2
  Operation = {"worktree", "nested", "secondary", "delete"}
  Hook = {FALSE}
  Declared = 0
  Failing = {"create", "remove"}
  Outside = {}
INVARIANTS
  TopologyStaysValid
  NothingStray
  RollbackTakesItsOwn
SYMMETRY AnyRequest
CHECK_DEADLOCK FALSE
