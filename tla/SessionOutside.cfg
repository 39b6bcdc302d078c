SPECIFICATION FairSpec
CONSTANTS
  Branch = {"b1"}
  Existing = {}
  MaxSessions = 3
  MaxDepth = 3
  Request = {r1}
  Worker = {w1}
  Stripes = 2
  Operation = {"worktree", "secondary", "delete", "project"}
  Hook = {TRUE}
  Declared = 1
  Failing = {"stat", "remove", "kill", "setup"}
  Outside = {"directory", "tmux"}
INVARIANTS
  WorktreesStayRecorded
PROPERTIES
  RequestsFinish
CHECK_DEADLOCK FALSE
