SPECIFICATION Spec
CONSTANTS
  Branch = {"b1", "b2"}
  Existing = {}
  MaxSessions = 3
  MaxDepth = 3
  Request = {r1}
  Worker = {}
  Stripes = 2
  Operation = {"secondary", "delete"}
  Hook = {FALSE}
  Declared = 0
  Failing = {}
  Outside = {"tmux"}
PROPERTIES
  KillsOnlyPlanned
CHECK_DEADLOCK FALSE
