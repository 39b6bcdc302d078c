CONSTANTS
  Client = {c1, c2}
  Base <- BaseDef
  Branches <- BranchMainDef
  MaxCommands = 2
  MaxFaults = 0
  Flag = {"yes"}
  Fault = {}
SPECIFICATION Spec
INVARIANTS QuietlyConsistent AdoptedOnce
CHECK_DEADLOCK FALSE
