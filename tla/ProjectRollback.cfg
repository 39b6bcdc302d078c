CONSTANTS
  Client = {c1}
  Base <- OneBaseDef
  Branches <- NoBranchesDef
  MaxCommands = 2
  MaxFaults = 1
  Flag = {"unsaid"}
  Fault = {"crash"}
SPECIFICATION Spec
PROPERTY HarmlessRollback
CHECK_DEADLOCK FALSE
