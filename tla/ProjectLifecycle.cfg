CONSTANTS
  Client = {c1, c2}
  Base <- BaseDef
  Branches <- BranchesDef
  MaxCommands = 3
  MaxFaults = 1
  Flag = {"unsaid"}
  Fault = {"git", "tmux", "config", "kill", "crash", "outside"}
SPECIFICATION Spec
INVARIANTS QuietlyConsistent NamesUnique
PROPERTY CommandsFinish
CHECK_DEADLOCK FALSE
