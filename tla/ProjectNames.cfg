CONSTANTS
  Client = {c1, c2}
  Base <- BaseDef
  Branches <- BothBranchesDef
  MaxCommands = 4
  MaxFaults = 1
  Flag = {"yes"}
  Fault = {"git", "tmux", "config", "kill", "crash", "outside"}
SPECIFICATION Spec
INVARIANT NamesUnique
CHECK_DEADLOCK FALSE
