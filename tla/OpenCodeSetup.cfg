SPECIFICATION Spec
CONSTANTS
  Shape <- AnyShape
  Fault = {"tmux", "lost", "early"}
INVARIANTS SuccessIsComplete InputComesBack PromptStays
PROPERTIES PromptGoesToVerified NobodyWaitsForever
CHECK_DEADLOCK FALSE
