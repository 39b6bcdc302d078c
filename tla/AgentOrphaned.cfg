SPECIFICATION FairSpec
CONSTANTS
  Agent = {a1}
  None = None
  Shape <- OwnedShape
  Fault = {"early"}
INVARIANT RunningIsRegistered
CHECK_DEADLOCK FALSE
