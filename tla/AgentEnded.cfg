SPECIFICATION FairSpec
CONSTANTS
  Agent = {a1}
  None = None
  Shape <- AnyShape
  Fault = {}
INVARIANT EndedAgentsLeave
CHECK_DEADLOCK FALSE
