SPECIFICATION FairSpec
CONSTANTS
  Agent = {a1}
  None = None
  Shape <- AnyShape
  Fault = {"early", "tmux", "lost"}
INVARIANTS OnlyFaultsOrphan SetupIsKept
PROPERTIES GoneStaysGone FailedCreationsVanish RequestsReturn
CHECK_DEADLOCK FALSE
