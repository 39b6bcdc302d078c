SPECIFICATION FairSpec
CONSTANTS
  Hook = {h1}
  Lingering = TRUE
  Closing = FALSE
  ReadErrors = FALSE
  ListErrors = FALSE
PROPERTIES
  TimeoutEnforced
CHECK_DEADLOCK FALSE
