SPECIFICATION FairSpec
CONSTANTS
  Hook = {h1, h2}
  Lingering = TRUE
  Closing = TRUE
  ReadErrors = TRUE
  ListErrors = TRUE
INVARIANTS
  FailureNeverSucceeds
  ConfirmedBeforeCleanup
PROPERTIES
  WaitReturns
CHECK_DEADLOCK FALSE
