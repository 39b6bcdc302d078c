SPECIFICATION Spec
CONSTANTS
  Hook = {h1}
  Lingering = FALSE
  Closing = FALSE
  ReadErrors = FALSE
  ListErrors = FALSE
INVARIANTS
  SuccessIsReported
CHECK_DEADLOCK FALSE
