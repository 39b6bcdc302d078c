SPECIFICATION Spec
CONSTANTS
  World <- MCWorld
  Habits <- MCHabits
  Initial = 4
  Branches = {"known", "new"}
  Names = {"", "n"}
  MaxCalls = 2
INVARIANTS AcknowledgedStays NamesReachTheirAgent
PROPERTIES SelectionSurvives ScreenCatchesUp
CHECK_DEADLOCK FALSE
