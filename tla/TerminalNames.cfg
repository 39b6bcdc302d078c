SPECIFICATION Spec
CONSTANTS
  World <- MCWorld
  Habits <- MCHabits
  Initial = 4
  Branches = {"known", "new"}
  Names = {"", "n"}
  MaxCalls = 3
INVARIANT NamesNeverCross
CHECK_DEADLOCK FALSE
