SPECIFICATION Spec
CONSTANTS
  World <- MCWorld
  Habits <- MCHabits
  Initial = 4
  Branches = {"known", "new"}
  Names = {"", "n"}
  MaxCalls = 2
PROPERTY ConflictKeepsItsCreation
CHECK_DEADLOCK FALSE
