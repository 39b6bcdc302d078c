SPECIFICATION Spec
CONSTANTS
  Conversation <- ConversationDef
  Parent <- ParentDef
  Yolo = TRUE
  Bounds <- BoundsDef
INVARIANTS
  StatusIsTrue
PROPERTIES
  ConversationNeverGoesBack
  ConversationArrives
CHECK_DEADLOCK FALSE
