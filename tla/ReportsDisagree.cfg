SPECIFICATION Spec
CONSTANTS
  Conversation <- ConversationDef
  Parent <- ParentDef
  Yolo = TRUE
  Bounds <- BoundsDef
INVARIANT StatusFollowsDisplay
PROPERTY StatusesInOrder
CHECK_DEADLOCK FALSE
