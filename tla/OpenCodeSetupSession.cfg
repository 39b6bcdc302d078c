SPECIFICATION Spec
CONSTANTS
  Shape <- AnyShape
  Fault = {}
PROPERTIES SessionBehindDisabledInput
CHECK_DEADLOCK FALSE
