SPECIFICATION Spec
CONSTANTS
  MaxStarts = 2
  MaxTexts = 2
CHECK_DEADLOCK FALSE
PROPERTIES
  ExitNoticed
  DeliveredFirst
