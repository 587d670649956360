SPECIFICATION Spec
CONSTANTS
  Posted = {"service_resume", "event"}
  MaxMessages = 3
  MaxDepth = 2
PROPERTIES
  ErrorIsFinal
CHECK_DEADLOCK FALSE
