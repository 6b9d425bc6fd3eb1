CONSTANTS
  Callers = {c1}
  Disconnects = {d1}
  MaxAttempts = 1
  HostKeyPinned = TRUE
  Errors <- PlainErrors
SPECIFICATION Spec
CHECK_DEADLOCK FALSE
PROPERTIES
  DisconnectWaitsForClose
