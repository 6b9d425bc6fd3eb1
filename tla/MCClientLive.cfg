CONSTANTS
  Callers = {e1, e2}
  Execs = {e1, e2}
  Disconnects = {}
  MaxAttempts = 2
  HostKeyPinned = FALSE
  Errors <- PlainErrors
SPECIFICATION FairClientSpec
CHECK_DEADLOCK FALSE
PROPERTIES
  ExecsAnswered
