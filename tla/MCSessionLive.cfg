CONSTANTS
  Callers = {c1, c2}
  Disconnects = {d1}
  MaxAttempts = 2
  HostKeyPinned = TRUE
  Errors <- PlainErrors
SPECIFICATION FairSpec
CHECK_DEADLOCK FALSE
PROPERTIES
  CallersAnswered
  DisconnectsReturn
