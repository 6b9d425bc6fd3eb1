CONSTANTS
  Callers = {c1}
  Execs = {}
  Disconnects = {d1, d2}
  MaxAttempts = 1
  HostKeyPinned = FALSE
  Errors <- PlainErrors
SPECIFICATION FairClientSpec
CHECK_DEADLOCK FALSE
PROPERTIES
  ConnectsAnswered
  BarrierIsLifted
