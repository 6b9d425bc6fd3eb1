CONSTANTS
  Callers = {e1, e2, e3}
  Execs = {e1, e2, e3}
  Disconnects = {d1}
  MaxAttempts = 2
  HostKeyPinned = FALSE
  Errors <- PlainErrors
SPECIFICATION ClientSpec
SYMMETRY Symmetry
VIEW LiveState
CHECK_DEADLOCK FALSE
INVARIANTS
  ClientTypeOK
  OneCommandPerShell
  NoCommandIsAbandoned
PROPERTIES
  AbortedIsNotWritten
