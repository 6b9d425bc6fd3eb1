CONSTANTS
  Callers = {e1, c1}
  Execs = {e1}
  Disconnects = {d1, d2}
  MaxAttempts = 2
  HostKeyPinned = FALSE
  Errors <- PlainErrors
SPECIFICATION ClientSpec
SYMMETRY Symmetry
VIEW LiveState
CHECK_DEADLOCK FALSE
INVARIANTS
  AcceptsWhenIdle
PROPERTIES
  DisconnectIsABarrier
