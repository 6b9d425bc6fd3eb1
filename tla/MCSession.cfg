CONSTANTS
  Callers = {c1, c2, c3}
  Disconnects = {d1}
  MaxAttempts = 2
  HostKeyPinned = TRUE
  Errors <- SshErrors
SPECIFICATION Spec
SYMMETRY Symmetry
CHECK_DEADLOCK FALSE
INVARIANTS
  TypeOK
  NoLeakedTransport
  NoLeakedStream
  SingleOwner
  NoLostCaller
PROPERTIES
  StaleIsHarmless
  ClosedWasAskedFor
  HostKeyVerdict
  ImplementsConnection
