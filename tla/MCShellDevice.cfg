CONSTANTS
  Commands = {c1, c2, c3}
  Regex <- NoRegex
  Chunks <- NoChunks
  MaxPages = 2
  MaxPromptLength = 3
  MaxLine = 4
  MaxDepth = 1
  PausesAreShort = TRUE
  MaxWire = 2
SPECIFICATION DeviceSpec
SYMMETRY Symmetry
CHECK_DEADLOCK FALSE
INVARIANTS
  ShellTypeOK
  MarkerIsAnsweredOnce
  PromptWillSettle
  IdleShellIsAtPrompt
  IdentityIsPrompt
PROPERTIES
  OneCommandOneResponse
