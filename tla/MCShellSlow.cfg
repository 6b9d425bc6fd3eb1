CONSTANTS
  Commands = {c1, c2}
  Regex <- NoRegex
  Chunks <- NoChunks
  MaxPages = 1
  MaxPromptLength = 2
  MaxLine = 4
  MaxDepth = 0
  PausesAreShort = FALSE
  MaxWire = 2
SPECIFICATION DeviceSpec
SYMMETRY Symmetry
CHECK_DEADLOCK FALSE
PROPERTIES
  OneCommandOneResponse
