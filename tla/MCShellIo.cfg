CONSTANTS
  Commands = {c1, c2}
  Regex <- HashRegex
  Chunks <- ShellChunks
  MaxPages = 1
  MaxPromptLength = 2
  MaxLine = 2
  MaxDepth = 0
SPECIFICATION FairShellSpec
CHECK_DEADLOCK FALSE
INVARIANTS
  NoPromiseIsLost
  NoStaleTimer
  NoCommandInResync
  KeysAreTypedOnce
  MarkerIsAnsweredOnce
PROPERTIES
  ImplementsCommandShell
  CallsAreAnswered
