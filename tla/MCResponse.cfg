CONSTANTS
  Command <- TwoWords
  Previous <- PromptA
  Current <- PromptB
  Bytes <- Kinds
  MaxChunk = 2
  MaxWraps = 2
  MaxOutput = 2
  MaxSilent = 4
SPECIFICATION ResponseSpec
CHECK_DEADLOCK FALSE
INVARIANTS
  ChunksDoNotMatter
  LineIsDisplayed
  SnapshotIsClean
  StdoutIsTheOutput
  OnlyTheEchoIsLost
