SPECIFICATION Spec
CONSTANTS
  Byte <- MCByte
  Tokens <- MCTokens
  StopTokens = {"eos"}
  Resets = {"special", "empty", "eos"}
  TextOf <- MCTextOf
  StopSets <- MCStopSets
  CharLen <- MCCharLen
  MaxTokens = 5
INVARIANTS NothingLost StopsBeforeFirstMatch WholeCharacters HeldBackForCause
CHECK_DEADLOCK FALSE
