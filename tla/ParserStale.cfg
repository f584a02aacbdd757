SPECIFICATION Spec
CONSTANTS
  NoByte = NoByte
  Unlimited = Unlimited
  Never = Never
  NoCache = NoCache
  Byte <- StaleBytes
  Lexeme <- StaleLexemes
  Rx <- MCRx
  NoMatch = NoMatch
  RxList <- MCRxList
  Derivative <- MCDerivative
  Nullable <- MCNullable
  Lazy <- NoLazy
  Symbol <- StaleSymbols
  Rule <- StaleRules
  StartSymbol = "start"
  LexemeOf <- StaleTerminals
  SkipLexeme = "SKIP"
  Tokens <- StaleTokens
  AllowInitialSkip = FALSE
  SkipOnce = FALSE
  RollbackUsed = TRUE
  EosUsed = FALSE
  StepMaxRows = 0
  MaxBytes = 3
  MaxWalk = 1
  MaxItemsInRow = 100
INVARIANT BiasCacheFresh
