SPECIFICATION Spec
CONSTANTS
  NoByte = NoByte
  Unlimited = Unlimited
  Never = Never
  NoCache = NoCache
  Byte <- ListBytes
  Lexeme <- ListLexemes
  Rx <- MCRx
  NoMatch = NoMatch
  RxList <- MCRxListSkip
  Derivative <- MCDerivative
  Nullable <- MCNullable
  Lazy <- ListLazy
  Symbol <- ListSymbols
  Rule <- ListRules
  StartSymbol = "start"
  LexemeOf <- ListTerminals
  SkipLexeme = "SKIP"
  Tokens <- ListTokens
  AllowInitialSkip = FALSE
  SkipOnce = FALSE
  RollbackUsed = FALSE
  EosUsed = FALSE
  StepMaxRows = 2
  MaxBytes = 4
  MaxWalk = 2
  MaxItemsInRow = 100
INVARIANTS ChartIsReplay BiasCacheFresh
