SPECIFICATION Spec
CONSTANTS
  NoByte = NoByte
  Unlimited = Unlimited
  Never = Never
  NoCache = NoCache
  Byte <- ParenBytes
  Lexeme <- ParenLexemes
  Rx <- MCRx
  NoMatch = NoMatch
  RxList <- MCRxList
  Derivative <- MCDerivative
  Nullable <- MCNullable
  Lazy <- NoLazy
  Symbol <- ParenSymbols
  Rule <- ParenRules
  StartSymbol = "start"
  LexemeOf <- ParenTerminals
  SkipLexeme = "SKIP"
  Tokens <- ParenTokens
  AllowInitialSkip = FALSE
  SkipOnce = FALSE
  RollbackUsed = TRUE
  EosUsed = TRUE
  StepMaxRows = 0
  MaxBytes = 3
  MaxWalk = 2
  MaxItemsInRow = 100
INVARIANTS TypeOK ChartIsReplay LexerBytesInvariant RowInfosMatchRows ValidRowsAreCoherent ForceCacheFresh ForcedBytesAreForced NoLexemeLeftBehind
PROPERTY WalkLeavesNoTrace
