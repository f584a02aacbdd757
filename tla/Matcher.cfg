SPECIFICATION Spec
CONSTANTS
  NoByte = NoByte
  Unlimited = Unlimited
  Never = Never
  None = None
  EOS = EOS
  MatcherError = MatcherError
  Byte <- KeyBytes
  Lexeme <- KeyLexemes
  Rx <- MCRx
  NoMatch = NoMatch
  RxList <- MCRxList
  Derivative <- MCDerivative
  Nullable <- MCNullable
  Lazy <- NoLazy
  Symbol <- KeySymbols
  Rule <- KeyRules
  StartSymbol = "start"
  LexemeOf <- KeyTerminals
  SkipLexeme = "SKIP"
  AllowInitialSkip = FALSE
  SkipOnce = FALSE
  Tokens <- KeyTokens
  Batches <- TidyBatches
  MaxTokensTotal = 3
  MaxTokenLookback = 4
  MaxBytes = 8
  MaxLexeme = 8
  MaxReference = 12
INVARIANTS RollbackIsUndo MaskIsExact CanonicalTokenAllowed CachesFresh
PROPERTY KeepsPromise
