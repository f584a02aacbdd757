SPECIFICATION Spec
CONSTANTS
  NoByte = NoByte
  Unlimited = Unlimited
  Byte <- ZooBytes
  Lexeme <- ZooLexemes
  Rx <- MCRx
  NoMatch = NoMatch
  RxList <- MCRxListSkipOne
  Derivative <- MCDerivative
  Nullable <- MCNullable
  Lazy <- ZooLazy
  Symbol <- ZooSymbols
  Rule <- ZooRules
  StartSymbol = "start"
  LexemeOf <- ZooTerminals
  SkipLexeme = "SKIP"
  AllowInitialSkip = FALSE
  SkipOnce = TRUE
  MaxWord = 5
  MaxLexeme = 5
  MaxReference = 5
INVARIANTS AllowsExactlyViablePrefixes AcceptsExactlyWords
CHECK_DEADLOCK FALSE
