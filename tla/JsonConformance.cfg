SPECIFICATION Spec
CONSTANTS
  None = None
  NumBits = 3
  Base = 3
  Frac = 2
  MaxText = 5
  MaxInt = 80
  Mantissa = 8
  Word = 64
  Str <- MCStr
  StrLen <- MCStrLen
  PatternOf <- MCPattern
  FormatOf <- MCFormat
  MaxSize = 200
  MaxStack = 8
  Numbers <- MCNumbers
  MAX_NESTING = 6
  MaxChars = 3
  MaxLength = 6
  Chars <- LarkChars
  CharCode <- LarkCharCode
  Fold <- LarkFold
  RegexOf <- LarkRegexOf
  CommonRegex <- LarkCommonRegex
  TokenText <- LarkTokenText
  SpecialTokens <- LarkSpecialTokens
  Jobs <- ConformanceJobs
  Universe <- MCUniverse
INVARIANT Conforms
CHECK_DEADLOCK FALSE
