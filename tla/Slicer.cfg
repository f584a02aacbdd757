SPECIFICATION Spec
CONSTANTS
  FakeToken = 99
  Vocabularies <- MCVocabularies
  SliceLists <- MCSliceLists
  Languages <- MCLanguages
  Starts <- MCStarts
INVARIANTS StackIsPath MaskIsExact ExtensionFound
CHECK_DEADLOCK FALSE
