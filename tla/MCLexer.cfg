SPECIFICATION Spec
CONSTANTS
  Alphabets <- MCAlphabets
  MaxText = 7
  MaxTokens = 2
INVARIANTS
  ReadInOrder
  LineIsRight
  TokensAreLongest
  ErrorsAreJust
PROPERTY
  Ends
CHECK_DEADLOCK FALSE
