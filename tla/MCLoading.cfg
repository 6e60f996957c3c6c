SPECIFICATION LoadingSpec
CONSTANTS
  a = a
  literal = literal
  NoText = NoText
  Text <- MCText
  LiteralText <- MCLiteralText
  MaxFunctions = 3
INVARIANTS
  TokensLive
  ConstantsLive
CHECK_DEADLOCK FALSE
