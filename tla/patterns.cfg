SPECIFICATION Spec
CONSTANTS
  Letters <- MCLetters
  Tokens <- MCTokens
  MaxValue = 4
  MaxPattern = 3
  MaxGlobDepth = 12
  MaxGlobMatchCalls = 4
INVARIANTS
  MatchesAreExact
  RemovalsAreExact
CHECK_DEADLOCK FALSE
