SPECIFICATION Spec
CONSTANTS
  Letters <- MCLetters
  Tokens <- MCNegations
  MaxValue = 3
  MaxPattern = 2
  MaxGlobDepth = 12
  MaxGlobMatchCalls = 4
INVARIANTS
  NegationsMeanTheRest
CHECK_DEADLOCK FALSE
