SPECIFICATION Spec
CHECK_DEADLOCK FALSE
CONSTANTS
  Features <- MCEval
  Scopes <- MCScopes
  ChildScope <- MCChildScope
  Args <- MCArgs
  Data <- MCData
  NoStdin <- MCNoStdin
  MaxCommands = 3
  MaxLoopIterations = 2
  MaxTotalLoopIterations = 2
  MaxFunctionDepth = 1
  MaxSubstDepth = 1
  MaxSessionCommands = 3
  MaxExecCalls = 2
  MaxStack = 4
INVARIANTS
  RecursionWithinLimit
