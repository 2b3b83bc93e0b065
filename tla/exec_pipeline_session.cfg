SPECIFICATION Spec
CHECK_DEADLOCK FALSE
CONSTANTS
  Features <- MCPipeline
  Scopes <- MCScopes
  ChildScope <- MCChildScope
  Args <- MCArgs
  Data <- MCData
  NoStdin <- MCNoStdin
  MaxCommands = 8
  MaxLoopIterations = 2
  MaxTotalLoopIterations = 2
  MaxFunctionDepth = 1
  MaxSubstDepth = 1
  MaxSessionCommands = 2
  MaxExecCalls = 2
  MaxStack = 2
INVARIANTS
  SessionStopsAtOnce
