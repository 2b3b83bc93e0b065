SPECIFICATION FairSpec
CHECK_DEADLOCK FALSE
CONSTANTS
  Features <- MCEverything
  Scopes <- MCScopes
  ChildScope <- MCChildScope
  Args <- MCArgs
  Data <- MCData
  NoStdin <- MCNoStdin
  MaxCommands = 2
  MaxLoopIterations = 1
  MaxTotalLoopIterations = 1
  MaxFunctionDepth = 1
  MaxSubstDepth = 1
  MaxSessionCommands = 3
  MaxExecCalls = 2
  MaxStack = 3
INVARIANTS
  TypeOK
  OverrunBounded
  CleanExecsLeaveNothing
PROPERTIES
  ExecTerminates
