CONSTANTS
  a = a
  x = x
  f = f
  g = g
  small = small
  other = other
  large = large
  Names <- MCOneName
  Arrays <- MCArrays
  Indices <- MCIndices
  FunctionNames <- MCOneFunction
  Sizes <- MCSizes
  Bodies <- MCOneBody
  KeyLen = 1
  MaxVariableCount = 2
  MaxVariableBytes = 4
  MaxArrayEntries = 1
  MaxFunctionCount = 1
  MaxFunctionBytes = 1
  Trees <- MCTrees
  TreesWithinLimits <- MCOneTree
  Candidates <- MCNoCandidates
  Features <- MCChildren
  MaxNest = 2
  MaxDrift = 0
  MaxChildren = 1
SPECIFICATION Spec
PROPERTIES
  ChildrenLeaveEnvironment
  SubstitutionsLeaveLocals
