CONSTANTS
  a = a
  x = x
  f = f
  g = g
  small = small
  other = other
  large = large
  Names <- MCOneName
  Arrays <- MCArrays
  Indices <- MCIndices
  FunctionNames <- MCFunctionNames
  Sizes <- MCSizes
  Bodies <- MCOneBody
  KeyLen = 1
  MaxVariableCount = 2
  MaxVariableBytes = 4
  MaxArrayEntries = 1
  MaxFunctionCount = 1
  MaxFunctionBytes = 2
  Trees <- MCTrees
  TreesWithinLimits <- MCTreesWithinLimits
  Candidates <- MCCandidates
  Features <- MCCommands
  MaxNest = 2
  MaxDrift = 0
  MaxChildren = 0
SPECIFICATION Spec
INVARIANTS TypeOK BudgetGuardsState OwnSnapshotFits
PROPERTY RestoreIsAllOrNothing
