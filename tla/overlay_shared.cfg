CONSTANTS
  s1 = s1
  s2 = s2
  NoPath = NoPath
  NoLoader = NoLoader
  NoSnapshot = NoSnapshot
  NoCall = NoCall
  NoEntry = NoEntry
  Paths <- MCPaths
  Targets <- MCTargets
  StartDirs <- MCStartDirs
  Sizes <- MCSizes
  Lower <- MCLower
  Sessions <- MCTwo
  Operations <- MCRoles
  MaxHidden = 3
  MaxFileSize = 3
  MaxTotalBytes = 5
  MaxFileCount = 2
  MaxDirCount = 5
  MaxSaved = 0
SPECIFICATION Spec
INVARIANTS WhiteoutsHideSomething
PROPERTY OthersUndisturbed
