CONSTANTS
  s1 = s1
  s2 = s2
  NoPath = NoPath
  NoLoader = NoLoader
  NoSnapshot = NoSnapshot
  NoCall = NoCall
  NoEntry = NoEntry
  Paths <- MCPaths
  Targets <- MCTargets
  StartDirs <- MCStartDirs
  Sizes <- MCSizes
  Lower <- MCLower
  Sessions <- MCAlone
  Operations <- MCDirectories
  MaxHidden = 2
  MaxFileSize = 3
  MaxTotalBytes = 5
  MaxFileCount = 3
  MaxDirCount = 5
  MaxSaved = 1
SPECIFICATION Spec
INVARIANT CombinedWithinLimits
