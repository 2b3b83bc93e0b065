CONSTANTS
  s1 = s1
  NoPath = NoPath
  NoLoader = NoLoader
  NoSnapshot = NoSnapshot
  NoCall = NoCall
  NoEntry = NoEntry
  Paths <- MCPaths
  Targets <- MCTargets
  StartDirs <- MCStartDirs
  Sizes <- MCSizes
  MountPoints <- MCMountPoints
  Arcs <- MCWrapped
  Sessions <- MCSessions
  MaxFileSize = 1
  MaxTotalBytes = 2
  MaxFileCount = 2
  MaxDirCount = 3
  Operations <- MCChanges
SPECIFICATION Spec
INVARIANTS TypeOK ListingAgrees
PROPERTIES OnlyNamedTreesChange MoveKeepsContent
