CONSTANTS
  s1 = s1
  NoPath = NoPath
  NoLoader = NoLoader
  NoSnapshot = NoSnapshot
  NoCall = NoCall
  NoEntry = NoEntry
  Paths <- MCTwicePaths
  Targets <- MCTwiceTargets
  StartDirs <- MCStartDirs
  Sizes <- MCSizes
  MountPoints <- MCTwicePoints
  Operations <- MCMoves
  Arcs <- MCShared
  Sessions <- MCSessions
  MaxFileSize = 1
  MaxTotalBytes = 2
  MaxFileCount = 2
  MaxDirCount = 3
SPECIFICATION Spec
PROPERTY SharedMoveKeepsContent
