CONSTANTS
  slow = slow
  r1 = r1
  NoPath = NoPath
  NoLoader = NoLoader
  NoSnapshot = NoSnapshot
  Paths <- MCPaths
  Targets <- MCTargets
  StartDirs <- MCStartDirs
  Sizes <- MCSizes
  Loaders <- MCLoaders
  Hint <- MCHint
  LoadSize <- MCLoadSize
  Readers <- MCReaders
  MaxFileSize = 2
  MaxTotalBytes = 3
  MaxFileCount = 2
  MaxDirCount = 3
  MaxSaved = 2
SPECIFICATION Spec
INVARIANT LoaderCalledAtMostOnce
