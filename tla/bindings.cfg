SPECIFICATION FairSpec
CONSTANTS
  Calls <- MCCalls
  Kind <- MCKind
  Signalled <- MCSignalled
  MaxCallbacks = 3
  HostOverlaps = FALSE
  None = None
INVARIANTS
  TypeOK
  FlagMeansCancel
PROPERTY
  EveryCallEnds
