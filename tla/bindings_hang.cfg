SPECIFICATION Spec
CONSTANTS
  Calls <- MCCalls
  Kind <- MCKind
  Signalled <- MCSignalled
  MaxCallbacks = 3
  HostOverlaps = TRUE
  None = None
INVARIANTS
  LoopNeverWaitsForItself
