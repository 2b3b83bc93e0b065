SPECIFICATION StraySpec
CONSTANTS
  Stray <- FailingLoop
PROPERTIES
  KeepsToShell
