SPECIFICATION StraySpec
CONSTANTS
  Stray <- FailingLine
PROPERTIES
  KeepsToShell
