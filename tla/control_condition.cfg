SPECIFICATION StraySpec
CONSTANTS
  Stray <- ExitInCondition
PROPERTIES
  KeepsToShell
