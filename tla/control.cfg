SPECIFICATION FlowSpec
CONSTANTS
  MaxRounds = 2
  Legal <- MCLegal
  Scripts <- MCScripts
INVARIANTS
  FlowsReachTheirTargets
PROPERTIES
  ImplementsShell
