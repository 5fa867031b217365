SPECIFICATION Spec
CONSTANTS
  Files <- MCFiles
  Options <- MCOptions
  MaxCores = 6
  Infinity = 100
  None = None
INVARIANTS ReportsTrue ClausesKept
PROPERTIES Ends ImplementsBounds
