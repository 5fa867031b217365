CONSTANTS
  NB_VAR = 5
  Files <- MCFiles
SPECIFICATION Spec
INVARIANT FormulaExact
PROPERTY FindsBest
