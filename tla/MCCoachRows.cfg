SPECIFICATION Spec
CONSTANTS
  NumSolvers = 2
  Features <- Two
  NumInstances = 7
  Inputs <- NoTestInputs
INVARIANT RowsAligned
