SPECIFICATION Spec
CONSTANTS
  Files <- MCFiles
  RestartAfter = 1
INVARIANTS
  SolverConsistent
  PropagationComplete
  TraceSound
PROPERTIES
  ImplementsOracle
  Ends
CHECK_DEADLOCK FALSE
