SPECIFICATION Spec
CONSTANTS
  NumSolvers = 2
  Features <- Two
  NumInstances = 7
  Inputs <- MCInputs
INVARIANTS SplitExact LabelsTellOfComplete TestMirrors ModelMatches SoundInputSucceeds
