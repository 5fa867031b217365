SPECIFICATION Spec
CONSTANTS
  NumVars = 2
  ChunkLits = 3
  DefaultHeapSize = 24
  MaxHeaps = 6
  Files <- HardThenSoft
INVARIANT HardCounted
