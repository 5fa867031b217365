SPECIFICATION Spec
CONSTANTS
  NumVars = 2
  ChunkLits = 3
  DefaultHeapSize = 24
  MaxHeaps = 6
  Files <- MCFiles
INVARIANTS CountsTrue SearchReads HardOutweighs HeapSound
PROPERTY Ends
