CONSTANTS
  Workers = {w1, w2}
  LastChunk = 2
  Regions = {{1}, {2}}
  Windows <- BothChunks
  MaxVersion = 1
  MaxLoads = 2
SPECIFICATION Spec
INVARIANTS
  CacheNotOlderThanHash
  PreloadIsComplete
  WaitersAreServed
CHECK_DEADLOCK FALSE
SYMMETRY WorkerSymmetry
