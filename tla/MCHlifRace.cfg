\* One two-warp group and two chunks: the smallest launch in which one warp
\* claims the next chunk while the other still has to copy.
CONSTANTS
  GridDim = 1
  ChunksPerBlock = 1
  Warps = 2
  NumChunks = 2
  MaxCompChunkSize = 2
  StaleEntries <- MCStale
  SharedStatus <- MCUnwritten
SPECIFICATION Spec
INVARIANTS ResultComplete
