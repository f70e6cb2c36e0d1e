\* Two blocks of one single-warp group each (the LZ4 launch), more chunks
\* than groups, two sizes of chunks.
CONSTANTS
  GridDim = 2
  ChunksPerBlock = 1
  Warps = 1
  NumChunks = 4
  MaxCompChunkSize = 2
  StaleEntries <- MCStale
  SharedStatus <- MCUnwritten
SPECIFICATION Spec
INVARIANTS TypeOK ClaimedOnce Gapless ResultFits ResultComplete
PROPERTIES StoredStays ImplementsBatch
