\* Two blocks of one two-warp group each, whose decompressor has barriers
\* inside (the Snappy launch), in a build without assertions (the default
\* build type); status words hold anything at first.
CONSTANTS
  GridDim = 2
  ChunksPerBlock = 1
  Warps = 2
  NumChunks = 3
  CorruptSets <- MCCorrupt
  Barriers = TRUE
  StatusWritten = TRUE
  Asserts = FALSE
  SharedStatus <- MCGarbage
SPECIFICATION Spec
INVARIANTS ArgsAgree Complete StatusTrue
PROPERTIES Terminates
