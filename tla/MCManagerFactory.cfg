\* Up to three chunks of four bytes; the largest compressed chunk is that of
\* Snappy, 36 bytes.  A build with GDeflate and ANS.
CONSTANTS
  Bases <- MCBases
  MaxUncompSize = 12
  UncompChunkSize = 4
  MaxCompChunkSize = 36
  FormatSizes <- MCFormats
  Options <- MCOptions
  Built = {"gdeflate", "ans"}
  Ctas = {1, 3}
  AnsChunksPerCTA = 2
  AnsChunkTmpSize = 5
SPECIFICATION FSpec
INVARIANTS TypeOK ChunksTile SectionsApart ReaderAgrees ExcessBounded ScratchApart FactoryRebuilds
PROPERTIES ImplementsLayout
CHECK_DEADLOCK FALSE
