\* Three configs, so that the pool of one word grows twice; a compression and
\* a decompression fit into the queue together.
CONSTANTS
  c1 = c1
  c2 = c2
  c3 = c3
  b1 = b1
  b2 = b2
  Configs <- MCConfigs
  MaxRefs = 2
  CompBuffers <- MCCompBuffers
  UserScratch = {"u"}
  Prealloc = 1
  Realloc = 1
  MaxQueue = 5
SYMMETRY MCSymmetry
SPECIFICATION Spec
INVARIANTS WordsApart StatusOwn KernelReady ScratchOwned
CHECK_DEADLOCK FALSE
