\* Warps of three lanes, literals up to eight and copies up to seven bytes, a
\* window of 8 positions of which 5 are in reach, four buckets; buffers of the
\* calculated size, just too small, and of a size some streams fill exactly.
CONSTANTS
  Sources <- MCSources
  Capacities = {0, 8}
  WarpSize = 3
  MaxLiteral = 8
  MaxCopy = 7
  MaxDistance = 5
  Window = 8
  Buckets = 4
  Hash <- MCHash
SPECIFICATION Spec
INVARIANTS RoundTrip OutputBound ScansAgree
PROPERTIES Terminates
