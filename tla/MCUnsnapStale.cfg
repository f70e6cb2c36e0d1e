\* The words hold a position of an earlier, longer stream.
CONSTANTS
  Streams <- MCStreams
  WarpSize = 2
  PrefetchSize = 16
  PrefetchUnit = 2
  LiteralUnit = 2
  BatchSize = 3
  BatchCount = 2
  MaxTag = 2
  MaxShort = 1
  StaleRdpos = {99}
SPECIFICATION Spec
INVARIANTS OutputAlwaysRight
CHECK_DEADLOCK FALSE
