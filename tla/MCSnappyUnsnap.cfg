\* Ring of 16 bytes loaded two by two, two batches of three symbols.  Before a
\* batch stores its position the word is the start of the stream or a position
\* that is ahead of the first batches and behind the later ones.  The block may
\* stop: see Terminates.
CONSTANTS
  Streams <- MCStreams
  WarpSize = 2
  PrefetchSize = 16
  PrefetchUnit = 2
  LiteralUnit = 2
  BatchSize = 3
  BatchCount = 2
  MaxTag = 2
  MaxShort = 1
  StaleRdpos = {0, 7}
SPECIFICATION Spec
INVARIANTS DecoderReads OutputRight WindowIntact
PROPERTIES BatchStays Terminates
CHECK_DEADLOCK FALSE
