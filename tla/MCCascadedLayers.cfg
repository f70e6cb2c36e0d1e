CONSTANTS
    Lanes = 4
    TokenMax = 3
    LsicMax = 3
    OffsetByte = 5
    WordBytes = 2
    ThreadBlock = 2
    ChunkBytes = 64
    ByteBits = 4
    MaxHashTableSize = 4
    MaxChunkSize = 42
    ScratchBytes = 18
    Tile = 4
    ScratchFloor = 4
    GridBlock = 4
    BlockWidth = 4
    Jobs <- LayerJobs
SPECIFICATION Spec
INVARIANT
    RoundTrip
