SPECIFICATION FairSpec
CONSTANTS
    ChunkPlain = 2
    ChunkEncode = 3
    ChunkDecode = 4
    ChunkZlib = 2
    OutBuf = 2
    Inputs <- MCInputs
    Faults = {"read", "disk"}
INVARIANTS
    TypeOK
    EncodesAsInOnePiece
    FlatesExactly
    Base16Inverts
    Base64Inverts
    NewlineIsRefusedAfterAFullChunk
    WhichListsInOrder
    SuccessLosesABufferAtMost
PROPERTIES
    EveryRunEnds
