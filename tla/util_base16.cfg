SPECIFICATION Spec
CONSTANTS
    ChunkPlain = 2
    ChunkEncode = 3
    ChunkDecode = 4
    ChunkZlib = 2
    OutBuf = 2
    Inputs <- ReadmeInputs
    Faults = {}
INVARIANT
    HexadecimalIsDecoded
