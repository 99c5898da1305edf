CONSTANTS
    FileSize = 14
    Cores = 2
    ChunkSize = 2
    SegmentHint = 4
    Word = 128
    ReadMayFail = FALSE
    WriteMayFail = FALSE
    Storage <- MCStorage
SPECIFICATION Spec
INVARIANT
    AllSegmentsWritten
