CONSTANTS
    FileSize = 20
    Cores = 2
    ChunkSize = 2
    SegmentHint = 5
    Word = 128
    ReadMayFail = FALSE
    Storage <- MCStorage
SPECIFICATION Spec
INVARIANT ReadsItsBlock
