CONSTANTS
    FileSize = 14
    Cores = 3
    ChunkSize = 2
    SegmentHint = 5
    Word = 128
    ReadMayFail = FALSE
    Storage <- MCStorage
SPECIFICATION Spec
PROPERTY SomethingIsLeft
