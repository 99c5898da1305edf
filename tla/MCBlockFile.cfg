CONSTANTS
    MinFile = 0
    MaxFile = 50
    MaxCores = 5
    MaxChunk = 4
    Word = 128
    FileSizes <- MCFileSizes
    CoreCounts <- MCCoreCounts
    ChunkSizes <- MCChunkSizes
SPECIFICATION Spec
INVARIANTS
    SplitsAsSpecified
    BlocksTile
PROPERTY
    Terminates
