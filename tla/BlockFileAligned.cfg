CONSTANTS
    MinFile = 20
    MaxFile = 50
    MaxCores = 2
    MaxChunk = 4
    Word = 128
    FileSizes <- MCFileSizes
    CoreCounts <- MCCoreCounts
    ChunkSizes <- MCChunkSizes
SPECIFICATION Spec
INVARIANT BlocksAreAligned
