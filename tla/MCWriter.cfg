CONSTANTS
    FileSize = 23
    Cores = 3
    ChunkSize = 2
    SegmentHint = 4
    Word = 128
    WriteMayFail = TRUE
    Storage <- MCStorage
    Planned <- MCPlanned
SPECIFICATION Spec
INVARIANTS
    SortedAndCounted
    CompleteOnSuccess
PROPERTIES
    LateReportsAreErrors
    Reports
