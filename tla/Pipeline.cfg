CONSTANTS
    FileSize = 12
    Cores = 2
    ChunkSize = 3
    SegmentHint = 5
    Word = 128
    ReadMayFail = TRUE
    WriteMayFail = TRUE
    Storage <- MCStorage
SPECIFICATION Spec
INVARIANTS
    TypeOK
    OneTaskPerReader
    ReadsInStep
    ReadsThePlan
    StrandIsServed
    NeverStoredTwice
    OnlyBareTailLost
    FailureHasCause
PROPERTIES
    ReadersRefined
    WriterRefined
    JobRefined
    Terminates
