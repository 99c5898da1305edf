CONSTANTS
    MaxFile = 39
    Cores = 3
    ChunkSize = 6
    Word = 128
    Readable = 46
    FileSizes <- MCFileSizes
SPECIFICATION Spec
INVARIANTS
    CompleteOnSuccess
    SuccessStaysInFile
    ReadsOwnBlock
    InfluentialBytes
PROPERTIES
    OldOutputSurvivesHashing
    JobRefined
    Terminates
