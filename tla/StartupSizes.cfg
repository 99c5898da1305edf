CONSTANTS
    Word = 128
    MinChunk = 6
    MaxChunk = 27
    DefaultChunk = 9
    FileSize = 40
    CoreCounts = {0, 1, 3}
    NotANumber = NotANumber
    NoText = NoText
    NoPath = NoPath
    Multiplier <- MCMultiplier
    Directories <- MCDirectories
    Requests <- MCRequests
SPECIFICATION Spec
INVARIANT DocumentedSizesOnly
