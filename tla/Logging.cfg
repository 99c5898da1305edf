CONSTANTS
    Main = "main"
    Workers = {"worker"}
    MaxCalls = 2
    MaxLost = 1
    Times = {1, 2}
SPECIFICATION Spec
INVARIANTS
    LinesAreWhole
    StampsAreOwn
    CallsAreAccounted
    ReportsAreApart
    LoggerOutlivesJoined
PROPERTY
    CallsReturn
