SPECIFICATION FairSpec
CONSTANTS
    Number <- MCNumber
    Body <- MCBody
    Server <- MCServer
    PrintKinds = {"text"}
    Echoed = {}
    DebugAssertions = TRUE
    MaxCommands = 2
    MaxOutput = 9
    PipeSize = 20
    MaxPrint = 1
    MaxInternal = 0
    Notes <- NoNotes
    MaxLost = 0
    HasChild = TRUE
    WriteMayFail = FALSE
    ReadMayFail = FALSE
    Drivers <- OnlySmol
PROPERTIES
    EveryCommandReturns
CHECK_DEADLOCK FALSE
