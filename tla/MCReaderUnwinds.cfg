SPECIFICATION FairSpec
CONSTANTS
    Number <- MCNumber
    Body <- MCBody
    Server <- MCServer
    PrintKinds = {"text"}
    Echoed <- EchoedBegin
    DebugAssertions = TRUE
    MaxCommands = 2
    MaxOutput = 9
    PipeSize = 20
    MaxPrint = 1
    MaxInternal = 0
    Notes <- NoNotes
    MaxLost = 0
    HasChild = TRUE
    WriteMayFail = FALSE
    WriterMayPanic = FALSE
    ReadMayFail = FALSE
PROPERTIES
    EveryCommandReturns
CHECK_DEADLOCK FALSE
