SPECIFICATION Spec
CONSTANTS
    Number <- MCNumber
    Body <- MCBody
    Server <- MCServer
    PrintKinds = {"output", "text", "blank"}
    Echoed <- EchoedEnd
    DebugAssertions = TRUE
    MaxCommands = 2
    MaxOutput = 9
    WriteMayFail = FALSE
    MaxPerLine = 1
    PipeSize = 20
    MaxPrint = 1
    MaxInternal = 1
    Notes <- OneNote
    MaxLost = 0
PROPERTIES
    ClosesAtOwnEnd
CHECK_DEADLOCK FALSE
