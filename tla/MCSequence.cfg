SPECIFICATION Spec
CONSTANTS
    Number <- MCNumber
    Body <- MCBody
    Server <- MCServer
    PrintKinds = {"text"}
    Echoed = {}
    DebugAssertions = TRUE
    MaxCommands = 2
    MaxOutput = 9
    WriteMayFail = FALSE
    MaxPerLine = 2
    PipeSize = 20
    MaxPrint = 1
    MaxInternal = 0
    Notes <- NoNotes
    MaxLost = 0
INVARIANTS
    AnswersOwn
CHECK_DEADLOCK FALSE
