SPECIFICATION FairSpec
CONSTANTS
    Number <- MCNumber
    Body <- MCBody
    Server <- MCServer
    PrintKinds = {"output"}
    Echoed = {}
    DebugAssertions = TRUE
    MaxCommands = 2
    MaxOutput = 9
    WriteMayFail = TRUE
    MaxPerLine = 1
    PipeSize = 20
    MaxPrint = 1
    MaxInternal = 1
    Notes <- TwoNotes
    MaxLost = 1
INVARIANTS
    RightAnswer
    AnswersOwn
    TripwireSilent
    NotesSurvive
    NobodyLeftWaiting
PROPERTIES
    KeepsPromise
    EventuallyAnswered
CHECK_DEADLOCK FALSE
