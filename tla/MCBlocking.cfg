SPECIFICATION FairSpec
CONSTANTS
    Number <- MCNumber
    Body <- MCBody
    Server <- MCServer
    PrintKinds = {"text", "blank"}
    Echoed = {}
    DebugAssertions = TRUE
    MaxCommands = 2
    MaxOutput = 9
    PipeSize = 1
    MaxPrint = 1
    MaxInternal = 0
    Notes <- OneNote
    MaxLost = 0
    HasChild = TRUE
    WriteMayFail = TRUE
    WriterMayPanic = TRUE
    ReadMayFail = TRUE
INVARIANTS
    BlockingTypeOK
    NobodyStranded
    ReturnsItsOwn
    DisconnectedIsFinal
    WritesAlone
PROPERTIES
    EveryCommandReturns
    ReaderDrains
    CleanDropTerminates
    KeepsPromise
CHECK_DEADLOCK FALSE
