SPECIFICATION FairSpec
CONSTANTS
    Number <- MCNumber
    Body <- MCBody
    Server <- MCServer
    PrintKinds = {"text"}
    Echoed <- EchoedBegin
    DebugAssertions = TRUE
    MaxCommands = 2
    MaxOutput = 9
    PipeSize = 2
    MaxPrint = 1
    MaxInternal = 0
    Notes <- NoNotes
    MaxLost = 0
    HasChild = TRUE
    WriteMayFail = TRUE
    ReadMayFail = TRUE
    Drivers <- BothDrivers
INVARIANTS
    TaskTypeOK
    DisconnectedIsFinal
    ReturnsItsOwn
PROPERTIES
    KeepsPromise
    WaitsOnlyIfLeftBehind
    DropTerminatesIfFlushed
CHECK_DEADLOCK FALSE
