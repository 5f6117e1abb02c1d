SPECIFICATION FeedSpec
CONSTANTS
    Number <- MCNumber
    Body <- MCBody
    Byte <- MCByte
    NL <- MCNL
    LineOf <- MCLineOf
    DebugAssertions = TRUE
    MaxCommands = 2
    MaxOutput = 9
    MaxStream = 9
    MaxChunk = 3
INVARIANTS
    FeedTypeOK
    LinesAreTheStreams
    FifoIntact
PROPERTIES
    LinesMeanWhatTheyFrame
    AnswersOldest
    OnlyControlBlocksAnswer
CHECK_DEADLOCK FALSE
