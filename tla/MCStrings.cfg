SPECIFICATION Spec
CONSTANTS
    Layouts <- MCLayouts
    Trees <- MCTrees
    MaxNesting = 3
    MaxDim = 12
    MaxPane = 13
    MaxDepth = 2
    EditWords <- MCEditWords
    MaxEdits <- MCMaxEdits
    Payloads <- MCPayloads
    Chunk <- MCChunk
    Numeral <- MCNumerals
    Worth <- MCWorth
    Shown <- MCShown
    MaxU32 = 1
    MaxU64 = 2
    LayoutText = {"lay"}
    Lossy <- MCLossy
    Encode <- MCEncode
    Decode <- MCEncode
    SubscriptionHeader <- MCHeaders
    Messages <- MCMessages
    ChangedWord <- MCChangedWord
    MaxChanges <- MCMaxChanges
INVARIANTS
    OneChangeDetected
    ReadsWhatRenders
    AcceptsOnlyRenderings
    OutputTypeOK
    RoundTrip
    DecodesEveryEscape
    GrammarTypeOK
    ReadsWhatTmuxWrites
    NothingLostOrMadeUp
    FramesAsParser
PROPERTIES
    CorruptionDetected
CHECK_DEADLOCK FALSE
