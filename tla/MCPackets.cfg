CONSTANTS
    a = a
    b = b
    ab = ab
    Letters = {a, b}
    Other = other
    MaxValue = 3
    Packets <- MCPackets
    SwitchFunctions <- MCSwitches
    Keys = {"type", "dst"}
    Numbers <- MCSigned
    Enumerations <- MCEnumerations
    MaxOperations = 5
    PacketFunctions <- MCFunctions
    PacketSets <- MCPacketSets
    Channels <- MCChannels
    Components <- MCComponents
    Kind <- MCKind
    Inputs <- MCInputs
    Outputs <- MCOutputs
    Emitted <- MCEmitted
    SwitchFunction <- MCSwitchFunction
    Applied <- MCApplied
    Throws <- MCThrows
    MadeOf <- MCMadeOf
    ItemSets <- MCItemSets
    Drawings <- MCDrawings
    Expressions <- MCExpressions
    Functions <- MCSaved
    Words <- MCWords
    Truncated = {105, 106, 107, 108}
    References <- MCReferences
    MaxEdits = 2
SPECIFICATION MCSpec
INVARIANTS
    SwitchIsExact
    AlgebraExact
    ExpressionMeansWhatItSays
    FunctionCovers
    SpecsAreExact
    SavedIsOpened
CHECK_DEADLOCK FALSE
