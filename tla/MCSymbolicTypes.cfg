CONSTANTS
    req = req
    rsp = rsp
    tok = tok
    Letters = {req, rsp, tok}
    Other = other
    MaxValue = 3
    Channels <- MCChannels
    Components <- MCComponents
    Kind <- MCKind
    Inputs <- MCInputs
    Outputs <- MCOutputs
    Emitted <- MCEmitted
    SwitchFunction <- MCSwitchFunction
    Applied <- MCApplied
    Throws <- MCThrows
    MadeOf <- MCMadeOf
    Names <- MCNames
    Reachable <- MCReachable
    Packets = {}
    SwitchFunctions = {}
SPECIFICATION Spec
INVARIANTS
    TypesAreExact
PROPERTIES
    Terminates
CHECK_DEADLOCK FALSE
