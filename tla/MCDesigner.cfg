CONSTANTS
    None = None
    q = q
    comp = comp
    sink = sink
    fine = fine
    inner = inner
    broken = broken
    gone = gone
    ring = ring
    Objects = {q, comp, sink}
    Files = {fine, inner, broken, gone, ring}
    InputsOf <- MCInputsOf
    OutputsOf <- MCOutputsOf
    Composites <- MCComposites
    Names <- MCNames
    Uses <- MCUses
    Unreadable = {gone}
    Malformed = {broken}
    Generated <- MCGenerated
    Typed <- TypedNames
    Trimmed <- MCTrimmed
SPECIFICATION Spec
INVARIANTS
    ChannelsPaired
    CanvasMirrorsNetwork
    CompositesRefer
