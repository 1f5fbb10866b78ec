CONSTANTS
    req = req
    rsp = rsp
    Clones = 3
    Networks <- MCNetworks
    Goals <- MCGoals
    Sets <- MCSets
    Signals <- MCSignals
    Components <- MCComponents
    Views <- AllNetworks
SPECIFICATION MCSpec
INVARIANTS
    ForwardIsExact
    ReverseIsExactOfMirror
    StepsAreTransfers
    NusmvAgrees
    VerdictIsExact
    CheckedIsHarmless
CHECK_DEADLOCK FALSE
