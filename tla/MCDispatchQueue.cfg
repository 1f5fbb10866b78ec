CONSTANTS
    Runners = {r1, r2, r3}
    Clients = {c1, c2}
    Items = {i1, i2, i3, i4}
    MaximumExecuting = 2
    MaxPauses = 2
SPECIFICATION MCSpec
INVARIANTS
    RunnersBounded
    NoItemStranded
    InOrder
    BatchesInOrder
PROPERTIES
    EveryItemRuns
CHECK_DEADLOCK FALSE
