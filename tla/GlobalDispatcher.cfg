CONSTANTS
    Pool = {w1, w2, w3}
    Callers = {c1}
    Ops = {o1, o2, o3}
    Priorities = 2
    MaxBatch = 2
    NoOp = NoOp
SPECIFICATION Spec
INVARIANTS
    PoolKeepsUp
PROPERTIES
    EveryOperationRuns
CHECK_DEADLOCK FALSE
