CONSTANTS
    Elements = {e1, e2, e3}
    Deques = {d1, d2}
    Queues = {q1}
    Stacks = {}
SPECIFICATION Spec
INVARIANT PopBackTakesTheLast
CHECK_DEADLOCK FALSE
