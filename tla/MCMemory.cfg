CONSTANTS
    Elements = {e1, e2, e3}
    Deques = {d1, d2}
    Queues = {q1, q2}
    Stacks = {s1, s2}
    Pools = {"mine", "other"}
    Full = {"mine"}
    PoolPages = {1, 5}
    Larges = {9}
    Buffers = {14}
    PageSize = 4
    LargeSize = 5
    Header = 1
    Threshold = 1
    Sizes = {3}
    MaxBlocks = 4
    MaxStatuses = 1
SYMMETRY Symmetry
VIEW Matters
SPECIFICATION MCSpec
INVARIANT MemoryIsUsedOnce
PROPERTY LinksWellFormed
PROPERTY IsLists
CHECK_DEADLOCK FALSE
