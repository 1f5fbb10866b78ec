CONSTANTS
    i1 = i1
    i2 = i2
    i3 = i3
    Runners = {r1, r2, r3}
    Main = main
    Clients = {main}
    Items = {i1, i2, i3}
    AllItems <- ThreeItems
    MaximumExecuting = 2
    MaxPauses = 0
    Threads = {t1, t2, t3, t4}
    InitialValue = 0
    MaxCount = 3
SPECIFICATION MCSpec
INVARIANTS
    RefcountExact
    NobodyLeftBehind
    NoLostWakeup
PROPERTIES
    ImplementsParallel
    IsCountingSemaphore
CHECK_DEADLOCK FALSE
