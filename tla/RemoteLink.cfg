CONSTANTS
    Clients = {c1, c2}
    Ends = {1, 2}
    Calls = 2
    Mates = {{1, 2}}
SPECIFICATION Spec
INVARIANTS
    LinkIsSound
    GoodbyeComesLast
PROPERTIES
    DisconnectedIsTold
    EveryCallReturns
CHECK_DEADLOCK FALSE
