SPECIFICATION FairSpec
CONSTANTS
    Proc = {p1, p2}
    ID = {o1, o2}
    ZeroID = ZeroID
    Foreign = Foreign
    RefName = {master, malformed}
    ValidRef = {master}
    InitHEAD = master
    Workload <- EveryMethod
    Root = Root
    Miss = Miss
    Cached = FALSE
    MaxAttempts = 2
PROPERTY Linearizable
PROPERTY CallsReturn
CHECK_DEADLOCK TRUE
