SPECIFICATION Spec
CONSTANTS
    Proc = {p1, p2}
    ID = {o1, o2}
    ZeroID = ZeroID
    Foreign = Foreign
    RefName = {master}
    ValidRef = {master}
    InitHEAD = master
    Workload <- RefCalls
    Root = Root
    Miss = Miss
    Cached = TRUE
    MaxAttempts = 2
PROPERTY RefsMoveByCompareAndSwap
CHECK_DEADLOCK TRUE
