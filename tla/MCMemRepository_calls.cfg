SPECIFICATION FairSpec
CONSTANTS
    Proc = {p1, p2}
    NoProc = NoProc
    ID = {o1, o2}
    ZeroID = ZeroID
    Foreign = Foreign
    RefName = {master, topic, malformed}
    ValidRef = {master, topic}
    InitHEAD = master
    Workload <- Calls
INVARIANT RefsResolve
INVARIANT Inv
PROPERTY Linearizable
PROPERTY RefsMoveByCompareAndSwap
PROPERTY CallsReturn
CHECK_DEADLOCK TRUE
