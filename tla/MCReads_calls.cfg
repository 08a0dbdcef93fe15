SPECIFICATION Spec
CONSTANTS
    file = file
    dir = dir
    sub = sub
    top = top
    c1 = c1
    t1 = t1
    t2 = t2
    t3 = t3
    v1 = v1
    master = master
    ID = {file, dir, sub, top, c1, t1, t2, t3}
    ZeroID = ZeroID
    Kind <- MCKind
    Target <- MCTarget
    Says <- MCSays
    Entries <- MCEntries
    RefName = {v1, master}
    InitHEAD = master
    RefIDs = {c1, t2}
    Calls <- MCCalls
INVARIANT AnswersStand
INVARIANT FindRefIsRight
INVARIANT HeadAgreesWithList
 
CHECK_DEADLOCK FALSE
