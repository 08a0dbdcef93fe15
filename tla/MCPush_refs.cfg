SPECIFICATION Spec
CONSTANTS
    root = root
    left1 = left1
    right = right
    master = master
    malformed = malformed
    Client = {c1, c2}
    ID = {root, left1, right}
    ZeroID = ZeroID
    Links <- Fork
    RefName = {master, malformed}
    ValidRef = {master}
    Wishes <- AllWishes
    MaxResend = 1
SYMMETRY Clients
INVARIANT RefsComplete
PROPERTY PushesBuildOnWhatWasTold
CHECK_DEADLOCK TRUE
