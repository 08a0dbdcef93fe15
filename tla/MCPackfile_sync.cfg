SPECIFICATION Spec
CONSTANTS
    old = old
    new = new
    blob = blob
    ID = {old, new, blob}
    ZeroID = ZeroID
    Type = {"tree", "blob"}
    TypeOf <- Types
    MaxObjects = 3
    Received <- AnyPack
INVARIANT SafeToContinue
CHECK_DEADLOCK FALSE
