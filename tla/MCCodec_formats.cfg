SPECIFICATION Spec
CONSTANTS
    WordBits = 7
    GroupBits = 2
    TypeBits = 2
    LowBits = 2
    Base = 2
    MaxPayloadLen = 11
    ID <- IDs
    None = None
    Flush = Flush
    id1 = id1
    id2 = id2
    Lines <- SomeLines
    ObjectValues <- SomeObjects
    CapLists <- SomeCapLists
    ReceivedNumbers <- AllBytes
    ReceivedObjects <- SomeReceived
INVARIANT RoundTrip
INVARIANT OverflowIsNoticed
INVARIANT LinesArrive
INVARIANT IDsAreKept
INVARIANT StoredIsLoaded
CHECK_DEADLOCK FALSE
