SPECIFICATION FairSpec
CONSTANTS
    Base = 2
    MaxCopyOff = 12
    MaxCopyLen = 7
    MaxInsertLen = 4
    MinCopyLen = 2
    Junk = 2
    Strings <- ShortAndLong
    Received <- AnyDelta
INVARIANT RoundTrip
INVARIANT InstructionsFit
INVARIANT MatchIsLongest
PROPERTY WindowsMove
PROPERTY Ends
CHECK_DEADLOCK FALSE
