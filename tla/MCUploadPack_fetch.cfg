SPECIFICATION FairSpec
CONSTANTS
    blob = blob
    base = base
    tip = tip
    side = side
    ID = {blob, base, tip, side}
    Links <- Fork
    Commit = {base, tip, side}
    MaxWants = 2
    MaxBatches = 2
INVARIANT PackSuffices
INVARIANT ReadyIsTrue
INVARIANT PackRestsOnAcks
INVARIANT ReadyStaysReady
INVARIANT NeverPanics
PROPERTY Ends
CHECK_DEADLOCK FALSE
