SPECIFICATION FairWalkSpec
CONSTANTS
    Size = 4
    ID <- IDs
    Graph <- Graphs
    Start <- Starts
    End <- Ends
INVARIANT Inv
INVARIANT CalledOnce
INVARIANT OnlyReachable
INVARIANT NothingMissed
INVARIANT DepthFirst
PROPERTY Returns
CHECK_DEADLOCK FALSE
