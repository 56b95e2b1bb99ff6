SPECIFICATION FairSpec
CONSTANTS
    Fd <- MCFd
    Returns <- MCReturns
    MaxCnt = 5
INVARIANTS
    TypeOK
    Sorted
    NothingForgotten
    NoStaleBit
    CntCoversList
PROPERTIES
    DispatchReadyOrFresh
    PassDescends
    PassEnds
    ImplementsEventLoop
