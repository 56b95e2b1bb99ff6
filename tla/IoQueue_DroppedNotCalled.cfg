SPECIFICATION Spec
CONSTANTS
    Fd <- MCFd
    Returns <- MCReturns
    MaxCnt = 5
INVARIANT DroppedNotCalled
