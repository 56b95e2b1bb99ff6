SPECIFICATION Spec
CONSTANTS
    d1 = d1
    d2 = d2
    Fd <- MCFd
    Dev = {d1, d2}
    Configured = {d1, d2}
    MaxPlugs = 2
    MaxCnt = 6
INVARIANT ReadsWhenReady
CHECK_DEADLOCK FALSE
