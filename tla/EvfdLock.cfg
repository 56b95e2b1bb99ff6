SPECIFICATION Spec
CONSTANTS
    Proc = {p1, p2}
    Pid <- MCPid
    Inode <- MCInode
    Daemonize = FALSE
INVARIANTS
    TypeOK
    OneInstance
    LockHeld
PROPERTY
    KeptWhileRunning
