SPECIFICATION Spec
CONSTANTS
    Proc = {p1, p2}
    Pid <- MCPid
    Inode <- MCInode
    Daemonize = TRUE
INVARIANT OneInstance
