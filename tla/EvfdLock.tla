------------------------------ MODULE EvfdLock ------------------------------
(***************************************************************************)
(* The pid file that is to keep a second evfd from running,                *)
(* src/src/evfd/evfd_lock.c, as main() of src/src/evfd/evfd.c uses it.     *)
(*                                                                         *)
(* Several instances are started, at the same time or not, fork into the   *)
(* background, are stopped or killed; every one of their file system calls *)
(* is a step and may fail.  A file is an inode: a process that has it open *)
(* keeps reading and writing it when its name is gone.  A process id may   *)
(* be given to an unrelated process once its owner has ended.              *)
(***************************************************************************)
EXTENDS Naturals

CONSTANTS
    Proc,       \* instances of evfd
    Pid,        \* process ids; 0 is none of them
    Inode,      \* files; 0 is none of them
    Daemonize   \* evfd runs without -d: daemon() forks, the parent exits

ASSUME LockAssumption ==
    /\ Pid \subseteq Nat \ {0}
    /\ Inode \subseteq Nat \ {0}
    /\ Daemonize \in BOOLEAN

VARIABLES
    pc,         \* where main() of each instance is
    pid,        \* its process id, or 0
    saw,        \* the pid that load_pid() returned
    handle,     \* the inode it has open, or 0
    name,       \* the inode named LOCKFILE, or 0
    content,    \* what each inode holds: a pid, or 0 for an empty file
    others,     \* process ids of unrelated processes
    excused     \* history: two instances were between the load and the save
                \* of the pid at once, or one could not see what was there

vars == <<pc, pid, saw, handle, name, content, others, excused>>

\* evfd_try_lock(): open, read, check and create, write.
Starting == {"open", "read", "check", "create", "write"}

\* It has loaded the pid file and not yet saved its own; it has decided to save.
Loaded == {"read", "check", "create", "write"}
Saving == {"create", "write"}

\* The instance has got the lock and walks, opens and grabs devices.
Instance == {"init", "run"}

Running(q) == q \in others \/ \E p \in Proc : pid[p] = q

TypeOK ==
    /\ pc \in [Proc -> {"off", "exit"} \cup Starting \cup Instance]
    /\ pid \in [Proc -> Pid \cup {0}]
    /\ saw \in [Proc -> Pid \cup {0}]
    /\ handle \in [Proc -> Inode \cup {0}]
    /\ \A p \in Proc : handle[p] # 0 <=> pc[p] \in {"read", "write"}
    /\ name \in Inode \cup {0}
    /\ content \in [Inode -> Pid \cup {0}]
    /\ others \subseteq Pid
    /\ excused \in BOOLEAN

-----------------------------------------------------------------------------
\* An instance is started.
Start(p) ==
    /\ pc[p] = "off"
    /\ \E new \in Pid :
        /\ ~Running(new)
        /\ pid' = [pid EXCEPT ![p] = new]
    /\ pc' = [pc EXCEPT ![p] = "open"]
    /\ UNCHANGED <<saw, handle, name, content, others>>

\* load_pid(): no file means no pid.
LoadOpen(p) ==
    /\ pc[p] = "open"
    /\ handle' = [handle EXCEPT ![p] = name]
    /\ pc' = [pc EXCEPT ![p] = IF name = 0 THEN "create" ELSE "read"]
    /\ UNCHANGED <<pid, saw, name, content, others>>

LoadReadLeaks(p) ==        \* mutant: the file is not closed
    /\ pc[p] = "read"
    /\ saw' = [saw EXCEPT ![p] = content[handle[p]]]
    /\ pc' = [pc EXCEPT ![p] = IF content[handle[p]] = 0 THEN "create" ELSE "check"]
    /\ UNCHANGED <<pid, handle, name, content, others>>

\* load_pid(): a file without a number in it means no pid either.
LoadRead(p) ==
    /\ pc[p] = "read"
    /\ saw' = [saw EXCEPT ![p] = content[handle[p]]]
    /\ handle' = [handle EXCEPT ![p] = 0]
    /\ pc' = [pc EXCEPT ![p] = IF content[handle[p]] = 0 THEN "create" ELSE "check"]
    /\ UNCHANGED <<pid, name, content, others>>

\* The file is there and cannot be opened (but for ENOENT the errno is only
\* reported), or not be read: load_pid() returns 0 as if there were none.
LoadFails(p) ==
    /\ \/ pc[p] = "open" /\ name # 0
       \/ pc[p] = "read" /\ content[handle[p]] # 0
    /\ saw' = [saw EXCEPT ![p] = 0]
    /\ handle' = [handle EXCEPT ![p] = 0]
    /\ pc' = [pc EXCEPT ![p] = "create"]
    /\ UNCHANGED <<pid, name, content, others>>

\* stat() fails for a process that is there, as it does when /proc is not
\* mounted: pid_is_running() says that there is none.
StatFails(p) ==
    /\ pc[p] = "check"
    /\ Running(saw[p])
    /\ pc' = [pc EXCEPT ![p] = "create"]
    /\ UNCHANGED <<pid, saw, handle, name, content, others>>

\* The process ends, with what it has open.
Ends(p) ==
    /\ pc' = [pc EXCEPT ![p] = "off"]
    /\ pid' = [pid EXCEPT ![p] = 0]
    /\ saw' = [saw EXCEPT ![p] = 0]
    /\ handle' = [handle EXCEPT ![p] = 0]

CheckNever(p) ==        \* mutant: the pid in the file is not looked up
    /\ pc[p] = "check"
    /\ pc' = [pc EXCEPT ![p] = "create"]
    /\ UNCHANGED <<pid, saw, handle, name, content, others>>

CheckReleases(p) ==        \* mutant: a refused instance releases the lock
    /\ pc[p] = "check"
    /\ IF Running(saw[p])
       THEN Ends(p) /\ name' = 0
       ELSE pc' = [pc EXCEPT ![p] = "create"] /\ UNCHANGED <<pid, saw, handle, name>>
    /\ UNCHANGED <<content, others>>

\* pid_is_running(): of any process, this one included.
Check(p) ==
    /\ pc[p] = "check"
    /\ IF Running(saw[p])
       THEN Ends(p)
       ELSE pc' = [pc EXCEPT ![p] = "create"] /\ UNCHANGED <<pid, saw, handle>>
    /\ UNCHANGED <<name, content, others>>

\* An inode that has neither a name nor a process that has it open.
Unused(i) == i # name /\ \A p \in Proc : handle[p] # i

\* pid_save(): fopen(LOCKFILE, "w") creates the file or truncates it.
SaveOpen(p) ==
    /\ pc[p] = "create"
    /\ IF name # 0 THEN name' = name ELSE name' \in {i \in Inode : Unused(i)}
    /\ content' = [content EXCEPT ![name'] = 0]
    /\ handle' = [handle EXCEPT ![p] = name']
    /\ pc' = [pc EXCEPT ![p] = "write"]
    /\ UNCHANGED <<pid, saw, others>>

SaveNothing(p) ==        \* mutant: the buffer is not written
    /\ pc[p] = "write"
    /\ handle' = [handle EXCEPT ![p] = 0]
    /\ pc' = [pc EXCEPT ![p] = "init"]
    /\ UNCHANGED <<pid, saw, name, content, others>>

\* fclose() writes the pid that fprintf() has put into the buffer.
SaveWrite(p) ==
    /\ pc[p] = "write"
    /\ content' = [content EXCEPT ![handle[p]] = pid[p]]
    /\ handle' = [handle EXCEPT ![p] = 0]
    /\ pc' = [pc EXCEPT ![p] = "init"]
    /\ UNCHANGED <<pid, saw, name, others>>

\* daemon(0, 0) goes on in a child, which has a pid of its own.
EnterLoop(p) ==
    /\ pc[p] = "init"
    /\ pc' = [pc EXCEPT ![p] = "run"]
    /\ IF Daemonize
       THEN \E child \in Pid :
                /\ ~Running(child)
                /\ pid' = [pid EXCEPT ![p] = child]
       ELSE UNCHANGED pid
    /\ UNCHANGED <<saw, handle, name, content, others>>

\* evfd_release_lock() unlinks LOCKFILE, whoever wrote it.
Release(p) ==
    /\ pc[p] = "run"
    /\ name' = 0
    /\ pc' = [pc EXCEPT ![p] = "exit"]
    /\ UNCHANGED <<pid, saw, handle, content, others>>

\* The process ends: at the end of main(), by a return of main() that does not
\* release the lock (evfd.c:200, 207, 214, 223), because the lock file cannot
\* be opened or written, or because it is killed.
Exit(p) ==
    /\ pc[p] # "off"
    /\ Ends(p)
    /\ UNCHANGED <<name, content, others>>

\* Unrelated processes take process ids and give them back.
OtherStarts(q) ==
    /\ ~Running(q)
    /\ others' = others \cup {q}
    /\ UNCHANGED <<pc, pid, saw, handle, name, content>>

OtherEnds(q) ==
    /\ q \in others
    /\ others' = others \ {q}
    /\ UNCHANGED <<pc, pid, saw, handle, name, content>>

-----------------------------------------------------------------------------
\* A lock file may be left from an instance that was killed.
Init ==
    /\ pc = [p \in Proc |-> "off"]
    /\ pid = [p \in Proc |-> 0]
    /\ saw = [p \in Proc |-> 0]
    /\ handle = [p \in Proc |-> 0]
    /\ name \in Inode \cup {0}
    /\ \E left \in Pid \cup {0} : content = [i \in Inode |-> IF i = name THEN left ELSE 0]
    /\ others \in SUBSET Pid
    /\ excused = FALSE

TryLock(p) == LoadOpen(p) \/ LoadRead(p) \/ Check(p) \/ SaveOpen(p) \/ SaveWrite(p)

\* evfd_try_lock() loads and saves in separate calls: one instance is in between
\* while another is about to save.
Overlap ==
    \E p, q \in Proc : p # q /\ pc[p] \in Loaded /\ pc[q] \in Saving

Sighted ==
    \/ \E p \in Proc : Start(p) \/ TryLock(p) \/ EnterLoop(p) \/ Release(p) \/ Exit(p)
    \/ \E q \in Pid : OtherStarts(q) \/ OtherEnds(q)

Blind == \E p \in Proc : LoadFails(p) \/ StatFails(p)

Next ==
    \/ Sighted /\ excused' = (excused \/ Overlap')
    \/ Blind /\ excused' = TRUE

Spec == Init /\ [][Next]_vars

-----------------------------------------------------------------------------
\* evfd_lock.h:10: "Lock we want only one instance of evfd running."  What the
\* code does give: as long as no instance has loaded the pid while another was
\* about to save its own, and each could see what was there, instances run with
\* -d keep each other out, whatever is killed and whatever process ids are used
\* again.  It does not give it to instances that fork.
OneInstance ==
    ~excused => \A p, q \in Proc : pc[p] \in Instance /\ pc[q] \in Instance => p = q

\* Until then the lock file names the instance that runs: the next will see it.
LockHeld ==
    ~excused =>
        \A p \in Proc : pc[p] \in Instance => name # 0 /\ content[name] = pid[p]

\* ... and it stays until that instance takes it away.
KeptWhileRunning ==
    [][~excused =>
        \A p \in Proc : pc[p] \in Instance /\ pc'[p] \in Instance => name' = name]_vars

-----------------------------------------------------------------------------
(* The inductive invariant of the proof.                                   *)

\* Who is about to create the lock file has seen that nobody holds it, and
\* nobody gets it meanwhile.
CreatorAlone ==
    \A p, q \in Proc : pc[p] \in Saving => pc[q] \notin Instance

\* What an instance that is started knows of the one that runs, call by call.
KnowsHolder ==
    \A p, q \in Proc :
        pc[q] \in Instance =>
            /\ pc[p] = "read" => handle[p] = name
            /\ pc[p] = "check" => saw[p] = pid[q]

WritesLockFile == \A p \in Proc : pc[p] = "write" => handle[p] = name /\ name # 0

HasPid == \A p \in Proc : pc[p] # "off" => pid[p] # 0

IInv ==
    /\ TypeOK
    /\ HasPid
    /\ OneInstance
    /\ LockHeld
    /\ ~excused => ~Overlap /\ CreatorAlone /\ KnowsHolder /\ WritesLockFile
=============================================================================
