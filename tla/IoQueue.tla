------------------------------ MODULE IoQueue ------------------------------
(***************************************************************************)
(* The select() reactor of evfilter, src/src/evf_io_queue.c: a list of     *)
(* members sorted by descending file descriptor, the descriptor set rfds   *)
(* that is both the question put to select() and the answer it writes, a   *)
(* member counter, and the loop of evf_io_queue_wait() that runs one       *)
(* callback per ready member.  A callback may use the queue itself: evfd's *)
(* hotplug callback adds members while the loop walks the list.            *)
(*                                                                         *)
(* The program is single threaded.  pc says where it is:                   *)
(*   "idle"      outside evf_io_queue_wait(), or at its call of select();  *)
(*   "scan"      in the loop, about to test the member "here";             *)
(*   "callback"  inside here->read(here);                                  *)
(*   "gone"      between evf_io_queue_destroy() and evf_io_queue_new().    *)
(* The kernel is two sets: the open descriptors and those with data.       *)
(***************************************************************************)
EXTENDS Naturals, Sequences, SequencesExt

CONSTANTS
    Fd,         \* file descriptor numbers
    Returns,    \* return values of the callbacks, each a set of flags
    MaxCnt      \* bound on the unsigned counter cnt (a bound of the model)

Flag == {"REM", "CLOSE", "DFREE"}

ASSUME FdAssumption == Fd \subseteq Nat
ASSUME MaxCntAssumption == MaxCnt \in Nat
\* A callback that does not return EVF_IO_QUEUE_OK asks for the removal of its
\* member: evf_io_queue.h:26-29, and every callback of the repository.
ASSUME ReturnsAssumption ==
    Returns \subseteq SUBSET Flag /\ \A f \in Returns : f # {} => "REM" \in f

VARIABLES
    list,       \* queue->root: the members' descriptors, in list order
    rfds,       \* queue->rfds
    cnt,        \* queue->cnt
    pc,         \* where the program is (above)
    here,       \* the member evf_io_queue_wait() is at; 0 outside the loop
    open,       \* kernel: the open descriptors
    data,       \* kernel: the open descriptors a read would not block on
    fresh,      \* history: descriptors added since select() last returned
    dropped     \* history: descriptors evf_io_queue_rem() was called for

queueVars  == <<list, rfds, cnt, pc, here>>
kernelVars == <<open, data>>
ghostVars  == <<fresh, dropped>>
vars       == <<queueVars, kernelVars, ghostVars>>

Members == ToSet(list)

Descending(l) == \A i, j \in 1..Len(l) : i < j => l[i] > l[j]

TypeOK ==
    /\ list \in Seq(Fd)
    /\ rfds \subseteq Fd
    /\ cnt \in 0..MaxCnt
    /\ pc \in {"idle", "scan", "callback", "gone"}
    /\ here \in Fd \cup {0}
    /\ open \subseteq Fd
    /\ data \subseteq open
    /\ fresh \subseteq Fd
    /\ dropped \subseteq Fd

-----------------------------------------------------------------------------
(* The sorted list.  result is the list after the call.                    *)

ListInsertAscending(l, fd, result) ==      \* mutant: the comparison reversed
    \E k \in 1..Len(l) + 1 :
        /\ \A j \in 1..k - 1 : l[j] < fd
        /\ k <= Len(l) => l[k] >= fd
        /\ result = InsertAt(l, k, fd)

\* list_insert(): before the first member that is not above fd.
ListInsert(l, fd, result) ==
    \E k \in 1..Len(l) + 1 :
        /\ \A j \in 1..k - 1 : l[j] > fd
        /\ k <= Len(l) => l[k] <= fd
        /\ result = InsertAt(l, k, fd)

ListDeleteNothing(l, fd, result) == result = l         \* mutant

\* list_delete(): the first member with this fd, if there is one.
ListDelete(l, fd, result) ==
    \/ fd \notin ToSet(l) /\ result = l
    \/ \E k \in 1..Len(l) :
        /\ l[k] = fd
        /\ \A j \in 1..k - 1 : l[j] # fd
        /\ result = RemoveAt(l, k)

AdvanceRestarts ==         \* mutant: the loop starts again after every member
    \E k \in 1..Len(list) :
        /\ list[k] = here
        /\ IF k = Len(list)
           THEN pc' = "idle" /\ here' = 0
           ELSE pc' = "scan" /\ here' = list[1]

\* here = here->next, or the end of the loop.  The pointer is read after the
\* callback, and also after list_delete() freed the node it is read from: what
\* the callback added behind "here" is visited, and a freed node still holds
\* the pointer it had.
Advance ==
    \E k \in 1..Len(list) :
        /\ list[k] = here
        /\ IF k = Len(list)
           THEN pc' = "idle" /\ here' = 0
           ELSE pc' = "scan" /\ here' = list[k + 1]

FdSetNothing(fd) == rfds        \* mutant
FdClrNothing(fd) == rfds        \* mutant

\* rfds after FD_SET and FD_CLR.
FdSet(fd) == rfds \cup {fd}
FdClr(fd) == rfds \ {fd}

-----------------------------------------------------------------------------
(* The kernel's side, and what the program does to descriptors of its own. *)

\* The program runs code of its own in the idle state and in callbacks only.
InProgram == pc \in {"idle", "callback"}

InLoop == pc \in {"scan", "callback"}

OpenFd(fd) ==
    /\ InProgram
    /\ fd \notin open
    /\ pc = "callback" => fd # here
    /\ open' = open \cup {fd}
    /\ UNCHANGED <<queueVars, data, ghostVars>>

\* A descriptor is closed while it is no member, or by its own callback, which
\* then has to give it up.
CloseFd(fd) ==
    /\ InProgram
    /\ fd \in open
    /\ fd \in Members => pc = "callback" /\ fd = here
    /\ open' = open \ {fd}
    /\ data' = data \ {fd}
    /\ UNCHANGED <<queueVars, ghostVars>>

\* One event of the kernel may make several descriptors readable.
DataArrives(fds) ==
    /\ fds \subseteq open
    /\ data' = data \cup fds
    /\ UNCHANGED <<queueVars, open, ghostVars>>

\* The callback reads everything there is on its descriptor.
Drain ==
    /\ pc = "callback"
    /\ here \in data
    /\ data' = data \ {here}
    /\ UNCHANGED <<queueVars, open, ghostVars>>

-----------------------------------------------------------------------------
(* The queue's operations.                                                 *)

\* evf_io_queue_add(), of an open descriptor that is no member.
Add(fd) ==
    /\ InProgram
    /\ fd \in open \ Members
    /\ cnt < MaxCnt
    /\ rfds' = FdSet(fd)
    /\ ListInsert(list, fd, list')
    /\ cnt' = cnt + 1
    /\ fresh' = fresh \cup {fd}
    /\ dropped' = dropped \ {fd}
    /\ UNCHANGED <<pc, here, kernelVars>>

\* evf_io_queue_rem(): a descriptor whose bit is not set is left alone.  A
\* callback removes its own member with its return value.
Rem(fd) ==
    /\ InProgram
    /\ fd \in Members
    /\ pc = "callback" => fd # here
    /\ dropped' = dropped \cup {fd}
    /\ IF fd \in rfds
       THEN /\ rfds' = FdClr(fd)
            /\ ListDelete(list, fd, list')
            /\ cnt' = cnt - 1
       ELSE UNCHANGED <<list, rfds, cnt>>
    /\ UNCHANGED <<pc, here, kernelVars, fresh>>

ReadyUnasked == rfds        \* mutant: select()'s answer is not used

\* The descriptors select(root->fd + 1, &rfds, ...) finds ready.
Ready == {fd \in rfds \cap data : fd <= list[1]}

\* select() returns: rfds is overwritten with the ready descriptors, and the
\* loop starts at the root.  With nothing ready it returns only when there is
\* a timeout, which leaves rfds empty.  An empty queue sleeps and returns, and
\* a signal makes select() fail with rfds untouched: neither changes anything.
\* select() fails with EBADF when rfds holds a closed descriptor.
Select ==
    /\ pc = "idle"
    /\ list # << >>
    /\ rfds \subseteq open
    /\ rfds' = Ready
    /\ pc' = "scan"
    /\ here' = list[1]
    /\ fresh' = {}
    /\ UNCHANGED <<list, cnt, kernelVars, dropped>>

\* The bit of "here" is not set: it is set for the next select().
Rearm ==
    /\ pc = "scan"
    /\ here \notin rfds
    /\ rfds' = FdSet(here)
    /\ Advance
    /\ UNCHANGED <<list, cnt, kernelVars, ghostVars>>

\* The bit of "here" is set: here->read(here) is called.
Dispatch ==
    /\ pc = "scan"
    /\ here \in rfds
    /\ pc' = "callback"
    /\ UNCHANGED <<list, rfds, cnt, here, kernelVars, ghostVars>>

\* The callback returns.  EVF_IO_QUEUE_REM takes the member out of the list
\* but not out of the count.  EVF_IO_QUEUE_OK or EVF_IO_QUEUE_CLOSE from a
\* callback that closed its descriptor itself would break the queue.
Return(flags) ==
    /\ pc = "callback"
    /\ here \notin open => "REM" \in flags /\ "CLOSE" \notin flags
    /\ open' = IF "CLOSE" \in flags THEN open \ {here} ELSE open
    /\ data' = IF "CLOSE" \in flags THEN data \ {here} ELSE data
    /\ rfds' = IF flags = {} THEN rfds ELSE FdClr(here)
    /\ IF "REM" \in flags THEN ListDelete(list, here, list') ELSE list' = list
    /\ Advance
    /\ UNCHANGED <<cnt, ghostVars>>

\* The end of the queue: evf_io_queue_destroy(), which closes all members or
\* none, or a caller that walks the members and closes some (evfd.c:234-244).
Destroy(closed) ==
    /\ pc = "idle"
    /\ pc' = "gone"
    /\ list' = << >>
    /\ rfds' = {}
    /\ cnt' = 0
    /\ open' = open \ closed
    /\ data' = data \cap open'
    /\ fresh' = {}
    /\ dropped' = {}
    /\ UNCHANGED here

\* evf_io_queue_new(): what Destroy left is an empty queue.
New ==
    /\ pc = "gone"
    /\ pc' = "idle"
    /\ UNCHANGED <<list, rfds, cnt, here, kernelVars, ghostVars>>

-----------------------------------------------------------------------------
Init ==
    /\ list = << >>
    /\ rfds = {}
    /\ cnt = 0
    /\ pc = "idle"
    /\ here = 0
    /\ open = {}
    /\ data = {}
    /\ fresh = {}
    /\ dropped = {}

Program ==
    \/ \E fd \in Fd : OpenFd(fd) \/ CloseFd(fd) \/ Add(fd) \/ Rem(fd)
    \/ \E closed \in SUBSET Members : Destroy(closed)
    \/ New

Loop == Select \/ Rearm \/ Dispatch

Finish == \E flags \in Returns : Return(flags)

Next ==
    \/ Program
    \/ Loop
    \/ Drain
    \/ Finish
    \/ \E fds \in SUBSET open : DataArrives(fds)

\* The loop runs, select() answers when something is ready and callbacks
\* return.  Nothing is assumed of what the program adds, removes or reads.
Fairness ==
    /\ WF_vars(Select /\ Ready # {})
    /\ WF_vars(Rearm)
    /\ WF_vars(Dispatch)
    /\ WF_vars(Finish)

Spec     == Init /\ [][Next]_vars
FairSpec == Spec /\ Fairness

-----------------------------------------------------------------------------
(* What the queue promises.  That a member with data is served is part of  *)
(* the refinement at the end.                                              *)

\* list_insert() and list_delete() keep the list strictly descending, so the
\* root is the maximum that evf_io_queue_wait() derives select()'s first
\* argument from, and no descriptor is in the list twice.
Sorted == Descending(list)

\* select() is always asked about every member: what select() cleared in rfds
\* has been set again by the time of the next call, whatever callbacks added or
\* removed on the way, and no member is above the root.
NothingForgotten ==
    pc = "idle" => \A fd \in Members : fd \in rfds /\ fd <= list[1]

\* No bit of rfds outlives its member, and no member outlives its descriptor but
\* for the rest of a callback that closed it: select() cannot fail with EBADF, a
\* failure the loop would repeat for ever.
NoStaleBit ==
    /\ rfds \subseteq Members
    /\ \A fd \in Members : fd \in open \/ (pc = "callback" /\ fd = here)

\* evf_io_queue_rem() cannot take the unsigned counter below zero, although
\* members removed by their callback stay counted (evf_io_queue_get_count() then returns
\* more than evf_io_queue.h:82 promises).
CntCoversList == cnt >= Len(list)

\* Where the loop is, bit by bit: what lies behind "here" is armed again, and a
\* bit that is still ahead is an answer of select() or a fresh member.
Behind(fd) == InLoop => fd > here
Ahead(fd)  == (pc = "scan" /\ fd <= here) \/ (pc = "callback" /\ fd < here)

PassPosition ==
    /\ InLoop => here \in Members
    /\ pc = "callback" => here \in rfds
    /\ \A fd \in Members : Behind(fd) => fd \in rfds
    /\ \A fd \in rfds : Ahead(fd) => fd \in data \cup fresh

\* The inductive invariant of the proofs.
IInv ==
    /\ TypeOK
    /\ Sorted
    /\ NoStaleBit
    /\ CntCoversList
    /\ PassPosition

\* A callback is called for a descriptor with data, or for one that was added
\* since select() returned: the bit Add sets passes for select()'s answer, which
\* is less than evf_io_queue.h:9-10 promises.
DispatchReadyOrFresh ==
    [][pc = "scan" /\ pc' = "callback" => here \in data \cup fresh]_vars

\* Within one pass of the loop the descriptors only fall: a callback that adds
\* members cannot make a member run twice.
PassDescends ==
    [][InLoop /\ InLoop' =>
        here' <= here /\ (pc = "callback" /\ pc' = "scan" => here' < here)]_vars

\* Every call of evf_io_queue_wait() that select() let through returns.
PassEnds == InLoop ~> ~InLoop

\* The queue is an event loop in the sense of EventLoop: callbacks of members
\* only, one at a time, and every member with data is served again and again.
\* It is the whole of what evfd relies on.
Abstract ==
    INSTANCE EventLoop WITH
        Source   <- Fd,
        members  <- Members,
        pending  <- data,
        running  <- IF pc = "callback" THEN {here} ELSE {}

ImplementsEventLoop == Abstract!FairSpec

-----------------------------------------------------------------------------
(* What the header says and the code does not do.                          *)

\* evf_io_queue.h:77, of evf_io_queue_rem(): "Remove fd from queue".  Called in
\* a callback for a member that select() did not report, it does nothing, and
\* the callback of the member runs again later.
DroppedNotCalled == pc = "callback" => here \notin dropped
=============================================================================
