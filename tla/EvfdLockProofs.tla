--------------------------- MODULE EvfdLockProofs ---------------------------
(***************************************************************************)
(* Instances of evfd that run with -d keep each other out as long as no    *)
(* two are between the load and the save of the pid at once and each sees  *)
(* the file and the process that are there, for any number of instances,   *)
(* process ids and files, whatever is killed and whatever ids are used     *)
(* again.                                                                  *)
(***************************************************************************)
EXTENDS EvfdLock, TLAPS

\* Every initial state, with or without a stale lock file, is well typed.
LEMMA TypeAtInit == Init => TypeOK
  BY LockAssumption DEF Init, TypeOK, Starting, Instance

\* Whoever saves creates or truncates a file.
LEMMA SavedFile ==
  ASSUME TypeOK, NEW p \in Proc, SaveOpen(p)
  PROVE  name' \in Inode /\ name' # 0
  BY LockAssumption DEF SaveOpen, TypeOK

\* A step keeps the types, and a file is open exactly in load_pid() and pid_save().
LEMMA TypeStep ==
  ASSUME TypeOK, [Next]_vars
  PROVE  TypeOK'
<1>1. excused' \in BOOLEAN
  BY DEF Next, vars, TypeOK
<1> DEFINE Typed ==
      /\ pc \in [Proc -> {"off", "exit"} \cup Starting \cup Instance]
      /\ pid \in [Proc -> Pid \cup {0}]
      /\ saw \in [Proc -> Pid \cup {0}]
      /\ handle \in [Proc -> Inode \cup {0}]
      /\ \A p \in Proc : handle[p] # 0 <=> pc[p] \in {"read", "write"}
      /\ name \in Inode \cup {0}
      /\ content \in [Inode -> Pid \cup {0}]
      /\ others \subseteq Pid
<1>2. Typed'
  <2> USE DEF TypeOK, Starting, Instance
  <2>1. ASSUME NEW p \in Proc, Start(p)
        PROVE  Typed'
    BY <2>1 DEF Start
  <2>2. ASSUME NEW p \in Proc, LoadOpen(p)
        PROVE  Typed'
    BY <2>2 DEF LoadOpen
  <2>3. ASSUME NEW p \in Proc, LoadRead(p)
        PROVE  Typed'
    BY <2>3 DEF LoadRead
  <2>4. ASSUME NEW p \in Proc, LoadFails(p) \/ StatFails(p)
        PROVE  Typed'
    BY <2>4 DEF LoadFails, StatFails
  <2>5. ASSUME NEW p \in Proc, Check(p)
        PROVE  Typed'
    BY <2>5 DEF Check, Ends
  <2>6. ASSUME NEW p \in Proc, SaveOpen(p)
        PROVE  Typed'
    <3>1. name' \in Inode /\ name' # 0
      BY <2>6, SavedFile
    <3>2. QED
      BY <2>6, <3>1 DEF SaveOpen
  <2>7. ASSUME NEW p \in Proc, SaveWrite(p)
        PROVE  Typed'
    BY <2>7 DEF SaveWrite
  <2>8. ASSUME NEW p \in Proc, EnterLoop(p)
        PROVE  Typed'
    BY <2>8 DEF EnterLoop
  <2>9. ASSUME NEW p \in Proc, Release(p)
        PROVE  Typed'
    BY <2>9 DEF Release
  <2>10. ASSUME NEW p \in Proc, Exit(p)
         PROVE  Typed'
    BY <2>10 DEF Exit, Ends
  <2>11. ASSUME NEW q \in Pid, OtherStarts(q) \/ OtherEnds(q)
         PROVE  Typed'
    BY <2>11 DEF OtherStarts, OtherEnds
  <2>12. CASE UNCHANGED vars
    BY <2>12 DEF vars
  <2>13. QED
    BY <2>1, <2>2, <2>3, <2>4, <2>5, <2>6, <2>7, <2>8, <2>9, <2>10, <2>11, <2>12
    DEF Next, Sighted, Blind, TryLock
<1>3. QED
  BY <1>1, <1>2 DEF TypeOK

\* The processes, their handles and the lock file are what TypeOK says, also of
\* instances that fork, that start at the same time or that fail to see the file.
THEOREM TypeCorrect == Spec => []TypeOK
<1>1. TypeOK /\ [Next]_vars => TypeOK'
  BY TypeStep
<1>2. QED
  BY <1>1, TypeAtInit, PTL DEF Spec

-----------------------------------------------------------------------------
(* The inductive invariant.                                                *)

\* What holds of the instances until two overlap or one is blind.
Excluded ==
    /\ ~Overlap
    /\ \A p, q \in Proc : pc[p] \in Instance /\ pc[q] \in Instance => p = q
    /\ \A p \in Proc : pc[p] \in Instance => name # 0 /\ content[name] = pid[p]
    /\ CreatorAlone
    /\ KnowsHolder
    /\ WritesLockFile

\* IInv, put together in another way.
LEMMA InvariantParts == IInv <=> TypeOK /\ HasPid /\ (~excused => Excluded)
  BY DEF IInv, Excluded, OneInstance, LockHeld

\* No instance runs or starts at first.
LEMMA InitIInv == Init => IInv
<1>1. Init => HasPid /\ Excluded
  BY DEF Init, HasPid, Excluded, Overlap, CreatorAlone, KnowsHolder, WritesLockFile,
         Loaded, Saving, Instance
<1>2. QED
  BY <1>1, TypeAtInit, InvariantParts

\* A process that has not ended has an id, also after a fork.
LEMMA HasPidStep ==
  ASSUME TypeOK, HasPid, [Next]_vars
  PROVE  HasPid'
<1> USE DEF HasPid, TypeOK
<1>1. ASSUME NEW p \in Proc, Start(p)
      PROVE  HasPid'
  BY <1>1, LockAssumption DEF Start
<1>2. ASSUME NEW p \in Proc, EnterLoop(p)
      PROVE  HasPid'
  BY <1>2, LockAssumption DEF EnterLoop
<1>3. ASSUME NEW p \in Proc, \/ LoadOpen(p) \/ LoadRead(p) \/ SaveOpen(p) \/ SaveWrite(p)
                             \/ Release(p) \/ LoadFails(p) \/ StatFails(p)
      PROVE  HasPid'
  BY <1>3 DEF LoadOpen, LoadRead, SaveOpen, SaveWrite, Release, LoadFails, StatFails
<1>4. ASSUME NEW p \in Proc, Check(p) \/ Exit(p)
      PROVE  HasPid'
  BY <1>4 DEF Check, Exit, Ends
<1>5. ASSUME NEW q \in Pid, OtherStarts(q) \/ OtherEnds(q)
      PROVE  HasPid'
  BY <1>5 DEF OtherStarts, OtherEnds
<1>6. CASE UNCHANGED vars
  BY <1>6 DEF vars
<1>7. QED
  BY <1>1, <1>2, <1>3, <1>4, <1>5, <1>6 DEF Next, Sighted, Blind, TryLock

\* An instance that saves has seen that nobody runs, and one that starts beside
\* a running one knows of it whatever call of evfd_try_lock() it has reached.
LEMMA ExcludedStep ==
  ASSUME ~Daemonize, TypeOK, TypeOK', HasPid, Excluded, Sighted, ~Overlap'
  PROVE  Excluded'
<1> USE DEF Excluded, CreatorAlone, KnowsHolder, WritesLockFile, Loaded, Saving, Instance
<1>1. ASSUME NEW p \in Proc, Start(p)
      PROVE  Excluded'
  BY <1>1 DEF Start, TypeOK
<1>2. ASSUME NEW p \in Proc, LoadOpen(p)
      PROVE  Excluded'
  BY <1>2 DEF LoadOpen, TypeOK
<1>3. ASSUME NEW p \in Proc, LoadRead(p)
      PROVE  Excluded'
  BY <1>3 DEF LoadRead, TypeOK, HasPid
<1>4. ASSUME NEW p \in Proc, Check(p)
      PROVE  Excluded'
  <2>1. CASE Running(saw[p])
    BY <1>4, <2>1 DEF Check, Ends, TypeOK
  <2>2. CASE ~Running(saw[p])
    <3>1. \A q \in Proc : pc[q] \notin Instance
      BY <1>4, <2>2 DEF Check, Running
    <3>2. QED
      BY <1>4, <2>2, <3>1 DEF Check, TypeOK
  <2>3. QED
    BY <2>1, <2>2
<1>5. ASSUME NEW p \in Proc, SaveOpen(p)
      PROVE  Excluded'
  <2>1. name' \in Inode /\ name' # 0
    BY <1>5, SavedFile
  <2>2. \A q \in Proc : q # p => pc'[q] \notin {"read", "check", "create", "write"}
    BY <1>5 DEF SaveOpen, Overlap, TypeOK
  <2>3. QED
    BY <1>5, <2>1, <2>2 DEF SaveOpen, TypeOK
<1>6. ASSUME NEW p \in Proc, SaveWrite(p)
      PROVE  Excluded'
  <2>1. \A q \in Proc : q # p => pc[q] \notin {"read", "check", "create", "write"}
    BY <1>6 DEF SaveWrite, Overlap, TypeOK
  <2>2. QED
    BY <1>6, <2>1 DEF SaveWrite, TypeOK
<1>7. ASSUME NEW p \in Proc, EnterLoop(p)
      PROVE  Excluded'
  BY <1>7 DEF EnterLoop, TypeOK
<1>8. ASSUME NEW p \in Proc, Release(p)
      PROVE  Excluded'
  BY <1>8 DEF Release, TypeOK
<1>9. ASSUME NEW p \in Proc, Exit(p)
      PROVE  Excluded'
  BY <1>9 DEF Exit, Ends, TypeOK
<1>10. ASSUME NEW q \in Pid, OtherStarts(q) \/ OtherEnds(q)
       PROVE  Excluded'
  BY <1>10 DEF OtherStarts, OtherEnds
<1>11. QED
  BY <1>1, <1>2, <1>3, <1>4, <1>5, <1>6, <1>7, <1>8, <1>9, <1>10 DEF Sighted, TryLock

\* The invariant is kept: what excuses is remembered.
LEMMA StepIInv ==
  ASSUME ~Daemonize, IInv, [Next]_vars
  PROVE  IInv'
<1>1. TypeOK /\ TypeOK' /\ HasPid /\ HasPid' /\ (~excused => Excluded)
  BY InvariantParts, TypeStep, HasPidStep
<1>2. ~excused' => Excluded'
  <2>1. CASE Sighted /\ excused' = (excused \/ Overlap')
    BY <1>1, <2>1, ExcludedStep DEF TypeOK
  <2>2. CASE excused' = TRUE
    BY <2>2
  <2>3. CASE UNCHANGED vars
    BY <1>1, <2>3 DEF vars, Excluded, Overlap, CreatorAlone, KnowsHolder, WritesLockFile
  <2>4. QED
    BY <2>1, <2>2, <2>3 DEF Next
<1>3. QED
  BY <1>1, <1>2 DEF IInv, Excluded, OneInstance, LockHeld

\* The inductive invariant holds in every reachable state.
LEMMA Invariance ==
  ASSUME ~Daemonize
  PROVE  Spec => []IInv
<1>1. Init => IInv
  BY InitIInv
<1>2. IInv /\ [Next]_vars => IInv'
  BY StepIInv
<1>3. QED
  BY <1>1, <1>2, PTL DEF Spec

-----------------------------------------------------------------------------
\* Only one instance of evfd runs (evfd_lock.h:10), if none forks, until two are
\* between the load and the save of the pid at once or one is blind.
THEOREM OnlyOneInstance ==
  ASSUME ~Daemonize
  PROVE  Spec => []OneInstance
<1>1. IInv => OneInstance
  BY DEF IInv
<1>2. QED
  BY <1>1, Invariance, PTL

\* Until then the lock file holds the process id of the instance that runs.
THEOREM LockFileNamesInstance ==
  ASSUME ~Daemonize
  PROVE  Spec => []LockHeld
<1>1. IInv => LockHeld
  BY DEF IInv
<1>2. QED
  BY <1>1, Invariance, PTL

\* Until then nobody removes or replaces the lock file of an instance that runs.
THEOREM LockFileIsKept ==
  ASSUME ~Daemonize
  PROVE  Spec => KeptWhileRunning
<1> DEFINE Kept == ~excused =>
        \A p \in Proc : pc[p] \in Instance /\ pc'[p] \in Instance => name' = name
<1>1. IInv /\ [Next]_vars => [Kept]_vars
  <2> SUFFICES ASSUME IInv, [Next]_vars, ~excused,
                      NEW q \in Proc, pc[q] \in Instance, pc'[q] \in Instance
               PROVE  name' = name
    OBVIOUS
  <2>1. ASSUME NEW p \in Proc, SaveOpen(p)
        PROVE  FALSE
    BY <2>1 DEF IInv, CreatorAlone, SaveOpen, Saving
  <2>2. ASSUME NEW p \in Proc, Release(p)
        PROVE  FALSE
    BY <2>2 DEF IInv, TypeOK, OneInstance, Release, Instance
  <2>3. QED
    BY <2>1, <2>2 DEF Next, Sighted, Blind, TryLock, vars, Start, LoadOpen, LoadRead,
                      LoadFails, StatFails, Check, Ends, SaveWrite, EnterLoop, Exit,
                      OtherStarts, OtherEnds
<1>2. QED
  BY <1>1, Invariance, PTL DEF Spec, KeptWhileRunning
=============================================================================
