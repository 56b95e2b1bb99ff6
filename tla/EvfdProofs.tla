----------------------------- MODULE EvfdProofs -----------------------------
(***************************************************************************)
(* Evfd, proved for any set of devices and descriptors: the daemon uses    *)
(* its io queue as IoQueue asks, and the inductive invariant IInv of Evfd, *)
(* from which follow that one line consumes a device's events, that lines  *)
(* commit to uinput devices of their own and that no device is forgotten.  *)
(*                                                                         *)
(* What is known of the queue is taken from IoQueueProofs: QP is the same  *)
(* instance as Q of Evfd, with the theorems.                               *)
(***************************************************************************)
EXTENDS Evfd, FiniteSetTheorems, FunctionTheorems, SequenceTheorems, TLAPS

QP == INSTANCE IoQueueProofs WITH
        Returns <- {{}, {"REM"}}, open <- Open, data <- Data

-----------------------------------------------------------------------------
(* The queue in the daemon.                                                *)

\* The daemon's descriptors and its callbacks' return values are what IoQueue
\* assumes of its constants.
LEMMA QueueAssumptions ==
    /\ Fd \subseteq Nat
    /\ MaxCnt \in Nat
    /\ {{}, {"REM"}} \subseteq SUBSET QP!Flag
    /\ \A f \in {{}, {"REM"}} : f # {} => "REM" \in f
  <1>1. {"REM"} \subseteq QP!Flag /\ {} \subseteq QP!Flag
    BY DEF QP!Flag
  <1>2. Fd \subseteq Nat /\ MaxCnt \in Nat
    BY EvfdAssumption
  <1> QED
    BY <1>1, <1>2

\* Q and QP are one instance under two names: their invariants,
LEMMA SameInvariant == Q!IInv <=> QP!IInv
  BY DEF Q!IInv, QP!IInv, Q!TypeOK, QP!TypeOK, Q!Sorted, QP!Sorted, Q!Descending,
         QP!Descending, Q!NoStaleBit, QP!NoStaleBit, Q!CntCoversList, QP!CntCoversList,
         Q!PassPosition, QP!PassPosition, Q!InLoop, QP!InLoop, Q!Behind, QP!Behind,
         Q!Ahead, QP!Ahead, Q!Members, QP!Members, QP!ToSet, Q!ToSet

\* their initial states,
LEMMA SameInit == Q!Init <=> QP!Init
  BY DEF Q!Init, QP!Init

\* and their steps are the same.
LEMMA SameNext == [Q!Next]_(Q!vars) <=> [QP!Next]_(QP!vars)
  BY DEF Q!Next, QP!Next, Q!vars, QP!vars, Q!Program, QP!Program, Q!Loop, QP!Loop,
         Q!Finish, QP!Finish, Q!Drain, QP!Drain, Q!DataArrives, QP!DataArrives,
         Q!OpenFd, QP!OpenFd, Q!CloseFd, QP!CloseFd, Q!Add, QP!Add, Q!Rem, QP!Rem,
         Q!Destroy, QP!Destroy, Q!New, QP!New, Q!Select, QP!Select, Q!Rearm, QP!Rearm,
         Q!Dispatch, QP!Dispatch, Q!Return, QP!Return, Q!Advance, QP!Advance,
         Q!Ready, QP!Ready, Q!FdSet, QP!FdSet, Q!FdClr, QP!FdClr, Q!InProgram, QP!InProgram,
         Q!ListInsert, QP!ListInsert, Q!ListDelete, QP!ListDelete, Q!Members, QP!Members,
         Q!queueVars, QP!queueVars, Q!kernelVars, QP!kernelVars, Q!ghostVars, QP!ghostVars,
         QP!ToSet, Q!ToSet, QP!InsertAt, Q!InsertAt, QP!RemoveAt, Q!RemoveAt

\* So the queue's invariant holds at the start,
LEMMA QueueInit == Q!Init => Q!IInv
  BY QueueAssumptions, SameInvariant, SameInit, QP!InitIInv DEF QP!Flag

\* and every step of the queue keeps it.
LEMMA QueueNext == Q!IInv /\ [Q!Next]_(Q!vars) => Q!IInv'
  <1>1. QP!IInv /\ [QP!Next]_(QP!vars) => QP!IInv'
    BY QueueAssumptions, QP!NextIInv DEF QP!Flag
  <1>2. Q!IInv' <=> QP!IInv'
    BY SameInvariant, PTL
  <1> QED
   BY <1>1, <1>2, SameInvariant, SameNext

\* A device is none of the other things a descriptor or a name may be.
LEMMA Names ==
    \A d \in Dev : d \notin {"free", "hotplug", "uinput", "own", "none"}
  BY EvfdAssumption

\* What the queue's invariant says of its members, in the daemon's terms.
LEMMA QueueFacts ==
    ASSUME Q!IInv
    PROVE  /\ list \in Seq(Fd) /\ Members \subseteq Fd
           /\ Open \subseteq Fd /\ Data \subseteq Open
           /\ pc \in {"idle", "scan", "callback", "gone"} /\ here \in Fd \cup {0}
           /\ \A fd \in Members : fd \in Open \/ (pc = "callback" /\ fd = here)
           /\ pc \in {"scan", "callback"} => here \in Members
           /\ 0 \notin Fd
  <1>1. ToSet(list) = Q!ToSet(list)
    BY DEF ToSet, Q!ToSet
  <1>2. list \in Seq(Fd) /\ ToSet(list) \subseteq Fd
    BY DEF Q!IInv, Q!TypeOK, ToSet
  <1> QED
    BY <1>1, <1>2, EvfdAssumption
    DEF Q!IInv, Q!TypeOK, Q!NoStaleBit, Q!PassPosition, Q!InLoop, Q!Members, Members

\* Adding a descriptor to the queue makes it a member.
LEMMA AddMembers ==
    ASSUME Q!IInv, NEW fd \in Fd, Q!Add(fd)
    PROVE  Members' = Members \cup {fd}
  <1>1. /\ QP!Descending(list) /\ fd \notin QP!ToSet(list)
        /\ QP!ListInsert(list, fd, list')
    BY DEF Q!IInv, Q!Sorted, Q!Descending, QP!Descending, Q!Add, Q!Members, Q!ToSet,
           QP!ToSet, Q!ListInsert, QP!ListInsert, Q!InsertAt, QP!InsertAt
  <1>2. QP!ToSet(list') = QP!ToSet(list) \cup {fd}
    BY <1>1, QueueFacts, QueueAssumptions, QP!InsertKeepsOrder DEF QP!Flag
  <1> QED
    BY <1>2 DEF Members, ToSet, QP!ToSet

\* A callback's member leaves the list when the callback asks for it.
LEMMA ReturnMembers ==
    ASSUME Q!IInv, NEW flags, Q!Return(flags)
    PROVE  Members' = IF "REM" \in flags THEN Members \ {here} ELSE Members
  <1>1. here \in Fd
    BY QueueFacts DEF Q!Return
  <1>2. CASE "REM" \in flags
    <2>1. /\ QP!Descending(list)
          /\ QP!ListDelete(list, here, list')
      BY <1>2
      DEF Q!IInv, Q!Sorted, Q!Descending, QP!Descending, Q!Return, Q!ToSet,
          QP!ToSet, Q!ListDelete, QP!ListDelete, Q!RemoveAt, QP!RemoveAt
    <2>2. QP!ToSet(list') = QP!ToSet(list) \ {here}
      BY <1>1, <2>1, QueueFacts, QueueAssumptions, QP!DeleteKeepsOrder DEF QP!Flag
    <2> QED
      BY <1>2, <2>2 DEF Members, ToSet, QP!ToSet
  <1>3. CASE "REM" \notin flags
    BY <1>3 DEF Q!Return, Members
  <1> QED
    BY <1>2, <1>3

-----------------------------------------------------------------------------
(* device_plugged() when a call of it has failed.                          *)

\* It is done with the name, and if nothing else will make a line of the device,
\* the device has missed its line.
LEMMA GivesUpEffect ==
    ASSUME TypeOK, batch # << >>, GivesUp
    PROVE  /\ NextName
           /\ batch' = Tail(batch) /\ batch' \in Seq(Dev \cup {"own"})
           /\ at' = "none" /\ dev' = "none" /\ ufd' = 0 /\ lfd' = 0
           /\ missed \subseteq missed' /\ missed' \subseteq Dev
           /\ \/ Head(batch) \notin plugged \ missed'
              \/ grab[Head(batch)] # 0
              \/ \E i \in 1..Len(events) : events[i] = Head(batch)
              \/ \E i \in 1..Len(batch') : batch'[i] = Head(batch)
  <1>1. /\ NextName /\ batch' = Tail(batch)
        /\ missed' = missed \cup {d \in {Head(batch)} \cap plugged :
                                     grab[d] = 0 /\ d \notin ToSet(events \o Tail(batch))}
    BY DEF GivesUp, NextName
  <1>2. /\ events \in Seq(Dev \cup {"own"}) /\ Tail(batch) \in Seq(Dev \cup {"own"})
        /\ missed \subseteq Dev /\ plugged \subseteq Dev
    BY DEF TypeOK
  <1>3. ASSUME NEW d, d \in ToSet(events \o Tail(batch))
        PROVE  \/ \E i \in 1..Len(events) : events[i] = d
               \/ \E i \in 1..Len(Tail(batch)) : Tail(batch)[i] = d
    <2> DEFINE t == Tail(batch)
    <2>1. PICK i \in 1..Len(events \o t) : (events \o t)[i] = d
      BY <1>3 DEF ToSet
    <2>2. t \in Seq(Dev \cup {"own"}) /\ Len(events) \in Nat /\ Len(t) \in Nat
      BY <1>2
    <2> HIDE DEF t
    <2>3. Len(events \o t) = Len(events) + Len(t)
      BY <1>2, <2>2
    <2>4. CASE i <= Len(events)
      BY <1>2, <2>1, <2>2, <2>3, <2>4
    <2>5. CASE i > Len(events)
      <3>1. (events \o t)[i] = t[i - Len(events)] /\ i - Len(events) \in 1..Len(t)
        BY <1>2, <2>1, <2>2, <2>3, <2>5
      <3> QED
        BY <2>1, <3>1 DEF t
    <2>6. i <= Len(events) \/ i > Len(events)
      BY <2>2, <2>3
    <2> QED
      BY ONLY <2>4, <2>5, <2>6
  <1> QED
    BY <1>1, <1>2, <1>3 DEF NextName

\* It closes the uinput device it has made,
LEMMA CloseUinput ==
    ASSUME TypeOK, Descriptors, at \in {"create", "line", "add"}, Close(ufd)
    PROVE  /\ ufd \in Fd \ Members /\ use[ufd] = "uinput"
           /\ use' \in [Fd -> {"free", "hotplug", "uinput"} \cup Dev]
           /\ use'[ufd] = "free" /\ \A f \in Fd \ {ufd} : use'[f] = use[f]
           /\ Lines' = Lines /\ Watch' = Watch
           /\ ufd \in Open /\ Open' = Open \ {ufd}
  <1>1. ufd \in Fd \ Members /\ use[ufd] = "uinput"
    BY DEF Descriptors
  <1>2. /\ use' \in [Fd -> {"free", "hotplug", "uinput"} \cup Dev]
        /\ use'[ufd] = "free" /\ \A f \in Fd \ {ufd} : use'[f] = use[f]
    BY <1>1 DEF TypeOK, Close
  <1> QED
    BY <1>1, <1>2, Names DEF Lines, Watch, Open

\* and the line that the queue did not take.
LEMMA CloseLine ==
    ASSUME TypeOK, Descriptors, at = "drop", dev \in Dev, Close(lfd)
    PROVE  /\ lfd \in Fd \ Members /\ use[lfd] = dev
           /\ use' \in [Fd -> {"free", "hotplug", "uinput"} \cup Dev]
           /\ use'[lfd] = "free" /\ \A f \in Fd \ {lfd} : use'[f] = use[f]
           /\ Lines' = Lines \ {lfd} /\ Watch' = Watch
           /\ lfd \in Open /\ Open' = Open \ {lfd}
  <1>1. lfd \in Fd \ Members /\ use[lfd] = dev
    BY DEF Descriptors
  <1>2. /\ use' \in [Fd -> {"free", "hotplug", "uinput"} \cup Dev]
        /\ use'[lfd] = "free" /\ \A f \in Fd \ {lfd} : use'[f] = use[f]
    BY <1>1 DEF TypeOK, Close
  <1> QED
    BY <1>1, <1>2, Names DEF Lines, Watch, Open

-----------------------------------------------------------------------------
(* Every step of the daemon is a step of its queue.                        *)

\* The kernel's steps.
LEMMA KernelQueueStep ==
    ASSUME IInv, Kernel
    PROVE  [Q!Next]_(Q!vars)
  <1>1. CASE Signal
    BY <1>1
    DEF Signal, fdVars, queueVars, deviceVars, Data, Open, Watch, Q!vars, Q!queueVars,
        Q!kernelVars, Q!ghostVars
  <1>2. ASSUME NEW d \in Dev, PlugIn(d) PROVE Q!DataArrives(Watch)
    <2>1. /\ Watch' = Watch /\ Open' = Open /\ Watch \subseteq Open
          /\ UNCHANGED <<list, rfds, cnt, pc, here, fresh, dropped, input, gone>>
      BY <1>2 DEF PlugIn, queueVars, fdVars, Watch, Open
    <2>2. Data' = Data \cup Watch
      <3>1. CASE Watch = {}
        BY <2>1, <3>1 DEF Data
      <3>2. CASE Watch # {}
        <4>1. events' = Append(events, d)
          BY <1>2, <3>2 DEF PlugIn, Appears
        <4>2. events' # << >>
          BY <4>1 DEF IInv, TypeOK
        <4> QED
          BY <2>1, <4>2 DEF Data
      <3> QED
        BY <3>1, <3>2
    <2> QED
      BY <2>1, <2>2 DEF Q!DataArrives, Q!queueVars, Q!ghostVars
  <1>3. ASSUME NEW d \in Dev, Unplug(d)
        PROVE  Q!DataArrives({fd \in Fd : use[fd] = d})
    <2> DEFINE some == {fd \in Fd : use[fd] = d}
    <2>1. /\ Watch' = Watch /\ Open' = Open
          /\ UNCHANGED <<list, rfds, cnt, pc, here, fresh, dropped, events>>
      BY <1>3 DEF Unplug, queueVars, Watch, Open
    <2>2. some \subseteq Open
      BY Names DEF Open
    <2>3. gone' = gone \cup some /\ input' = input \ some /\ input \subseteq Fd
      BY <1>3 DEF Unplug, IInv, TypeOK, Lines
    <2>4. Data' = Data \cup some
      BY <2>1, <2>3 DEF Data
    <2> QED
      BY <2>1, <2>2, <2>4 DEF Q!DataArrives, Q!queueVars, Q!ghostVars
  <1>4. ASSUME NEW d \in Dev, DeviceEvent(d) PROVE Q!DataArrives(Readers(d))
    BY <1>4, Names
    DEF DeviceEvent, Readers, Q!DataArrives, queueVars, deviceVars, mainVars,
        handlerVars, Data, Open, Watch, Q!queueVars, Q!ghostVars
  <1>5. ASSUME NEW fds, Q!DataArrives(fds) PROVE Q!Next
    <2>1. fds \in SUBSET Open
      BY <1>5 DEF Q!DataArrives
    <2> QED
      BY <1>5, <2>1 DEF Q!Next
  <1> QED
    BY <1>1, <1>2, <1>3, <1>4, <1>5 DEF Kernel

\* device_plugged(): it opens and closes descriptors that are no members, and
\* adds the line's.
LEMMA PluggedQueueStep ==
    ASSUME IInv, DevicePlugged
    PROVE  [Q!Next]_(Q!vars)
  <1> USE DEF queueVars, fdVars, mainVars, Q!queueVars, Q!ghostVars
  <1>0. /\ Q!IInv /\ TypeOK /\ Descriptors /\ Handling /\ Turns
        /\ Members \subseteq Fd /\ Data \subseteq Open /\ Open \subseteq Fd
        /\ 0 \notin Fd
    BY QueueFacts DEF IInv
  <1>1. CASE PlugBegin
    BY <1>1 DEF PlugBegin, Data, Open, Watch, Q!vars, Q!kernelVars
  <1>2. AtWork => pc \in {"idle", "callback"} /\ (pc = "callback" => use[here] = "hotplug")
    BY <1>0 DEF Handling, Plugging, InHotplug, Turns, AtWork
  <1>3. ASSUME NEW fd \in Fd, NEW u \in {"uinput"} \cup Dev,
               AtWork, NewFd(fd), use' = [use EXCEPT ![fd] = u],
               UNCHANGED <<queueVars, gone, input, events>>
        PROVE  Q!OpenFd(fd)
    <2>1. fd \notin Open /\ use[fd] = "free"
      BY <1>3 DEF NewFd, Free, Open
    <2>2. pc = "callback" => fd # here
      BY <1>2, <1>3, <2>1
    <2>3. Open' = Open \cup {fd} /\ Watch' = Watch
      BY <1>0, <1>3, <2>1, Names DEF TypeOK, Open, Watch
    <2>4. Data' = Data
      BY <1>3, <2>3 DEF Data
    <2> QED
      BY <1>2, <1>3, <2>1, <2>2, <2>3, <2>4 DEF Q!OpenFd, Q!InProgram
  <1>4. CASE OpenUinput
    <2>1. CASE UNCHANGED use
      BY <1>4, <2>1 DEF OpenUinput, Data, Open, Watch, Q!vars, Q!kernelVars
    <2>2. ASSUME NEW fd \in Fd, NewFd(fd), use' = [use EXCEPT ![fd] = "uinput"]
          PROVE  Q!OpenFd(fd)
      BY <1>3, <1>4, <2>2 DEF OpenUinput, AtWork
    <2> QED
      BY <1>4, <2>1, <2>2 DEF OpenUinput, Q!Next, Q!Program
  <1>8. ASSUME at \in {"create", "line", "add"}, Close(ufd),
               UNCHANGED <<queueVars, gone, input, events>>
        PROVE  Q!Next
    <2>1. /\ ufd \in Fd \ Members /\ use[ufd] = "uinput" /\ ufd \in Open
          /\ Open' = Open \ {ufd} /\ Watch' = Watch
      BY <1>0, <1>8, CloseUinput
    <2>2. ufd \notin Data
      BY <1>0, <2>1, Names DEF TypeOK, Data, Watch, Lines
    <2>3. Data' = Data \ {ufd}
      BY <1>8, <2>1, <2>2 DEF Data
    <2>4. Q!CloseFd(ufd)
      BY <1>2, <1>8, <2>1, <2>3
      DEF AtWork, Q!CloseFd, Q!InProgram, Q!Members, Q!ToSet, Members, ToSet
    <2> QED
      BY <2>1, <2>4 DEF Q!Next, Q!Program
  <1>5. CASE CreateUinput
    <2>2. CASE Close(ufd) /\ UNCHANGED events
      BY <1>5, <1>8, <2>2 DEF CreateUinput
    <2>3. CASE Appears("own") /\ UNCHANGED use
      <3>1. /\ Watch' = Watch /\ Open' = Open /\ Watch \subseteq Open
            /\ UNCHANGED <<list, rfds, cnt, pc, here, fresh, dropped, input, gone>>
        BY <1>5, <2>3 DEF CreateUinput, Watch, Open
      <3>2. Data' = Data \cup Watch
        <4>1. CASE Watch = {}
          BY <2>3, <3>1, <4>1 DEF Data, Appears
        <4>2. CASE Watch # {}
          <5>1. events' = Append(events, "own")
            BY <2>3, <4>2 DEF Appears
          <5>2. events' # << >>
            BY <1>0, <5>1 DEF TypeOK
          <5> QED
            BY <3>1, <5>2 DEF Data
        <4> QED
          BY <4>1, <4>2
      <3>3. Q!DataArrives(Watch)
        BY <3>1, <3>2 DEF Q!DataArrives
      <3> QED
        BY <3>3 DEF Q!Next, Q!DataArrives
    <2> QED
      BY <1>5, <2>2, <2>3 DEF CreateUinput
  <1>6. CASE CreateLine
    <2>1. CASE Close(ufd)
      BY <1>6, <1>8, <2>1 DEF CreateLine
    <2>2. ASSUME NEW fd \in Fd, NewFd(fd), use' = [use EXCEPT ![fd] = dev]
          PROVE  Q!OpenFd(fd)
      <3>1. dev \in {"uinput"} \cup Dev
        BY <1>0, <1>6 DEF CreateLine, Handling, AtWork
      <3> QED
        BY <1>3, <1>6, <2>2, <3>1 DEF CreateLine, AtWork
    <2> QED
      BY <1>6, <2>1, <2>2 DEF CreateLine, Q!Next, Q!Program
  <1>7. CASE AddLine
    BY <1>0, <1>7 DEF AddLine, Descriptors, Q!Next, Q!Program
  <1>9. CASE AddFails
    BY <1>8, <1>9 DEF AddFails, deviceVars
  <1>10. CASE DropLine
    <2>1. /\ lfd \in Fd \ Members /\ lfd \in Open /\ use[lfd] \in Dev
          /\ Open' = Open \ {lfd} /\ Watch' = Watch
      BY <1>0, <1>10, CloseLine DEF DropLine, Handling, AtWork
    <2>2. Data' = Data \ {lfd}
      BY <1>10, <2>1, Names DEF DropLine, Data, Watch
    <2>3. Q!CloseFd(lfd)
      BY <1>2, <1>10, <2>1, <2>2
      DEF DropLine, AtWork, Q!CloseFd, Q!InProgram, Q!Members, Q!ToSet, Members, ToSet
    <2> QED
      BY <2>1, <2>3 DEF Q!Next, Q!Program
  <1> QED
    BY <1>1, <1>4, <1>5, <1>6, <1>7, <1>9, <1>10 DEF DevicePlugged

\* main(), up to the end of the daemon.
LEMMA MainQueueStep ==
    ASSUME IInv, Main
    PROVE  [Q!Next]_(Q!vars)
  <1> USE DEF queueVars, fdVars, mainVars, deviceVars, Q!queueVars, Q!ghostVars
  <1>0. TypeOK /\ Descriptors /\ Turns
    BY DEF IInv
  <1>1. CASE WatchHotplug
    <2>1. CASE UNCHANGED use
      BY <1>1, <2>1 DEF WatchHotplug, Data, Open, Watch, Q!vars, Q!kernelVars
    <2>2. ASSUME NEW fd \in Fd, NewFd(fd), use' = [use EXCEPT ![fd] = "hotplug"]
          PROVE  Q!OpenFd(fd)
      <3>1. fd \notin Open /\ use[fd] = "free"
        BY <2>2 DEF NewFd, Free, Open
      <3>2. events = << >> /\ events' = events /\ pc = "idle"
        BY <1>0, <1>1 DEF WatchHotplug, Descriptors, Turns
      <3>3. Open' = Open \cup {fd}
        BY <1>0, <2>2, <3>1 DEF TypeOK, Open
      <3>4. Data' = Data
        BY <1>1, <3>2 DEF WatchHotplug, Data
      <3> QED
        BY <1>1, <3>1, <3>2, <3>3, <3>4 DEF WatchHotplug, Q!OpenFd, Q!InProgram
    <2> QED
      BY <1>1, <2>1, <2>2 DEF WatchHotplug, Q!Next, Q!Program
  <1>2. CASE AddHotplug
    <2>1. CASE UNCHANGED queueVars
      BY <1>2, <2>1 DEF AddHotplug, Data, Open, Watch, Q!vars, Q!kernelVars
    <2>2. ASSUME NEW fd \in Watch, Q!Add(fd) PROVE Q!Next
      BY <2>2 DEF Watch, Q!Next, Q!Program
    <2> QED
      BY <1>2, <2>1, <2>2 DEF AddHotplug
  <1>3. CASE CheckLooping \/ EnterSelect
    BY <1>3
    DEF CheckLooping, EnterSelect, Data, Open, Watch, Q!vars, Q!kernelVars
  <1>4. CASE SelectReturns \/ Pass
    BY <1>4 DEF SelectReturns, Pass, Q!Next, Q!Loop
  <1>5. CASE Cleanup
    <2>1. Members \cap Lines \in SUBSET Q!Members
      BY DEF Members, Q!Members, ToSet, Q!ToSet
    <2> QED
      BY <1>5, <2>1 DEF Cleanup, Q!Next, Q!Program
  <1> QED
    BY <1>1, <1>2, <1>3, <1>4, <1>5 DEF Main

\* The callbacks read, close and return as the queue asks of them.
LEMMA CallbackQueueStep ==
    ASSUME IInv, Callback
    PROVE  [Q!Next]_(Q!vars)
  <1> USE DEF queueVars, fdVars, mainVars, deviceVars, Q!queueVars, Q!ghostVars
  <1>0. /\ TypeOK /\ Descriptors /\ here \in Fd \cup {0} /\ Q!IInv
        /\ pc = "callback" => here \in Fd
    BY QueueFacts DEF IInv
  <1>1. CASE HotplugRead
    <2>1. /\ pc = "callback" /\ here \in Watch /\ events # << >> /\ events' = << >>
          /\ UNCHANGED <<queueVars, use, gone, input>>
      BY <1>0, <1>1 DEF HotplugRead, InHotplug, Watch
    <2>2. Watch = {here} /\ here \notin gone \cup input
      BY <1>0, <2>1, Names DEF Descriptors, TypeOK, Lines, Watch
    <2>3. here \in Data /\ Data' = Data \ {here} /\ Open' = Open
      BY <2>1, <2>2 DEF Data, Open
    <2> QED
      BY <2>1, <2>3 DEF Q!Drain, Q!Next
  <1>2. CASE HotplugReturn
    BY <1>2 DEF HotplugReturn, Q!Next, Q!Finish
  <1>3. CASE LineRead
    <2>1. /\ pc = "callback" /\ here \in input
          /\ \/ input' = input \ {here}
             \/ input' = input
          /\ UNCHANGED <<queueVars, use, gone, events>>
      BY <1>3 DEF LineRead
    <2>2. here \notin gone \cup Watch
      BY <1>0, <2>1, Names DEF Descriptors, TypeOK, Lines, Watch
    <2>3. Open' = Open /\ Watch' = Watch
      BY <2>1 DEF Open, Watch
    <2>4. CASE input' = input
      BY <2>1, <2>3, <2>4 DEF Data, Q!vars, Q!kernelVars
    <2>5. CASE input' = input \ {here}
      BY <2>1, <2>2, <2>3, <2>5 DEF Data, Q!Drain, Q!Next
    <2> QED
      BY <2>1, <2>4, <2>5
  <1>4. CASE LineGone
    <2>1. /\ pc = "callback" /\ here \in gone /\ gone' = gone \ {here}
          /\ use' = [use EXCEPT ![here] = "free"]
          /\ UNCHANGED <<queueVars, input, events>>
      BY <1>4 DEF LineGone
    <2>2. here \in Fd /\ use[here] \in Dev /\ here \notin input
      BY <1>0, <2>1 DEF Descriptors, TypeOK, Lines
    <2>3. Open' = Open \ {here} /\ Watch' = Watch /\ here \in Open /\ here \notin Watch
      BY <1>0, <2>1, <2>2, Names DEF TypeOK, Open, Watch
    <2>4. Data' = Data \ {here}
      BY <2>1, <2>2, <2>3 DEF Data
    <2>5. Q!CloseFd(here)
      BY <2>1, <2>3, <2>4 DEF Q!CloseFd, Q!InProgram
    <2> QED
      BY <2>2, <2>5 DEF Q!Next, Q!Program
  <1>5. CASE LineReturn
    <2>1. Q!Return({"REM"}) \/ Q!Return({})
      BY <1>5 DEF LineReturn
    <2> QED
      BY <2>1 DEF Q!Next, Q!Finish
  <1> QED
    BY <1>1, <1>2, <1>3, <1>4, <1>5 DEF Callback

\* All together, and the step that changes nothing.
LEMMA QueueStep ==
    ASSUME IInv, [Next]_vars
    PROVE  [Q!Next]_(Q!vars) /\ Q!IInv'
  <1>1. ASSUME UNCHANGED vars PROVE UNCHANGED Q!vars
    BY <1>1
    DEF vars, queueVars, fdVars, deviceVars, Data, Open, Watch, Q!vars, Q!queueVars,
        Q!kernelVars, Q!ghostVars
  <1>2. [Q!Next]_(Q!vars)
    BY <1>1, KernelQueueStep, PluggedQueueStep, MainQueueStep, CallbackQueueStep DEF Next
  <1> QED
    BY <1>2, QueueNext DEF IInv

-----------------------------------------------------------------------------
(* Every step keeps the invariant, part by part.                           *)

\* A node appears: its name goes to the end of the events or of the batch.
LEMMA AppearsNames ==
    ASSUME TypeOK, NEW name \in Dev \cup {"own"}, Appears(name)
    PROVE  /\ events' \in Seq(Dev \cup {"own"}) /\ batch' \in Seq(Dev \cup {"own"})
           /\ events' = IF Watch # {} THEN Append(events, name) ELSE events
           /\ batch' = batch \/ (main = "walk" /\ batch' = Append(batch, name))
  <1>1. events \in Seq(Dev \cup {"own"}) /\ batch \in Seq(Dev \cup {"own"})
    BY DEF TypeOK
  <1>2. /\ Append(events, name) \in Seq(Dev \cup {"own"})
        /\ Append(batch, name) \in Seq(Dev \cup {"own"})
    BY <1>1
  <1> QED
    BY <1>1, <1>2 DEF Appears

\* The types.
LEMMA KernelTypes ==
    ASSUME IInv, Q!IInv', Kernel
    PROVE  TypeOK'
  <1> USE DEF queueVars, fdVars, deviceVars, mainVars, handlerVars
  <1>0. TypeOK /\ Q!TypeOK'
    BY DEF IInv, Q!IInv
  <1>1. CASE Signal
    BY <1>0, <1>1 DEF Signal, TypeOK, Lines
  <1>2. ASSUME NEW d \in Dev, PlugIn(d) PROVE TypeOK'
    <2>1. events' \in Seq(Dev \cup {"own"}) /\ batch' \in Seq(Dev \cup {"own"})
      BY <1>0, <1>2, AppearsNames DEF PlugIn
    <2>2. plugs' \in 0..MaxPlugs
      BY <1>0, <1>2, EvfdAssumption DEF PlugIn, TypeOK
    <2> QED
      BY <1>0, <1>2, <2>1, <2>2 DEF PlugIn, TypeOK, Lines
  <1>3. ASSUME NEW d \in Dev, Unplug(d) PROVE TypeOK'
    BY <1>0, <1>3 DEF Unplug, TypeOK, Lines
  <1>4. ASSUME NEW d \in Dev, DeviceEvent(d) PROVE TypeOK'
    BY <1>0, <1>4 DEF DeviceEvent, Readers, TypeOK, Lines
  <1> QED
    BY <1>1, <1>2, <1>3, <1>4 DEF Kernel

\* The types, through device_plugged(),
LEMMA PluggedTypes ==
    ASSUME IInv, Q!IInv', DevicePlugged
    PROVE  TypeOK'
  <1> USE DEF queueVars, fdVars, deviceVars, mainVars, handlerVars
  <1>0. TypeOK /\ Q!TypeOK' /\ Descriptors /\ (AtWork => dev \in Dev)
    BY DEF IInv, Q!IInv, Handling
  <1>1. batch # << >>
    BY DEF IInv, Handling, AtWork, DevicePlugged, PlugBegin, OpenUinput, CreateUinput,
           CreateLine, AddLine, AddFails, DropLine
  <1>2. Head(batch) \in Dev \cup {"own"} /\ Tail(batch) \in Seq(Dev \cup {"own"})
    BY <1>0, <1>1 DEF TypeOK
  <1>8. /\ Succeeds \/ Fails \/ MayFail => errno' \in BOOLEAN
        /\ GivesUp => /\ batch' \in Seq(Dev \cup {"own"}) /\ missed' \subseteq Dev
                      /\ at' = "none" /\ dev' = "none" /\ ufd' = 0 /\ lfd' = 0
    BY <1>0, <1>1, GivesUpEffect DEF Succeeds, Fails, MayFail, TypeOK
  <1>3. CASE PlugBegin
    <2>1. ~OurInputDevice(Head(batch)) => Head(batch) \in Dev
      BY <1>2 DEF OurInputDevice
    <2> QED
      BY <1>0, <1>3, <1>8, <2>1 DEF PlugBegin, TypeOK, Lines
  <1>4. CASE OpenUinput
    <2>1. ASSUME NEW fd \in Fd, NewFd(fd), use' = [use EXCEPT ![fd] = "uinput"]
          PROVE  Lines' = Lines
      BY <1>0, <2>1, Names DEF NewFd, Free, Open, Lines, TypeOK
    <2>2. UNCHANGED use => Lines' = Lines
      BY DEF Lines
    <2>3. use' \in [Fd -> {"free", "hotplug", "uinput"} \cup Dev] /\ Lines' = Lines
      BY <1>0, <1>4, <2>1, <2>2 DEF OpenUinput, TypeOK
    <2> QED
      BY <1>0, <1>4, <1>8, <2>3 DEF OpenUinput, TypeOK
  <1>5. CASE CreateUinput
    <2>1. CASE GivesUp /\ MayFail /\ Close(ufd) /\ UNCHANGED events
      <3>1. use' \in [Fd -> {"free", "hotplug", "uinput"} \cup Dev] /\ Lines' = Lines
        BY <1>0, <1>5, <2>1, CloseUinput DEF CreateUinput
      <3> QED
        BY <1>0, <1>5, <1>8, <2>1, <3>1 DEF CreateUinput, TypeOK
    <2>2. CASE at' = "line" /\ Appears("own") /\ UNCHANGED <<use, missed, errno, dev, ufd, lfd>>
      <3>1. events' \in Seq(Dev \cup {"own"}) /\ batch' \in Seq(Dev \cup {"own"})
        BY <1>0, <2>2, AppearsNames
      <3> QED
        BY <1>0, <1>5, <2>2, <3>1 DEF CreateUinput, TypeOK, Lines
    <2> QED
      BY <1>5, <2>1, <2>2 DEF CreateUinput
  <1>6. CASE CreateLine
    <2>1. ASSUME NEW fd \in Fd, NewFd(fd), use' = [use EXCEPT ![fd] = dev], dev \in Dev
          PROVE  Lines \subseteq Lines'
      BY <1>0, <2>1, Names DEF NewFd, Free, Open, Lines, TypeOK
    <2>2. CASE GivesUp /\ (IF dev \in plugged THEN MayFail ELSE Fails) /\ Close(ufd)
      <3>1. use' \in [Fd -> {"free", "hotplug", "uinput"} \cup Dev] /\ Lines' = Lines
        BY <1>0, <1>6, <2>2, CloseUinput DEF CreateLine
      <3> QED
        BY <1>0, <1>6, <1>8, <2>2, <3>1 DEF CreateLine, TypeOK
    <2>3. ASSUME NEW fd \in Fd, NewFd(fd), use' = [use EXCEPT ![fd] = dev],
                 at' = "add", lfd' = fd, Succeeds, UNCHANGED <<batch, dev, ufd, missed>>
          PROVE  TypeOK'
      <3>1. dev \in Dev
        BY <1>0, <1>6 DEF CreateLine, AtWork
      <3>2. use' \in [Fd -> {"free", "hotplug", "uinput"} \cup Dev] /\ Lines \subseteq Lines'
        BY <1>0, <2>1, <2>3, <3>1 DEF TypeOK
      <3> QED
        BY <1>0, <1>6, <1>8, <2>3, <3>2 DEF CreateLine, TypeOK
    <2> QED
      BY <1>6, <2>2, <2>3 DEF CreateLine
  <1>7. CASE AddLine
    BY <1>0, <1>2, <1>7, <1>8 DEF AddLine, NextName, Descriptors, TypeOK, Lines
  <1>9. CASE AddFails
    <2>1. use' \in [Fd -> {"free", "hotplug", "uinput"} \cup Dev] /\ Lines' = Lines
      BY <1>0, <1>9, CloseUinput DEF AddFails
    <2> QED
      BY <1>0, <1>8, <1>9, <2>1 DEF AddFails, TypeOK
  <1>10. CASE DropLine
    <2>1. /\ use' \in [Fd -> {"free", "hotplug", "uinput"} \cup Dev]
          /\ Lines' = Lines \ {lfd}
      BY <1>0, <1>10, CloseLine DEF DropLine, AtWork
    <2> QED
      BY <1>0, <1>8, <1>10, <2>1 DEF DropLine, TypeOK
  <1> QED
    BY <1>3, <1>4, <1>5, <1>6, <1>7, <1>9, <1>10 DEF DevicePlugged

\* main(), up to the end of the daemon,
LEMMA MainTypes ==
    ASSUME IInv, Q!IInv', Main
    PROVE  TypeOK'
  <1> USE DEF queueVars, fdVars, deviceVars, mainVars, handlerVars
  <1>0. TypeOK /\ Q!TypeOK' /\ Members \subseteq Fd /\ Descriptors
    BY QueueFacts DEF IInv, Q!IInv
  <1>1. CASE WatchHotplug
    <2>1. ASSUME NEW fd \in Fd, NewFd(fd), use' = [use EXCEPT ![fd] = "hotplug"]
          PROVE  Lines' = Lines
      BY <1>0, <2>1, Names DEF NewFd, Free, Open, Lines, TypeOK
    <2>2. UNCHANGED use => Lines' = Lines
      BY DEF Lines
    <2>3. use' \in [Fd -> {"free", "hotplug", "uinput"} \cup Dev] /\ Lines' = Lines
      BY <1>0, <1>1, <2>1, <2>2 DEF WatchHotplug, TypeOK
    <2> QED
      BY <1>0, <1>1, <2>3 DEF WatchHotplug, TypeOK
  <1>2. CASE AddHotplug
    BY <1>0, <1>2 DEF AddHotplug, TypeOK, Lines
  <1>3. CASE CheckLooping \/ EnterSelect \/ SelectReturns
    BY <1>0, <1>3 DEF CheckLooping, EnterSelect, SelectReturns, TypeOK, Lines
  <1>4. CASE Pass
    BY <1>0, <1>4 DEF Pass, TypeOK, Lines
  <1>5. CASE Cleanup
    <2>1. ASSUME NEW fd \in Lines \ Members PROVE fd \in Lines'
      BY <1>5, <2>1 DEF Cleanup, Lines
    <2>2. gone' \subseteq Lines' /\ input' \subseteq Lines'
      BY <1>0, <1>5, <2>1 DEF Cleanup, TypeOK
    <2>3. use' \in [Fd -> {"free", "hotplug", "uinput"} \cup Dev]
      BY <1>0, <1>5 DEF Cleanup, TypeOK
    <2>4. grab' \in [Dev -> Fd \cup {0}] /\ sink' \in [Fd -> Fd \cup {0}]
      BY <1>5 DEF Cleanup
    <2> QED
      BY <1>0, <1>5, <2>2, <2>3, <2>4 DEF Cleanup, TypeOK
  <1> QED
    BY <1>1, <1>2, <1>3, <1>4, <1>5 DEF Main

\* and the callbacks.
LEMMA CallbackTypes ==
    ASSUME IInv, Q!IInv', Callback
    PROVE  TypeOK'
  <1> USE DEF queueVars, fdVars, deviceVars, mainVars, handlerVars
  <1>0. TypeOK /\ Q!TypeOK'
    BY DEF IInv, Q!IInv
  <1>1. CASE HotplugRead
    <2>1. events' \in Seq(Dev \cup {"own"}) /\ batch' \in Seq(Dev \cup {"own"})
      BY <1>0, <1>1 DEF HotplugRead, TypeOK
    <2> QED
      BY <1>0, <1>1, <2>1 DEF HotplugRead, TypeOK, Lines
  <1>5. CASE HotplugReturn
    BY <1>0, <1>5 DEF HotplugReturn, TypeOK, Lines
  <1>2. CASE LineRead
    BY <1>0, <1>2 DEF LineRead, TypeOK, Lines
  <1>3. CASE LineGone
    <2>1. here \in Fd /\ here \notin input
      BY <1>0, <1>3 DEF LineGone, IInv, Descriptors, TypeOK, Lines
    <2>2. \A fd \in Lines \ {here} : fd \in Lines'
      BY <1>0, <1>3, <2>1 DEF LineGone, TypeOK, Lines
    <2> QED
      BY <1>0, <1>3, <2>1, <2>2 DEF LineGone, TypeOK
  <1>4. CASE LineReturn
    BY <1>0, <1>4 DEF LineReturn, TypeOK, Lines
  <1> QED
    BY <1>1, <1>2, <1>3, <1>4, <1>5 DEF Callback

\* The loop goes on with the next member, or it is over.
LEMMA LoopGoesOn == Q!Advance => (pc' = "idle" /\ here' = 0) \/ pc' = "scan"
  BY DEF Q!Advance

\* The turns of main(), the loop and the callbacks.
LEMMA TurnsKept ==
    ASSUME IInv, Next
    PROVE  Turns'
  <1> USE DEF queueVars, fdVars, deviceVars, mainVars, handlerVars, Turns, Q!InLoop
  <1>0. TypeOK /\ Turns /\ pc \in {"idle", "scan", "callback", "gone"} /\ main # "over"
    BY QueueFacts DEF IInv, Next
  <1>1. CASE Signal
    BY <1>0, <1>1 DEF Signal
  <1>2. CASE \E d \in Dev : PlugIn(d) \/ Unplug(d) \/ DeviceEvent(d)
    BY <1>0, <1>2 DEF PlugIn, Unplug, DeviceEvent
  <1>3. CASE \/ PlugBegin \/ OpenUinput \/ CreateUinput \/ CreateLine
             \/ AddFails \/ DropLine
    BY <1>0, <1>3
    DEF PlugBegin, OpenUinput, CreateUinput, CreateLine, AddFails, DropLine
  <1>4. CASE AddLine
    BY <1>0, <1>4 DEF AddLine, Q!Add
  <1>5. CASE WatchHotplug
    BY <1>0, <1>5 DEF WatchHotplug
  <1>6. CASE AddHotplug
    BY <1>0, <1>6 DEF AddHotplug, Q!Add
  <1>7. CASE CheckLooping \/ EnterSelect
    BY <1>0, <1>7 DEF CheckLooping, EnterSelect
  <1>8. CASE SelectReturns
    BY <1>0, <1>8 DEF SelectReturns, Q!Select
  <1>9. CASE Pass
    BY <1>0, <1>9, LoopGoesOn DEF Pass, Q!Rearm, Q!Dispatch
  <1>10. CASE Cleanup
    BY <1>0, <1>10 DEF Cleanup, Q!Destroy
  <1>11. CASE HotplugRead \/ LineRead \/ LineGone
    BY <1>0, <1>11 DEF HotplugRead, LineRead, LineGone
  <1>12. CASE HotplugReturn \/ LineReturn
    BY <1>0, <1>12, LoopGoesOn DEF HotplugReturn, LineReturn, Q!Return
  <1> QED
    BY <1>1, <1>2, <1>3, <1>4, <1>5, <1>6, <1>7, <1>8, <1>9, <1>10, <1>11, <1>12
    DEF Next, Kernel, DevicePlugged, Main, Callback

\* What is at work, and for which name: the kernel may append to the batch.
LEMMA KernelHandling ==
    ASSUME IInv, Kernel
    PROVE  Handling'
  <1> USE DEF queueVars, fdVars, deviceVars, mainVars, handlerVars, Handling, AtWork,
              Plugging, InHotplug
  <1>0. TypeOK /\ Handling
    BY DEF IInv
  <1>1. CASE Signal
    BY <1>0, <1>1 DEF Signal
  <1>2. ASSUME NEW d \in Dev, PlugIn(d) PROVE Handling'
    <2>1. batch' = batch \/ (main = "walk" /\ batch' = Append(batch, d))
      BY <1>0, <1>2, AppearsNames DEF PlugIn
    <2>2. batch' # << >> => batch # << >> \/ main = "walk"
      BY <2>1
    <2>3. batch # << >> => batch' # << >> /\ Head(batch') = Head(batch)
      BY <1>0, <2>1 DEF TypeOK
    <2>4. UNCHANGED <<pc, here, use, main, at, dev>>
      BY <1>2 DEF PlugIn
    <2>5. at \in {"start", "done", "closed"} => batch' = << >>
      BY <1>0, <2>1 DEF IInv, Turns
    <2> QED
      BY <1>0, <2>2, <2>3, <2>4, <2>5
  <1>3. CASE \E d \in Dev : Unplug(d) \/ DeviceEvent(d)
    BY <1>0, <1>3 DEF Unplug, DeviceEvent
  <1> QED
    BY <1>1, <1>2, <1>3 DEF Kernel

\* device_plugged() hands the names on one by one.
LEMMA PluggedHandling ==
    ASSUME IInv, DevicePlugged
    PROVE  Handling'
  <1> USE DEF queueVars, fdVars, deviceVars, mainVars, handlerVars, Handling, AtWork,
              Plugging, InHotplug
  <1>0. TypeOK /\ Handling /\ Turns /\ Descriptors
    BY DEF IInv
  <1>1. /\ batch # << >> /\ Plugging
        /\ main = "walk" => pc = "idle"
        /\ pc = "callback" => use[here] = "hotplug" /\ here \in Fd
    BY <1>0, QueueFacts
    DEF IInv, Turns, DevicePlugged, PlugBegin, OpenUinput, CreateUinput, CreateLine, AddLine,
        AddFails, DropLine
  <1>7. GivesUp => batch' = Tail(batch) /\ at' = "none" /\ dev' = "none"
    BY DEF GivesUp, NextName
  <1>8. /\ at \in {"create", "line", "add"} /\ Close(ufd) /\ pc = "callback"
                => use'[here] = "hotplug"
        /\ at = "drop" /\ Close(lfd) /\ pc = "callback" => use'[here] = "hotplug"
    BY <1>0, <1>1, Names, CloseUinput, CloseLine
  <1>2. CASE PlugBegin
    <2>1. ~OurInputDevice(Head(batch)) => Head(batch) \in Dev
      BY <1>0, <1>1 DEF OurInputDevice, TypeOK
    <2> QED
      BY <1>0, <1>1, <1>2, <1>7, <2>1 DEF PlugBegin
  <1>3. CASE OpenUinput
    <2>1. pc = "callback" => use'[here] = "hotplug"
      BY <1>0, <1>1, <1>3 DEF OpenUinput, NewFd, Free, Open, TypeOK
    <2> QED
      BY <1>0, <1>1, <1>3, <1>7, <2>1 DEF OpenUinput
  <1>4. CASE CreateUinput
    <2>1. CASE GivesUp /\ Close(ufd)
      BY <1>0, <1>1, <1>4, <1>7, <1>8, <2>1 DEF CreateUinput
    <2>2. CASE at' = "line" /\ Appears("own") /\ UNCHANGED <<use, dev>>
      <3>1. batch' = batch \/ (main = "walk" /\ batch' = Append(batch, "own"))
        BY <1>0, <2>2, AppearsNames
      <3>2. batch' # << >> /\ Head(batch') = Head(batch)
        BY <1>0, <1>1, <3>1 DEF TypeOK
      <3> QED
        BY <1>0, <1>1, <1>4, <2>2, <3>2 DEF CreateUinput
    <2> QED
      BY <1>4, <2>1, <2>2 DEF CreateUinput
  <1>5. CASE CreateLine
    <2>1. pc = "callback" => use'[here] = "hotplug"
      BY <1>0, <1>1, <1>5, <1>8 DEF CreateLine, NewFd, Free, Open, TypeOK
    <2> QED
      BY <1>0, <1>1, <1>5, <1>7, <2>1 DEF CreateLine
  <1>6. CASE AddLine
    BY <1>0, <1>1, <1>6 DEF AddLine, NextName, Q!Add
  <1>9. CASE AddFails
    BY <1>0, <1>1, <1>8, <1>9 DEF AddFails
  <1>10. CASE DropLine
    BY <1>0, <1>1, <1>7, <1>8, <1>10 DEF DropLine
  <1> QED
    BY <1>2, <1>3, <1>4, <1>5, <1>6, <1>9, <1>10 DEF DevicePlugged

\* main() reaches the queue's loop with nothing at work.
LEMMA MainHandling ==
    ASSUME IInv, Main
    PROVE  Handling'
  <1> USE DEF queueVars, fdVars, deviceVars, mainVars, handlerVars, Handling, AtWork,
              Plugging, InHotplug
  <1>0. TypeOK /\ Handling /\ Turns
    BY DEF IInv
  <1>1. CASE WatchHotplug
    BY <1>0, <1>1 DEF WatchHotplug, Turns
  <1>2. CASE AddHotplug
    BY <1>0, <1>2 DEF AddHotplug, Q!Add, Turns
  <1>3. CASE CheckLooping \/ EnterSelect
    BY <1>0, <1>3 DEF CheckLooping, EnterSelect
  <1>4. CASE SelectReturns
    BY <1>0, <1>4 DEF SelectReturns, Q!Select, Turns
  <1>5. CASE Pass
    <2>1. pc = "scan" /\ main = "run"
      BY <1>0, <1>5 DEF Pass, Q!Rearm, Q!Dispatch, Turns, Q!InLoop
    <2>2. at = "none" /\ batch = << >>
      BY <1>0, <2>1 DEF TypeOK
    <2>3. here \in Members /\ here \in Fd
      BY <2>1, QueueFacts DEF IInv
    <2>4. use[here] \in Dev \cup {"hotplug"}
      BY <1>0, <2>1, <2>3, QueueFacts DEF IInv, TypeOK, Descriptors, Open
    <2> QED
      BY <1>5, <2>1, <2>2, <2>4, LoopGoesOn DEF Pass, Q!Rearm, Q!Dispatch
  <1>6. CASE Cleanup
    BY <1>0, <1>6 DEF Cleanup, Q!Destroy, Turns
  <1> QED
    BY <1>1, <1>2, <1>3, <1>4, <1>5, <1>6 DEF Main

\* A callback goes through its steps.
LEMMA CallbackHandling ==
    ASSUME IInv, Callback
    PROVE  Handling'
  <1> USE DEF queueVars, fdVars, deviceVars, mainVars, handlerVars, Handling, AtWork,
              Plugging, InHotplug
  <1>0. TypeOK /\ Handling /\ Turns
    BY DEF IInv
  <1>1. CASE HotplugRead
    BY <1>0, <1>1 DEF HotplugRead
  <1>2. CASE HotplugReturn
    BY <1>0, <1>2, LoopGoesOn DEF HotplugReturn, Q!Return
  <1>3. CASE LineRead
    BY <1>0, <1>3, Names DEF LineRead, TypeOK, Lines
  <1>4. CASE LineGone
    BY <1>0, <1>4, Names DEF LineGone, TypeOK, Lines
  <1>5. CASE LineReturn
    BY <1>0, <1>5, LoopGoesOn DEF LineReturn, Q!Return, Turns, Q!InLoop
  <1> QED
    BY <1>1, <1>2, <1>3, <1>4, <1>5 DEF Callback

\* What descriptors are open on.  The kernel moves events and dead lines only.
LEMMA KernelDescriptors ==
    ASSUME IInv, Kernel
    PROVE  Descriptors'
  <1> USE DEF queueVars, fdVars, deviceVars, mainVars, handlerVars, Descriptors
  <1>0. TypeOK /\ Descriptors
    BY DEF IInv
  <1>1. /\ Members' = Members /\ Lines' = Lines /\ Watch' = Watch
        /\ UNCHANGED <<use, at, ufd, lfd, dev, main>>
    BY DEF Kernel, Signal, PlugIn, Unplug, DeviceEvent, Members, Lines, Watch
  <1>2. Watch = {} => events' = events
    BY DEF Kernel, Signal, PlugIn, Appears, Unplug, DeviceEvent
  <1>3. gone' \cap input' = {}
    BY <1>0
    DEF Kernel, Signal, PlugIn, Unplug, DeviceEvent, Readers, TypeOK, Lines
  <1> QED
    BY <1>0, <1>1, <1>2, <1>3

\* device_plugged() opens two descriptors and closes one.
LEMMA PluggedDescriptors ==
    ASSUME IInv, DevicePlugged
    PROVE  Descriptors'
  <1> USE DEF queueVars, fdVars, deviceVars, mainVars, handlerVars, Descriptors, NextName
  <1>0. TypeOK /\ Descriptors /\ Members \subseteq Fd /\ 0 \notin Fd
    BY QueueFacts DEF IInv
  <1>1. \A fd \in Members : use[fd] = "free" => pc = "callback" /\ fd = here
    BY QueueFacts DEF IInv, Open
  <1>2. AtWork /\ pc = "callback" => use[here] = "hotplug"
    BY DEF IInv, Handling, AtWork
  <1>3. ASSUME NEW fd \in Fd, NewFd(fd), AtWork
        PROVE  use[fd] = "free" /\ fd \notin Members /\ fd \notin gone
    <2>1. use[fd] = "free"
      BY <1>3 DEF NewFd, Free, Open
    <2> QED
      BY <1>0, <1>1, <1>2, <1>3, <2>1, Names DEF TypeOK, Lines
  <1>9. GivesUp => at' = "none" /\ ufd' = 0 /\ lfd' = 0
    BY DEF GivesUp
  <1>10. CASE /\ at \in {"create", "line"} /\ GivesUp /\ Close(ufd)
              /\ UNCHANGED <<queueVars, gone, input, events, main>>
    <2>1. Members' = Members
      BY <1>10 DEF Members
    <2>2. /\ Lines' = Lines /\ Watch' = Watch
          /\ ufd \notin Members /\ \A f \in Fd \ {ufd} : use'[f] = use[f]
      BY <1>0, <1>10, CloseUinput
    <2> QED
      BY <1>0, <1>9, <1>10, <2>1, <2>2
  <1>4. CASE PlugBegin
    BY <1>0, <1>4, <1>9 DEF PlugBegin, Members, Lines, Watch
  <1>5. CASE OpenUinput
    <2>1. CASE UNCHANGED use /\ GivesUp
      BY <1>0, <1>5, <1>9, <2>1 DEF OpenUinput, Members, Lines, Watch
    <2>2. ASSUME NEW fd \in Fd, NewFd(fd), use' = [use EXCEPT ![fd] = "uinput"],
                 ufd' = fd
          PROVE  Descriptors'
      <3>1. use[fd] = "free" /\ fd \notin Members
        BY <1>3, <1>5, <2>2 DEF OpenUinput, AtWork
      <3>2. Lines' = Lines /\ Watch' = Watch /\ Members' = Members
        BY <1>0, <1>5, <2>2, <3>1, Names
        DEF OpenUinput, TypeOK, Lines, Watch, Members
      <3>3. \A f \in Fd \ {fd} : use'[f] = use[f]
        BY <1>0, <2>2 DEF TypeOK
      <3>4. use'[fd] = "uinput" /\ at' = "create" /\ lfd = 0 /\ lfd' = 0
        BY <1>0, <1>5, <2>2, <3>1 DEF OpenUinput, TypeOK
      <3> QED
        BY <1>0, <1>5, <2>2, <3>1, <3>2, <3>3, <3>4 DEF OpenUinput
    <2> QED
      BY <1>5, <2>1, <2>2 DEF OpenUinput
  <1>6. CASE CreateUinput
    <2>1. CASE GivesUp /\ Close(ufd) /\ UNCHANGED events
      BY <1>6, <1>10, <2>1 DEF CreateUinput
    <2>2. CASE at' = "line" /\ Appears("own") /\ UNCHANGED <<use, dev, ufd, lfd>>
      <3>1. Watch' = Watch /\ Lines' = Lines /\ Members' = Members
        BY <1>6, <2>2 DEF CreateUinput, Watch, Lines, Members
      <3>2. Watch = {} => events' = events
        BY <2>2 DEF Appears
      <3> QED
        BY <1>0, <1>6, <2>2, <3>1, <3>2 DEF CreateUinput
    <2> QED
      BY <1>6, <2>1, <2>2 DEF CreateUinput
  <1>7. CASE CreateLine
    <2>0. Members' = Members
      BY <1>7 DEF CreateLine, Members
    <2>1. CASE GivesUp /\ Close(ufd)
      BY <1>7, <1>10, <2>1 DEF CreateLine
    <2>2. ASSUME NEW fd \in Fd, NewFd(fd), use' = [use EXCEPT ![fd] = dev],
                 at' = "add", lfd' = fd, dev' = dev, ufd' = ufd
          PROVE  Descriptors'
      <3>1. use[fd] = "free" /\ fd \notin Members /\ dev \in Dev
        BY <1>3, <1>7, <2>2 DEF CreateLine, AtWork, IInv, Handling
      <3>2. Lines' = Lines \cup {fd} /\ Watch' = Watch
        BY <1>0, <2>2, <3>1, Names DEF TypeOK, Lines, Watch
      <3>3. \A f \in Fd \ {fd} : use'[f] = use[f]
        BY <1>0, <2>2 DEF TypeOK
      <3>4. use'[fd] = dev
        BY <1>0, <2>2 DEF TypeOK
      <3>5. ufd \in Fd /\ use[ufd] = "uinput" /\ ufd # fd /\ lfd = 0
        BY <1>0, <1>7, <3>1 DEF CreateLine
      <3>6. \A f \in Members : use'[f] # "uinput"
        BY <1>0, <3>1, <3>3
      <3>7. UNCHANGED <<gone, input, events, main>>
        BY <1>7 DEF CreateLine
      <3>8. ufd' \in Fd /\ use'[ufd'] = "uinput"
        BY <2>2, <3>3, <3>5
      <3>9. lfd' \in Fd \ Members' /\ use'[lfd'] = dev'
        BY <2>0, <2>2, <3>1, <3>4
      <3>10. Lines' \subseteq Members' \cup {lfd'}
        BY <1>0, <2>0, <2>2, <3>2, <3>5 DEF Lines
      <3> QED
        BY <1>0, <2>0, <2>2, <3>2, <3>6, <3>7, <3>8, <3>9, <3>10
    <2> QED
      BY <1>7, <2>1, <2>2 DEF CreateLine
  <1>8. CASE AddLine
    <2>1. /\ Members' = Members \cup {lfd}
          /\ lfd \in Fd /\ use[lfd] = dev /\ dev \in Dev
      BY <1>0, <1>8, AddMembers DEF AddLine, IInv, Handling, AtWork
    <2>2. Lines' = Lines /\ Watch' = Watch
      BY <1>8 DEF AddLine, Lines, Watch
    <2> QED
      BY <1>0, <1>8, <2>1, <2>2, Names DEF AddLine
  <1>11. CASE AddFails
    <2>1. Members' = Members
      BY <1>11 DEF AddFails, Members
    <2>2. /\ Lines' = Lines /\ Watch' = Watch /\ ufd \notin Members
          /\ use[ufd] = "uinput" /\ \A f \in Fd \ {ufd} : use'[f] = use[f]
      BY <1>0, <1>11, CloseUinput DEF AddFails
    <2>3. lfd \in Fd \ Members /\ lfd # ufd /\ use'[lfd] = dev
      BY <1>0, <1>11, <2>2, Names DEF AddFails, IInv, Handling, AtWork
    <2> QED
      BY <1>0, <1>11, <2>1, <2>2, <2>3 DEF AddFails
  <1>12. CASE DropLine
    <2>1. Members' = Members
      BY <1>12 DEF DropLine, Members
    <2>2. /\ Lines' = Lines \ {lfd} /\ Watch' = Watch /\ lfd \notin Members
          /\ \A f \in Fd \ {lfd} : use'[f] = use[f]
      BY <1>0, <1>12, CloseLine DEF DropLine, IInv, Handling, AtWork
    <2> QED
      BY <1>0, <1>9, <1>12, <2>1, <2>2 DEF DropLine
  <1> QED
    BY <1>4, <1>5, <1>6, <1>7, <1>8, <1>11, <1>12 DEF DevicePlugged

\* main() opens the inotify descriptor, and closes the lines at the end.
LEMMA MainDescriptors ==
    ASSUME IInv, Main
    PROVE  Descriptors'
  <1> USE DEF queueVars, fdVars, deviceVars, mainVars, handlerVars, Descriptors
  <1>0. TypeOK /\ Descriptors /\ Members \subseteq Fd /\ 0 \notin Fd /\ Q!IInv
    BY QueueFacts DEF IInv
  <1>1. CASE WatchHotplug
    <2>1. CASE UNCHANGED use /\ main' = "over"
      BY <1>0, <1>1, <2>1 DEF WatchHotplug, Members, Lines, Watch
    <2>2. ASSUME NEW fd \in Fd, NewFd(fd), use' = [use EXCEPT ![fd] = "hotplug"],
                 main' = "watch"
          PROVE  Descriptors'
      <3>1. use[fd] = "free" /\ Watch = {} /\ main' # "walk"
        BY <1>0, <1>1, <2>2 DEF NewFd, Free, Open, WatchHotplug
      <3>2. Lines' = Lines /\ Watch' = {fd} /\ Members' = Members
        BY <1>0, <1>1, <2>2, <3>1, Names
        DEF WatchHotplug, TypeOK, Lines, Watch, Members
      <3>3. \A f \in Members : use'[f] # "uinput"
        BY <1>0, <2>2 DEF TypeOK
      <3>4. at = "none" /\ UNCHANGED <<at, ufd, lfd, gone, input, events>>
        BY <1>1 DEF WatchHotplug
      <3> QED
        BY <1>0, <3>1, <3>2, <3>3, <3>4
    <2> QED
      BY <1>1, <2>1, <2>2 DEF WatchHotplug
  <1>2. CASE AddHotplug
    <2>1. Lines' = Lines /\ Watch' = Watch /\ at = "none"
      BY <1>2 DEF AddHotplug, Lines, Watch, IInv, Handling, Turns, TypeOK,
                  AtWork, Plugging, InHotplug
    <2>2. CASE UNCHANGED queueVars
      <3>1. Members' = Members
        BY <2>2 DEF Members
      <3> QED
        BY <1>0, <1>2, <2>1, <3>1 DEF AddHotplug
    <2>3. ASSUME NEW fd \in Watch, Q!Add(fd) PROVE Descriptors'
      <3>1. Members' = Members \cup {fd} /\ fd \in Fd /\ use[fd] = "hotplug"
        BY <1>0, <2>3, AddMembers DEF Watch
      <3> QED
        BY <1>0, <1>2, <2>1, <3>1 DEF AddHotplug
    <2> QED
      BY <1>2, <2>2, <2>3 DEF AddHotplug
  <1>3. CASE CheckLooping \/ EnterSelect
    BY <1>0, <1>3 DEF CheckLooping, EnterSelect, Members, Lines, Watch
  <1>4. CASE SelectReturns
    BY <1>0, <1>4 DEF SelectReturns, Q!Select, Members, Lines, Watch
  <1>5. CASE Pass
    <2>1. Members' = Members /\ Lines' = Lines /\ Watch' = Watch
      BY <1>5 DEF Pass, Q!Rearm, Q!Dispatch, Members, Lines, Watch
    <2>2. at \notin {"create", "line", "add", "drop"} /\ at' \notin {"create", "line", "add", "drop"}
      BY <1>5 DEF Pass, Q!Rearm, Q!Dispatch, IInv, Handling, AtWork, Plugging,
                  InHotplug, Turns, Q!InLoop
    <2> QED
      BY <1>0, <1>5, <2>1, <2>2 DEF Pass
  <1>6. CASE Cleanup
    <2>1. Members' = {} /\ at \notin {"create", "line", "add", "drop"} /\ at' = at
      BY <1>6
      DEF Cleanup, Q!Destroy, Members, ToSet, IInv, Handling, AtWork, Plugging, InHotplug
    <2>2. Lines \subseteq Members
      BY <1>0, <2>1 DEF Lines
    <2>3. Lines' = {} /\ Watch' = Watch
      BY <1>6, <2>2, Names DEF Cleanup, Lines, Watch
    <2> QED
      BY <1>0, <1>6, <2>1, <2>3 DEF Cleanup
  <1> QED
    BY <1>1, <1>2, <1>3, <1>4, <1>5, <1>6 DEF Main

\* A callback closes its own line, and its member leaves the queue after that.
LEMMA CallbackDescriptors ==
    ASSUME IInv, Callback
    PROVE  Descriptors'
  <1> USE DEF queueVars, fdVars, deviceVars, mainVars, handlerVars, Descriptors
  <1>0. TypeOK /\ Descriptors /\ Members \subseteq Fd /\ 0 \notin Fd /\ Q!IInv
    BY QueueFacts DEF IInv
  <1>1. CASE HotplugRead
    BY <1>0, <1>1 DEF HotplugRead, Members, Lines, Watch
  <1>2. CASE HotplugReturn
    <2>1. Members' = Members
      BY <1>0, <1>2, ReturnMembers DEF HotplugReturn
    <2> QED
      BY <1>0, <1>2, <2>1 DEF HotplugReturn, Lines, Watch
  <1>3. CASE LineRead
    BY <1>0, <1>3 DEF LineRead, Members, Lines, Watch
  <1>4. CASE LineGone
    <2>1. here \in Fd /\ use[here] \in Dev /\ here \in gone
      BY <1>0, <1>4 DEF LineGone, TypeOK, Lines
    <2>2. Lines' = Lines \ {here} /\ Watch' = Watch /\ Members' = Members
      BY <1>0, <1>4, <2>1, Names DEF LineGone, TypeOK, Lines, Watch, Members
    <2>3. \A f \in Members : use'[f] # "uinput"
      BY <1>0, <1>4 DEF LineGone, TypeOK
    <2> QED
      BY <1>0, <1>4, <2>2, <2>3 DEF LineGone
  <1>5. CASE LineReturn
    <2>1. CASE at = "closed"
      <3>1. Members' = Members \ {here} /\ use[here] = "free"
        BY <1>0, <1>5, <2>1, ReturnMembers DEF LineReturn, IInv, Handling
      <3>2. Lines' = Lines /\ Watch' = Watch /\ here \notin Lines
        BY <1>5, <3>1, Names DEF LineReturn, Lines, Watch
      <3> QED
        BY <1>0, <1>5, <2>1, <3>1, <3>2 DEF LineReturn
    <2>2. CASE at = "done"
      <3>1. Members' = Members
        BY <1>0, <1>5, <2>2, ReturnMembers DEF LineReturn
      <3> QED
        BY <1>0, <1>5, <2>2, <3>1 DEF LineReturn, Lines, Watch
    <2> QED
      BY <1>5, <2>1, <2>2 DEF LineReturn
  <1> QED
    BY <1>1, <1>2, <1>3, <1>4, <1>5 DEF Callback

\* Who commits where.  Only device_plugged() gives a line its uinput device,
\* and it closes none but the one it made itself.
LEMMA SinksKept ==
    ASSUME IInv, Next
    PROVE  Sinks'
  <1> USE DEF queueVars, fdVars, deviceVars, mainVars, handlerVars, NextName
  <1>0. /\ TypeOK /\ Sinks /\ Descriptors /\ Members \subseteq Fd /\ 0 \notin Fd
        /\ AtWork => dev \in Dev
    BY QueueFacts DEF IInv, Handling
  <1>1. CASE UNCHANGED <<use, sink, ufd, lfd>>
    BY <1>0, <1>1 DEF Sinks, Lines
  <1>2. ASSUME NEW fd \in Fd, NewFd(fd)
        PROVE  use[fd] = "free" /\ fd \notin Lines /\ \A l \in Lines \ {lfd} : sink[l] # fd
    BY <1>0, <1>2, Names DEF NewFd, Free, Open, Lines, Sinks
  <1>14. GivesUp => NextName
    BY DEF GivesUp
  <1>3. CASE UNCHANGED <<use, sink>> /\ ufd' = 0 /\ lfd' = 0 /\ at \notin {"add", "drop"}
    <2>1. lfd = 0
      BY <1>0, <1>3 DEF Descriptors
    <2> QED
      BY <1>0, <1>3, <2>1 DEF Sinks, Lines
  <1>4. CASE OpenUinput
    <2>1. ASSUME NEW fd \in Fd, NewFd(fd), use' = [use EXCEPT ![fd] = "uinput"],
                 ufd' = fd, UNCHANGED <<lfd, sink>>
          PROVE  Sinks'
      <3>1. Lines' = Lines
        BY <1>0, <1>2, <2>1, Names DEF TypeOK, Lines
      <3>2. \A f \in Fd \ {fd} : use'[f] = use[f]
        BY <1>0, <2>1 DEF TypeOK
      <3> QED
        BY <1>0, <1>2, <2>1, <3>1, <3>2 DEF Sinks
    <2> QED
      BY <1>3, <1>4, <1>14, <2>1 DEF OpenUinput
  <1>15. CASE /\ at \in {"create", "line", "add"} /\ Close(ufd) /\ ufd' = 0
              /\ at = "add" \/ lfd' = 0
              /\ at = "add" => lfd' = lfd
              /\ sink' = sink
    <2>1. Lines' = Lines /\ lfd' = lfd /\ \A f \in Fd \ {ufd} : use'[f] = use[f]
      BY <1>0, <1>15, CloseUinput DEF Descriptors
    <2> QED
      BY <1>0, <1>15, <2>1 DEF Sinks
  <1>16. CASE CreateUinput
    <2>1. CASE GivesUp /\ Close(ufd)
      BY <1>14, <1>15, <1>16, <2>1 DEF CreateUinput
    <2>2. CASE UNCHANGED <<use, ufd, lfd>>
      BY <1>1, <1>16, <2>2 DEF CreateUinput
    <2> QED
      BY <1>16, <2>1, <2>2 DEF CreateUinput
  <1>17. CASE AddFails
    BY <1>15, <1>17 DEF AddFails
  <1>18. CASE DropLine
    <2>1. /\ Lines' = Lines \ {lfd} /\ lfd' = 0 /\ ufd' = 0 /\ ufd = 0 /\ sink' = sink
          /\ use[lfd] \in Dev /\ lfd \in Fd /\ \A f \in Fd \ {lfd} : use'[f] = use[f]
      BY <1>0, <1>14, <1>18, CloseLine DEF DropLine, AtWork, Descriptors
    <2> QED
      BY <1>0, <2>1, Names DEF Sinks
  <1>5. CASE CreateLine
    <2>1. CASE GivesUp /\ Close(ufd)
      BY <1>5, <1>14, <1>15, <2>1 DEF CreateLine
    <2>2. ASSUME NEW fd \in Fd, NewFd(fd), use' = [use EXCEPT ![fd] = dev],
                 lfd' = fd, UNCHANGED <<ufd, sink>>
          PROVE  Sinks'
      <3>1. Lines' \ {lfd'} = Lines \ {lfd}
        <4>1. lfd = 0
          BY <1>0, <1>5 DEF CreateLine, Descriptors
        <4> QED
          BY <1>0, <1>2, <2>2, <4>1 DEF TypeOK, Lines
      <3>2. \A f \in Fd \ {fd} : use'[f] = use[f]
        BY <1>0, <2>2 DEF TypeOK
      <3> QED
        BY <1>0, <1>2, <2>2, <3>1, <3>2 DEF Sinks
    <2> QED
      BY <1>5, <2>1, <2>2 DEF CreateLine
  <1>6. CASE AddLine
    <2>1. lfd \in Fd /\ ufd \in Fd /\ use[ufd] = "uinput"
      BY <1>0, <1>6 DEF AddLine, Descriptors
    <2>2. Lines' = Lines /\ sink' = [sink EXCEPT ![lfd] = ufd] /\ use' = use /\ ufd' = 0 /\ lfd' = 0
      BY <1>6 DEF AddLine, Lines
    <2>3. sink'[lfd] = ufd /\ \A l \in Fd \ {lfd} : sink'[l] = sink[l]
      BY <1>0, <2>1, <2>2 DEF TypeOK
    <2>4. Lines \subseteq Fd
      BY DEF Lines
    <2> QED
      BY <1>0, <2>1, <2>2, <2>3, <2>4 DEF Sinks
  <1>7. CASE WatchHotplug
    <2>1. ASSUME NEW fd \in Fd, NewFd(fd), use' = [use EXCEPT ![fd] = "hotplug"]
          PROVE  Sinks'
      <3>1. Lines' = Lines
        BY <1>0, <1>2, <2>1, Names DEF TypeOK, Lines
      <3>2. \A f \in Fd \ {fd} : use'[f] = use[f]
        BY <1>0, <2>1 DEF TypeOK
      <3> QED
        BY <1>0, <1>2, <1>7, <2>1, <3>1, <3>2 DEF WatchHotplug, Sinks
    <2> QED
      BY <1>1, <1>7, <2>1 DEF WatchHotplug
  <1>8. CASE LineGone
    <2>1. here \in Lines
      BY <1>0, <1>8 DEF LineGone, TypeOK
    <2>2. here \in Fd /\ use[here] # "uinput" /\ lfd' = lfd /\ ufd' = ufd
      BY <1>8, <2>1, Names DEF LineGone, Lines
    <2>3. Lines' = Lines \ {here}
      BY <1>0, <1>8, <2>2, Names DEF LineGone, TypeOK, Lines
    <2>4. \A f \in Fd \ {here} : use'[f] = use[f] /\ sink'[f] = sink[f]
      BY <1>0, <1>8, <2>2 DEF LineGone, TypeOK
    <2>5. \A l \in Lines' \ {lfd} : l \in Fd \ {here} /\ sink[l] # here /\ sink[l] \in Fd
      BY <1>0, <2>2, <2>3 DEF Sinks, Lines
    <2> QED
      BY <1>0, <2>2, <2>3, <2>4, <2>5 DEF Sinks
  <1>9. CASE Cleanup
    <2>1. at \notin {"create", "line", "add", "drop"}
      BY <1>9 DEF Cleanup, IInv, Handling, AtWork, Plugging, InHotplug
    <2>2. Lines \subseteq Members
      BY <1>0, <2>1 DEF Lines, Descriptors
    <2>3. Lines' = {}
      BY <1>9, <2>2, Names DEF Cleanup, Lines
    <2> QED
      BY <2>3 DEF Sinks
  <1>10. CASE PlugBegin
    BY <1>1, <1>3, <1>10, <1>14 DEF PlugBegin
  <1>11. CASE Kernel
    BY <1>1, <1>11 DEF Kernel, Signal, PlugIn, Unplug, DeviceEvent
  <1>12. CASE AddHotplug \/ CheckLooping \/ EnterSelect \/ SelectReturns \/ Pass
    BY <1>1, <1>12 DEF AddHotplug, CheckLooping, EnterSelect, SelectReturns, Pass
  <1>13. CASE HotplugRead \/ HotplugReturn \/ LineRead \/ LineReturn
    BY <1>1, <1>13 DEF HotplugRead, HotplugReturn, LineRead, LineReturn
  <1> QED
    BY <1>4, <1>5, <1>6, <1>7, <1>8, <1>9, <1>10, <1>11, <1>12, <1>13, <1>16, <1>17, <1>18
    DEF Next, DevicePlugged, Main, Callback

\* Who holds a device.
LEMMA GrabsKept ==
    ASSUME IInv, Next
    PROVE  Grabs'
  <1> USE DEF queueVars, fdVars, deviceVars, mainVars, handlerVars, NextName
  <1>0. /\ TypeOK /\ Grabs /\ Descriptors /\ Members \subseteq Fd /\ 0 \notin Fd /\ Q!IInv
        /\ AtWork => dev \in Dev
    BY QueueFacts DEF IInv, Handling
  <1>1. CASE UNCHANGED <<use, grab, gone>> /\ Members' = Members
    BY <1>0, <1>1 DEF Grabs, Lines
  <1>2. \A d \in Dev : grab[d] # 0 => grab[d] \in Fd /\ use[grab[d]] = d
    BY <1>0 DEF Grabs
  <1>3. ASSUME NEW fd \in Fd, NEW u, use' = [use EXCEPT ![fd] = u],
               use[fd] \notin Dev, u \notin Dev \/ fd \notin Members,
               UNCHANGED <<grab, gone>>, Members' = Members
        PROVE  Grabs'
    <2>1. \A d \in Dev : grab[d] # 0 => grab[d] # fd
      BY <1>2, <1>3
    <2>2. use'[fd] = u /\ \A f \in Fd \ {fd} : use'[f] = use[f]
      BY <1>0, <1>3 DEF TypeOK
    <2>3. Members' \cap Lines' \subseteq Lines \ {fd}
      BY <1>0, <1>3, <2>2 DEF Lines
    <2> QED
      BY <1>0, <1>2, <1>3, <2>1, <2>2, <2>3 DEF Grabs
  <1>4. ASSUME NEW d \in Dev, Unplug(d) PROVE Grabs'
    <2>1. Lines' = Lines /\ Members' = Members /\ use' = use
      BY <1>4 DEF Unplug, Lines, Members
    <2>2. grab'[d] = 0 /\ \A e \in Dev \ {d} : grab'[e] = grab[e]
      BY <1>0, <1>4 DEF Unplug, TypeOK
    <2>3. gone' = gone \cup {fd \in Fd : use[fd] = d}
      BY <1>4 DEF Unplug
    <2> QED
      BY <1>0, <1>2, <2>1, <2>2, <2>3 DEF Grabs, Lines
  <1>5. CASE Signal \/ \E d \in Dev : PlugIn(d) \/ DeviceEvent(d)
    BY <1>1, <1>5 DEF Signal, PlugIn, DeviceEvent, Members
  <1>6. CASE PlugBegin
    BY <1>1, <1>6 DEF PlugBegin, Members
  <1>20. CASE at \in {"create", "line", "add"} /\ Close(ufd) /\ UNCHANGED <<queueVars, grab, gone>>
    <2>1. ufd \in Fd /\ use[ufd] \notin Dev
      BY <1>0, <1>20, Names, CloseUinput
    <2> QED
      BY <1>3, <1>20, <2>1, Names DEF Close, Members
  <1>21. CASE CreateUinput
    <2>1. CASE UNCHANGED use
      BY <1>1, <1>21, <2>1 DEF CreateUinput, Members
    <2> QED
      BY <1>20, <1>21, <2>1 DEF CreateUinput
  <1>22. CASE AddFails
    BY <1>20, <1>22 DEF AddFails
  <1>23. CASE DropLine
    <2>1. /\ Lines' = Lines \ {lfd} /\ lfd \notin Members
          /\ \A f \in Fd \ {lfd} : use'[f] = use[f]
      BY <1>0, <1>23, CloseLine DEF DropLine, AtWork
    <2>2. Members' = Members /\ gone' = gone \ {lfd} /\ grab' = grab
      BY <1>23 DEF DropLine, Members
    <2> QED
      BY <1>0, <2>1, <2>2 DEF Grabs, Lines
  <1>7. ASSUME NEW fd \in Fd, NewFd(fd), pc = "callback" => use[here] # "free"
        PROVE  use[fd] \notin Dev /\ fd \notin Members
    <2>1. use[fd] = "free"
      BY <1>7 DEF NewFd, Free, Open
    <2> QED
      BY <1>0, <1>7, <2>1, Names, QueueFacts DEF Open
  <1>8. AtWork /\ pc = "callback" => use[here] # "free"
    BY DEF IInv, Handling, AtWork
  <1>9. CASE OpenUinput
    <2>1. CASE UNCHANGED use
      BY <1>1, <1>9, <2>1 DEF OpenUinput, Members
    <2>2. ASSUME NEW fd \in Fd, NewFd(fd), use' = [use EXCEPT ![fd] = "uinput"]
          PROVE  Grabs'
      BY <1>3, <1>7, <1>8, <1>9, <2>2 DEF OpenUinput, AtWork, Members
    <2> QED
      BY <1>9, <2>1, <2>2 DEF OpenUinput
  <1>10. CASE CreateLine
    <2>1. CASE Close(ufd)
      BY <1>10, <1>20, <2>1 DEF CreateLine
    <2>2. ASSUME NEW fd \in Fd, NewFd(fd), use' = [use EXCEPT ![fd] = dev]
          PROVE  Grabs'
      BY <1>3, <1>7, <1>8, <1>10, <2>2 DEF CreateLine, AtWork, Members
    <2> QED
      BY <1>10, <2>1, <2>2 DEF CreateLine
  <1>11. CASE AddLine
    <2>1. lfd \in Fd /\ use[lfd] = dev /\ dev \in Dev /\ use' = use /\ gone' = gone
      BY <1>0, <1>11 DEF AddLine, AtWork, Descriptors
    <2>2. Members' = Members \cup {lfd} /\ Lines' = Lines
      BY <1>0, <1>11, <2>1, AddMembers DEF AddLine, Lines
    <2>3. CASE grab[dev] = 0 /\ lfd \notin gone
      <3>1. grab'[dev] = lfd /\ \A d \in Dev \ {dev} : grab'[d] = grab[d]
        BY <1>0, <1>11, <2>1, <2>3 DEF AddLine, TypeOK
      <3> QED
        BY <1>0, <1>2, <2>1, <2>2, <2>3, <3>1 DEF Grabs, Lines
    <2>4. CASE ~(grab[dev] = 0 /\ lfd \notin gone)
      <3>1. grab' = grab
        BY <1>11, <2>4 DEF AddLine
      <3> QED
        BY <1>0, <1>2, <2>1, <2>2, <2>4, <3>1 DEF Grabs, Lines
    <2> QED
      BY <2>3, <2>4
  <1>12. CASE WatchHotplug
    <2>1. CASE UNCHANGED use
      BY <1>1, <1>12, <2>1 DEF WatchHotplug, Members
    <2>2. ASSUME NEW fd \in Fd, NewFd(fd), use' = [use EXCEPT ![fd] = "hotplug"]
          PROVE  Grabs'
      <3>1. pc = "idle"
        BY <1>12 DEF WatchHotplug, IInv, Turns
      <3> QED
        BY <1>3, <1>7, <1>12, <2>2, <3>1, Names DEF WatchHotplug, Members
    <2> QED
      BY <1>12, <2>1, <2>2 DEF WatchHotplug
  <1>13. CASE AddHotplug
    <2>1. UNCHANGED <<use, grab, gone>> /\ Lines' = Lines
      BY <1>13 DEF AddHotplug, Lines
    <2>2. ASSUME NEW fd \in Watch, Q!Add(fd) PROVE Grabs'
      <3>1. Members' = Members \cup {fd} /\ fd \notin Lines
        BY <1>0, <2>2, AddMembers, Names DEF Watch, Lines
      <3> QED
        BY <1>0, <2>1, <3>1 DEF Grabs
    <2> QED
      BY <1>1, <1>13, <2>1, <2>2 DEF AddHotplug, Members
  <1>14. CASE CheckLooping \/ EnterSelect \/ SelectReturns \/ Pass
    BY <1>1, <1>14
    DEF CheckLooping, EnterSelect, SelectReturns, Pass, Q!Select, Q!Rearm, Q!Dispatch, Members
  <1>15. CASE Cleanup
    BY <1>15 DEF Cleanup, Q!Destroy, Members, ToSet, Grabs
  <1>16. CASE HotplugRead \/ LineRead
    BY <1>1, <1>16 DEF HotplugRead, LineRead, Members
  <1>17. CASE HotplugReturn
    BY <1>0, <1>1, <1>17, ReturnMembers DEF HotplugReturn
  <1>18. CASE LineGone
    <2>1. here \in Lines /\ here \in gone /\ gone' = gone \ {here} /\ UNCHANGED grab
      BY <1>0, <1>18 DEF LineGone, TypeOK
    <2>2. Lines' = Lines \ {here} /\ Members' = Members
      BY <1>0, <1>18, <2>1, Names DEF LineGone, TypeOK, Lines, Members
    <2>3. \A f \in Fd \ {here} : use'[f] = use[f]
      BY <1>0, <1>18 DEF LineGone, TypeOK
    <2>4. \A d \in Dev : grab[d] # 0 => grab[d] \in Fd \ {here}
      BY <1>0, <2>1 DEF Grabs
    <2> QED
      BY <1>0, <2>1, <2>2, <2>3, <2>4 DEF Grabs, Lines
  <1>19. CASE LineReturn
    <2>1. UNCHANGED <<use, grab, gone>> /\ Lines' = Lines
      BY <1>19 DEF LineReturn, Lines
    <2>2. CASE at = "closed"
      <3>1. Members' = Members \ {here} /\ use[here] = "free"
        BY <1>0, <1>19, <2>2, ReturnMembers DEF LineReturn, IInv, Handling
      <3> QED
        BY <1>0, <1>2, <2>1, <3>1, Names DEF Grabs
    <2>3. CASE at = "done"
      BY <1>0, <1>1, <1>19, <2>1, <2>3, ReturnMembers DEF LineReturn
    <2> QED
      BY <1>19, <2>2, <2>3 DEF LineReturn
  <1> QED
    BY <1>4, <1>5, <1>6, <1>9, <1>10, <1>11, <1>12, <1>13, <1>14, <1>15, <1>16, <1>17,
       <1>18, <1>19, <1>21, <1>22, <1>23
    DEF Next, Kernel, DevicePlugged, Main, Callback

\* device_plugged() is done with a name that needs nothing more.
LEMMA NextNameKeeps ==
    ASSUME TypeOK, OnItsWay, main # "over", batch # << >>, NextName,
           UNCHANGED <<plugged, events, main>>, missed \subseteq missed',
           \A d \in Dev : grab[d] # 0 => grab'[d] # 0,
           \/ at = "add" /\ lfd \in gone
           \/ Head(batch) \notin (plugged \cap Configured) \ missed'
           \/ grab'[Head(batch)] # 0
           \/ \E i \in 1..Len(events) : events[i] = Head(batch)
           \/ \E i \in 1..Len(batch') : batch'[i] = Head(batch)
    PROVE  OnItsWay'
  <1> SUFFICES ASSUME NEW d \in (plugged \cap Configured) \ missed'
               PROVE  \/ grab'[d] # 0
                      \/ \E i \in 1..Len(events') : events'[i] = d
                      \/ \E i \in 1..Len(batch') : batch'[i] = d /\ Counts(i)'
    BY DEF OnItsWay
  <1>1. /\ d \in Dev
        /\ \/ grab[d] # 0
           \/ \E i \in 1..Len(events) : events[i] = d
           \/ \E i \in 1..Len(batch) : batch[i] = d /\ Counts(i)
    BY DEF OnItsWay, TypeOK
  <1>2. ASSUME NEW i \in 1..Len(batch), batch[i] = d, Counts(i)
        PROVE  \/ grab'[d] # 0
               \/ \E j \in 1..Len(events') : events'[j] = d
               \/ \E j \in 1..Len(batch') : batch'[j] = d /\ Counts(j)'
    <2>1. CASE i = 1
      <3>1. Head(batch) = d
        BY <1>2, <2>1
      <3>2. \A j : Counts(j)'
        BY DEF Counts, NextName
      <3> QED
        BY <1>2, <2>1, <3>1, <3>2 DEF Counts
    <2>2. CASE i # 1
      <3>1. batch \in Seq(Dev \cup {"own"})
        BY DEF TypeOK
      <3>2. batch' = Tail(batch)
        BY DEF NextName
      <3>3. i - 1 \in 1..Len(batch') /\ batch'[i - 1] = batch[i]
        BY <2>2, <3>1, <3>2
      <3>4. Counts(i - 1)'
        BY DEF Counts, NextName
      <3> QED
        BY <1>2, <3>3, <3>4
    <2> QED
      BY <2>1, <2>2
  <1> QED
    BY <1>1, <1>2

\* A node appears, and nothing is lost of what was on its way.
LEMMA AppearsKeeps ==
    ASSUME TypeOK, NEW name \in Dev \cup {"own"}, Appears(name), NEW d,
           AtWork => batch # << >>
    PROVE  /\ (\E i \in 1..Len(events) : events[i] = d) =>
                (\E i \in 1..Len(events') : events'[i] = d)
           /\ \A i \in 1..Len(batch) : i \in 1..Len(batch') /\ batch'[i] = batch[i]
           /\ Watch # {} => \E i \in 1..Len(events') : events'[i] = name
           /\ batch' # batch =>
                \E i \in 1..Len(batch') : batch'[i] = name /\ (at = "add" => i # 1)
  <1>1. events \in Seq(Dev \cup {"own"}) /\ batch \in Seq(Dev \cup {"own"})
    BY DEF TypeOK
  <1>2. /\ Len(Append(events, name)) = Len(events) + 1
        /\ Append(events, name)[Len(events) + 1] = name
        /\ \A i \in 1..Len(events) : Append(events, name)[i] = events[i]
    BY <1>1
  <1>3. /\ Len(Append(batch, name)) = Len(batch) + 1
        /\ Append(batch, name)[Len(batch) + 1] = name
        /\ \A i \in 1..Len(batch) : Append(batch, name)[i] = batch[i]
    BY <1>1
  <1>4. (\E i \in 1..Len(events) : events[i] = d) =>
            (\E i \in 1..Len(events') : events'[i] = d)
    BY <1>1, <1>2, AppearsNames
  <1>5. \A i \in 1..Len(batch) : i \in 1..Len(batch') /\ batch'[i] = batch[i]
    BY <1>1, <1>3, AppearsNames
  <1>6. Watch # {} => \E i \in 1..Len(events') : events'[i] = name
    BY <1>1, <1>2, AppearsNames
  <1>7. batch' # batch =>
            \E i \in 1..Len(batch') : batch'[i] = name /\ (at = "add" => i # 1)
    <2> SUFFICES ASSUME batch' # batch
                 PROVE  \E i \in 1..Len(batch') : batch'[i] = name /\ (at = "add" => i # 1)
      OBVIOUS
    <2>1. batch' = Append(batch, name)
      BY AppearsNames
    <2>2. Len(batch) \in Nat /\ (at = "add" => Len(batch) # 0)
      BY <1>1 DEF AtWork
    <2>3. Len(batch) + 1 \in 1..Len(batch')
      BY <1>3, <2>1, <2>2
    <2> QED
      BY <1>3, <2>1, <2>2, <2>3
  <1> QED
    BY <1>4, <1>5, <1>6, <1>7

\* No device is forgotten by a step.
LEMMA OnItsWayKept ==
    ASSUME IInv, Next
    PROVE  OnItsWay'
  <1> USE DEF queueVars, fdVars, deviceVars, mainVars, handlerVars
  <1>0. /\ TypeOK /\ OnItsWay /\ Handling /\ Descriptors /\ main # "over"
        /\ AtWork => batch # << >> /\ dev = Head(batch) /\ dev \in Dev
    BY DEF IInv, Handling, Next
  <1>1. CASE /\ UNCHANGED <<plugged, missed, grab, events, batch>>
             /\ at' # "add" \/ UNCHANGED <<at, lfd, gone>>
    BY <1>0, <1>1 DEF OnItsWay, Counts
  <1>2. CASE Signal \/ \E d \in Dev : DeviceEvent(d)
    BY <1>1, <1>2 DEF Signal, DeviceEvent
  <1>3. ASSUME NEW name \in Dev, PlugIn(name) PROVE OnItsWay'
    <2> SUFFICES ASSUME NEW d \in (plugged' \cap Configured) \ missed'
                 PROVE  \/ grab'[d] # 0
                        \/ \E i \in 1..Len(events') : events'[i] = d
                        \/ \E i \in 1..Len(batch') : batch'[i] = d /\ Counts(i)'
      BY DEF OnItsWay
    <2>1. Appears(name) /\ UNCHANGED <<grab, at, lfd, gone>> /\ plugged' = plugged \cup {name}
      BY <1>3 DEF PlugIn
    <2>2. missed' = IF Watch # {} \/ batch' # batch THEN missed \ {name} ELSE missed \cup {name}
      BY <1>3 DEF PlugIn
    <2>3. /\ (\E i \in 1..Len(events) : events[i] = d) =>
                (\E i \in 1..Len(events') : events'[i] = d)
          /\ \A i \in 1..Len(batch) : i \in 1..Len(batch') /\ batch'[i] = batch[i]
          /\ Watch # {} => \E i \in 1..Len(events') : events'[i] = name
          /\ batch' # batch =>
                \E i \in 1..Len(batch') : batch'[i] = name /\ (at = "add" => i # 1)
      BY <1>0, <2>1, AppearsKeeps
    <2>4. CASE d = name
      BY <2>1, <2>2, <2>3, <2>4 DEF Counts
    <2>5. CASE d # name
      <3>1. d \in (plugged \cap Configured) \ missed
        BY <2>1, <2>2, <2>5
      <3> QED
        BY <1>0, <2>1, <2>3, <3>1 DEF OnItsWay, Counts
    <2> QED
      BY <2>4, <2>5
  <1>4. ASSUME NEW name \in Dev, Unplug(name) PROVE OnItsWay'
    <2>1. ASSUME NEW d \in (plugged \cap Configured) \ missed, d # name
          PROVE  /\ grab'[d] = grab[d]
                 /\ \A i \in 1..Len(batch) : batch[i] = d /\ Counts(i) => Counts(i)'
      <3>1. d \in Dev /\ grab'[d] = grab[d]
        BY <1>0, <1>4, <2>1 DEF Unplug, TypeOK
      <3>2. ASSUME at = "add", batch[1] = d, lfd \notin gone PROVE lfd \notin gone'
        <4>1. use[lfd] = d
          BY <1>0, <3>2 DEF Descriptors, AtWork
        <4> QED
          BY <1>4, <2>1, <3>2, <4>1 DEF Unplug
      <3>3. at' = at /\ lfd' = lfd
        BY <1>4 DEF Unplug
      <3> QED
        BY <3>1, <3>2, <3>3 DEF Counts
    <2>2. /\ plugged' = plugged \ {name} /\ missed' = missed \ {name}
          /\ UNCHANGED <<events, batch, main>>
      BY <1>4 DEF Unplug
    <2> QED
      BY <1>0, <2>1, <2>2 DEF OnItsWay
  <1>14. ASSUME GivesUp, batch # << >>, UNCHANGED <<plugged, events, main, grab>>
         PROVE  OnItsWay'
    <2>1. /\ NextName /\ missed \subseteq missed'
          /\ \/ Head(batch) \notin (plugged \cap Configured) \ missed'
             \/ grab'[Head(batch)] # 0
             \/ \E i \in 1..Len(events) : events[i] = Head(batch)
             \/ \E i \in 1..Len(batch') : batch'[i] = Head(batch)
      BY <1>0, <1>14, GivesUpEffect
    <2> QED
      BY <1>0, <1>14, <2>1, NextNameKeeps
  <1>5. CASE PlugBegin
    BY <1>1, <1>5, <1>14 DEF PlugBegin
  <1>6. CASE OpenUinput
    BY <1>0, <1>1, <1>6, <1>14 DEF OpenUinput, AtWork
  <1>7. CASE CreateUinput
    <2>1. CASE GivesUp /\ UNCHANGED events
      BY <1>0, <1>7, <1>14, <2>1 DEF CreateUinput, AtWork
    <2>2. CASE Appears("own") /\ at' = "line" /\ UNCHANGED missed
      <3> SUFFICES ASSUME NEW d \in (plugged' \cap Configured) \ missed'
                   PROVE  \/ grab'[d] # 0
                          \/ \E i \in 1..Len(events') : events'[i] = d
                          \/ \E i \in 1..Len(batch') : batch'[i] = d /\ Counts(i)'
        BY DEF OnItsWay
      <3>1. UNCHANGED <<grab, plugged, missed>> /\ at # "add"
        BY <1>7, <2>2 DEF CreateUinput
      <3>2. /\ (\E i \in 1..Len(events) : events[i] = d) =>
                  (\E i \in 1..Len(events') : events'[i] = d)
            /\ \A i \in 1..Len(batch) : i \in 1..Len(batch') /\ batch'[i] = batch[i]
        BY <1>0, <2>2, AppearsKeeps
      <3> QED
        BY <1>0, <2>2, <3>1, <3>2 DEF OnItsWay, Counts
    <2> QED
      BY <1>7, <2>1, <2>2 DEF CreateUinput
  <1>8. CASE CreateLine
    <2>1. CASE GivesUp
      BY <1>0, <1>8, <1>14, <2>1 DEF CreateLine, AtWork
    <2>2. ASSUME NEW fd \in Fd, NewFd(fd), UNCHANGED <<batch, missed>>, lfd' = fd
          PROVE  OnItsWay'
      <3>1. fd \notin gone
        BY <1>0, <2>2, Names DEF NewFd, Free, Open, TypeOK, Lines
      <3>2. UNCHANGED <<plugged, grab, events, gone, main>> /\ at # "add"
        BY <1>8 DEF CreateLine
      <3> QED
        BY <1>0, <2>2, <3>1, <3>2 DEF OnItsWay, Counts
    <2> QED
      BY <1>8, <2>1, <2>2 DEF CreateLine
  <1>15. CASE AddFails
    BY <1>0, <1>15 DEF AddFails, OnItsWay, Counts
  <1>16. CASE DropLine
    BY <1>0, <1>14, <1>16 DEF DropLine, AtWork
  <1>9. CASE AddLine
    <2>1. /\ lfd \in Fd /\ dev \in Dev /\ Head(batch) = dev /\ lfd # 0
          /\ NextName /\ batch # << >> /\ UNCHANGED <<plugged, events, main, missed>>
      BY <1>0, <1>9, QueueFacts DEF AddLine, AtWork, Descriptors, IInv
    <2>2. CASE grab[dev] = 0 /\ lfd \notin gone
      <3>1. grab'[dev] = lfd /\ \A d \in Dev \ {dev} : grab'[d] = grab[d]
        BY <1>0, <1>9, <2>1, <2>2 DEF AddLine, TypeOK
      <3> QED
        BY <1>0, <2>1, <3>1, NextNameKeeps
    <2>3. CASE ~(grab[dev] = 0 /\ lfd \notin gone)
      <3>1. grab' = grab
        BY <1>9, <2>3 DEF AddLine
      <3> QED
        BY <1>0, <1>9, <2>1, <2>3, <3>1, NextNameKeeps DEF AddLine
    <2> QED
      BY <2>2, <2>3
  <1>10. CASE Cleanup
    BY <1>10 DEF Cleanup, OnItsWay
  <1>11. CASE HotplugRead
    <2>1. batch = << >> /\ batch' = events /\ at' = "none"
      BY <1>0, <1>11 DEF HotplugRead, Handling
    <2>2. UNCHANGED <<plugged, missed, grab>>
      BY <1>11 DEF HotplugRead
    <2>3. \A i : Counts(i)'
      BY <2>1 DEF Counts
    <2> QED
      BY <1>0, <2>1, <2>2, <2>3 DEF OnItsWay
  <1>12. CASE WatchHotplug \/ AddHotplug \/ CheckLooping \/ EnterSelect \/ SelectReturns
    BY <1>1, <1>12
    DEF WatchHotplug, AddHotplug, CheckLooping, EnterSelect, SelectReturns
  <1>13. CASE Pass \/ HotplugReturn \/ LineRead \/ LineGone \/ LineReturn
    BY <1>1, <1>13 DEF Pass, HotplugReturn, LineRead, LineGone, LineReturn
  <1> QED
    BY <1>2, <1>3, <1>4, <1>5, <1>6, <1>7, <1>8, <1>9, <1>10, <1>11, <1>12, <1>13, <1>15, <1>16
    DEF Next, Kernel, DevicePlugged, Main, Callback

\* The directory listing has every device that is there: an injective sequence
\* as long as the set is onto.
LEMMA ListingIsComplete ==
    ASSUME NEW S \in SUBSET Dev, NEW s \in SetToSeqs(S)
    PROVE  s \in Seq(S) /\ \A d \in S : \E i \in 1..Len(s) : s[i] = d
  <1> DEFINE n == Cardinality(S)
             D == 1..n
  <1>1. IsFiniteSet(S) /\ n \in Nat
    BY EvfdAssumption, FS_Subset, FS_CardinalityType
  <1>2. s \in [D -> S] /\ \A i, j \in D : i # j => s[i] # s[j]
    BY DEF SetToSeqs
  <1>3. s \in Injection(D, S)
    BY <1>2 DEF Injection, IsInjective
  <1>4. Cardinality(D) = n
    BY <1>1, FS_Interval
  <1>5. s \in Surjection(D, S)
    BY <1>1, <1>3, <1>4, FS_Injection
  <1>6. s \in Seq(S) /\ Len(s) = n
    BY <1>1, <1>2
  <1> QED
    BY <1>5, <1>6 DEF Surjection

\* The daemon starts with every device in the batch.
LEMMA InitIInv == Init => IInv
  <1> SUFFICES ASSUME Init PROVE IInv
    OBVIOUS
  <1>1. /\ Open = {} /\ Lines = {} /\ Watch = {} /\ Members = {} /\ Data = {}
    BY Names DEF Init, Open, Lines, Watch, Members, ToSet, Data
  <1>2. Q!IInv
    BY <1>1, QueueInit DEF Init, Q!Init
  <1>3. batch \in Seq(plugged) /\ \A d \in plugged : \E i \in 1..Len(batch) : batch[i] = d
    BY ListingIsComplete DEF Init
  <1>4. batch \in Seq(Dev \cup {"own"}) /\ plugged \subseteq Dev
    BY <1>3 DEF Init
  <1>5. TypeOK
    <2>1. Q!TypeOK
      BY <1>2 DEF Q!IInv
    <2>2. events \in Seq(Dev \cup {"own"}) /\ plugs \in 0..MaxPlugs
      BY EvfdAssumption DEF Init
    <2>3. /\ use \in [Fd -> {"free", "hotplug", "uinput"} \cup Dev]
          /\ grab \in [Dev -> Fd \cup {0}]
          /\ sink \in [Fd -> Fd \cup {0}]
      BY DEF Init
    <2> QED
      BY <1>1, <1>4, <2>1, <2>2, <2>3 DEF Init, TypeOK
  <1>6. Turns /\ Handling
    BY DEF Init, Turns, Handling, AtWork, Plugging, Q!InLoop
  <1>7. Descriptors /\ Sinks /\ Grabs
    BY <1>1 DEF Init, Descriptors, Sinks, Grabs
  <1>8. OnItsWay
    BY <1>3 DEF Init, OnItsWay, Counts
  <1> QED
    BY <1>2, <1>5, <1>6, <1>7, <1>8 DEF IInv

\* The invariant is inductive.
LEMMA NextIInv == IInv /\ [Next]_vars => IInv'
  <1> SUFFICES ASSUME IInv, [Next]_vars PROVE IInv'
    OBVIOUS
  <1>1. Q!IInv'
    BY QueueStep
  <1>2. CASE UNCHANGED vars
    <2>1. Members' = Members /\ Lines' = Lines /\ Watch' = Watch
      BY <1>2 DEF vars, queueVars, fdVars, Members, Lines, Watch
    <2> QED
      BY <1>1, <1>2, <2>1
      DEF IInv, Q!IInv, TypeOK, Turns, Handling, Descriptors, Sinks, Grabs, OnItsWay,
          Counts, AtWork, Plugging, InHotplug, Q!InLoop, vars, queueVars, fdVars,
          deviceVars, mainVars, handlerVars
  <1>3. CASE Next
    <2>1. TypeOK'
      BY <1>1, <1>3, KernelTypes, PluggedTypes, MainTypes, CallbackTypes DEF Next
    <2>2. Handling'
      BY <1>3, KernelHandling, PluggedHandling, MainHandling, CallbackHandling DEF Next
    <2>3. Descriptors'
      BY <1>3, KernelDescriptors, PluggedDescriptors, MainDescriptors,
         CallbackDescriptors DEF Next
    <2> QED
      BY <1>1, <1>3, <2>1, <2>2, <2>3, TurnsKept, SinksKept, GrabsKept, OnItsWayKept
      DEF IInv
  <1> QED
    BY <1>2, <1>3

\* The inductive invariant holds in every reachable state.
THEOREM Invariance == Spec => []IInv
  BY InitIInv, NextIInv, PTL DEF Spec

-----------------------------------------------------------------------------
(* The properties the runs check, for every set of devices and descriptors, *)
(* every number of devices plugged and every size of the queue.             *)

\* The state of the daemon and of its queue always has its types: descriptors,
\* the names on their way, main()'s and the callbacks' places.
THEOREM Types == Spec => []TypeOK
  BY Invariance, PTL DEF IInv

\* The daemon is a legal user of the queue: every one of its steps, of whatever
\* actor, is a step of IoQueue or leaves the queue alone.  So all that
\* IoQueueProofs proves of the queue holds of the queue in the daemon.
THEOREM UsesTheQueue == Spec => QueueContract
  <1>1. Init => Q!Init
    BY Names DEF Init, Q!Init, Open, Data, Watch
  <1>2. IInv /\ [Next]_vars => [Q!Next]_(Q!vars)
    BY QueueStep
  <1> QED
    BY <1>1, <1>2, Invariance, PTL DEF Spec, QueueContract, Q!Spec

\* However often a device's name is reported, one of its lines at most gets its
\* events.
THEOREM EventsReachOneLine == Spec => []OneConsumer
  <1>1. IInv => OneConsumer
    <2> SUFFICES ASSUME IInv, NEW d \in plugged
                 PROVE  Cardinality(Live(d)) <= 1
      BY DEF OneConsumer
    <2>1. d \in Dev
      BY DEF IInv, TypeOK
    <2>2. ASSUME NEW fd \in Live(d) PROVE fd = grab[d]
      <3>1. /\ fd \in Members /\ fd \in Fd /\ use[fd] = d /\ fd \notin gone
            /\ grab[d] \in {0, fd}
        BY <2>2 DEF Live, Readers
      <3>2. fd \in Lines
        BY <2>1, <3>1 DEF Lines
      <3> QED
        BY <3>1, <3>2 DEF IInv, Grabs
    <2>3. Live(d) = {} \/ Live(d) = {grab[d]}
      BY <2>2
    <2>4. Cardinality({}) = 0 /\ Cardinality({grab[d]}) = 1
      BY FS_EmptySet, FS_Singleton
    <2> QED
      BY <2>3, <2>4
  <1> QED
    BY <1>1, Invariance, PTL

\* Every line in the queue commits to an open uinput device that is its own,
\* however descriptors are closed and their numbers reused.
THEOREM SinksStayApart == Spec => []OwnSink
  <1>1. IInv => OwnSink
    <2> SUFFICES ASSUME IInv PROVE OwnSink
      OBVIOUS
    <2>1. ASSUME NEW l \in Members \cap Lines PROVE l \in Lines \ {lfd}
      <3>1. l \in Fd /\ 0 \notin Fd
        BY QueueFacts DEF IInv, Lines
      <3> QED
        BY <2>1, <3>1 DEF IInv, Descriptors
    <2>2. 0 \notin Fd
      BY QueueFacts DEF IInv
    <2> QED
      BY <2>1, <2>2 DEF OwnSink, IInv, Sinks
  <1> QED
    BY <1>1, Invariance, PTL

\* Whenever the daemon sleeps with nothing to do, every device that filters are
\* configured for has a line that gets its events, but for those it could not be
\* told of or had no descriptor for.
THEOREM NoDeviceForgotten == Spec => []NoneForgotten
  <1>1. IInv => NoneForgotten
    <2> SUFFICES ASSUME IInv, Settled, NEW d \in (plugged \cap Configured) \ missed
                 PROVE  Live(d) # {}
      BY DEF NoneForgotten
    <2>1. d \in Dev /\ main # "over" /\ events = << >> /\ batch = << >>
      BY DEF IInv, TypeOK, Settled
    <2>2. grab[d] # 0
      BY <2>1 DEF IInv, OnItsWay
    <2>3. grab[d] \in Members \ gone /\ use[grab[d]] = d /\ grab[d] \in Fd
      BY <2>1, <2>2, QueueFacts DEF IInv, Grabs
    <2> QED
      BY <2>3 DEF Live, Readers
  <1> QED
    BY <1>1, Invariance, PTL
=============================================================================
