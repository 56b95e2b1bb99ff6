-------------------------------- MODULE Evfd --------------------------------
(***************************************************************************)
(* The evfilter daemon, src/src/evfd/evfd.c, with hotplug (evf_hotplug.c), *)
(* the life of its input lines (evf_line.c) and of their uinput devices    *)
(* (evf_uinput.c), on top of the reactor of IoQueue.                       *)
(*                                                                         *)
(* evfd walks /dev/input, then watches it with inotify.  For every device  *)
(* it creates a uinput device, opens the device, adds the line to the io   *)
(* queue and grabs the device.  A line whose device is gone is removed by  *)
(* its callback.  Devices come and go, and a signal may come, between any  *)
(* two system calls.                                                       *)
(*                                                                         *)
(* Event contents and filters are left out: a line reads and commits.      *)
(***************************************************************************)
EXTENDS Naturals, Sequences, FiniteSets, FiniteSetsExt, SequencesExt

CONSTANTS
    Fd,         \* descriptor numbers open() may return; more means EMFILE
    Dev,        \* device nodes /dev/input/eventN
    Configured, \* devices evf_line_create() makes a line for
    MaxPlugs,   \* bound on the number of devices plugged in
    MaxCnt      \* bound of IoQueue, never reached with enough room

\* Device nodes are finite in number and none of the other things a descriptor
\* may be open on or a name may stand for.
ASSUME EvfdAssumption ==
    /\ Fd \subseteq Nat \ {0}
    /\ IsFiniteSet(Dev)
    /\ Dev \cap {"free", "hotplug", "uinput", "own", "none"} = {}
    /\ Configured \subseteq Dev
    /\ MaxPlugs \in Nat
    /\ MaxCnt \in Nat

VARIABLES
    list, rfds, cnt, pc, here, fresh, dropped,      \* the io queue: IoQueue
    use,        \* kernel: what each descriptor is open on
    gone,       \* kernel: line descriptors whose device was unplugged
    input,      \* kernel: line descriptors with events to read
    plugged,    \* kernel: the devices that are there
    grab,       \* kernel: the descriptor that grabbed a device, or 0
    events,     \* kernel: the inotify events not yet read
    plugs,      \* bound: devices plugged in so far
    missed,     \* history: devices device_plugged() could not be told of, or
                \* has given up because a call failed
    main,       \* where main() is
    wait,       \* where main() is in its loop, while the queue is idle
    looping,    \* evfd.c: cleared by the signal handler
    errno,      \* a call has failed since walk() cleared errno
    batch,      \* device names still to be handed to device_plugged()
    at,         \* where device_plugged() or a callback is
    dev, ufd, lfd,  \* device_plugged()'s dev, its uinput and its line descriptor
    sink        \* the uinput descriptor each line commits to, or 0

queueVars   == <<list, rfds, cnt, pc, here, fresh, dropped>>
fdVars      == <<use, gone, input, grab>>
deviceVars  == <<plugged, events, plugs, missed>>
mainVars    == <<main, wait, looping, errno>>
handlerVars == <<batch, at, dev, ufd, lfd, sink>>
vars == <<queueVars, fdVars, deviceVars, mainVars, handlerVars>>

Open    == {fd \in Fd : use[fd] # "free"}
Lines   == {fd \in Fd : use[fd] \in Dev}
Watch   == {fd \in Fd : use[fd] = "hotplug"}
Members == ToSet(list)

\* What select() reports: events, a device that is gone, hotplug events.
Data == input \cup gone \cup (IF events # << >> THEN Watch ELSE {})

Q == INSTANCE IoQueue WITH
        Returns <- {{}, {"REM"}}, open <- Open, data <- Data

TypeOK ==
    /\ Q!TypeOK
    /\ use \in [Fd -> {"free", "hotplug", "uinput"} \cup Dev]
    /\ gone \subseteq Lines /\ input \subseteq Lines
    /\ plugged \subseteq Dev /\ missed \subseteq Dev
    /\ grab \in [Dev -> Fd \cup {0}]
    /\ events \in Seq(Dev \cup {"own"}) /\ batch \in Seq(Dev \cup {"own"})
    /\ plugs \in 0..MaxPlugs
    /\ main \in {"walk", "watch", "run", "over"}
    /\ wait \in {"check", "enter", "select"}
    /\ looping \in BOOLEAN /\ errno \in BOOLEAN
    /\ at \in {"none", "start", "uinput", "create", "line", "add", "drop", "closed", "done"}
    /\ dev \in Dev \cup {"none"}
    /\ ufd \in Fd \cup {0} /\ lfd \in Fd \cup {0}
    /\ sink \in [Fd -> Fd \cup {0}]

-----------------------------------------------------------------------------
(* The kernel.                                                             *)

Free     == Fd \ Open
\* open() returns the lowest free number.
NewFd(fd) == fd \in Free /\ \A f \in Free : fd <= f

\* A node appears.  The directory walk may or may not come across a node that
\* appears while it runs; inotify reports it once there is a watch.  Deletions
\* are reported too and nothing is done about them (dev_unplug is NULL,
\* evfd.c:203): they are left out.
Appears(name) ==
    /\ events' = IF Watch # {} THEN Append(events, name) ELSE events
    /\ \/ UNCHANGED batch
       \/ main = "walk" /\ batch' = Append(batch, name)

PlugIn(d) ==
    /\ d \notin plugged
    /\ plugs < MaxPlugs
    /\ plugged' = plugged \cup {d}
    /\ plugs' = plugs + 1
    /\ Appears(d)
    /\ missed' = IF Watch # {} \/ batch' # batch THEN missed \ {d} ELSE missed \cup {d}
    /\ UNCHANGED <<queueVars, fdVars, mainVars, at, dev, ufd, lfd, sink>>

Unplug(d) ==
    /\ d \in plugged
    /\ plugged' = plugged \ {d}
    /\ missed' = missed \ {d}
    /\ gone' = gone \cup {fd \in Fd : use[fd] = d}
    /\ input' = {fd \in input : use[fd] # d}
    /\ grab' = [grab EXCEPT ![d] = 0]
    /\ UNCHANGED <<queueVars, use, events, plugs, mainVars, handlerVars>>

\* The descriptors a device's events go to: the one that grabbed it, or all.
Readers(d) ==
    {fd \in Fd : use[fd] = d /\ fd \notin gone /\ grab[d] \in {0, fd}}

DeviceEvent(d) ==
    /\ d \in plugged
    /\ input' = input \cup Readers(d)
    /\ UNCHANGED <<queueVars, use, gone, grab, deviceVars, mainVars, handlerVars>>

\* A signal makes a select() that sleeps return; in the steps between the test
\* of "looping" and select() it only clears the flag.
Signal ==
    /\ looping
    /\ looping' = FALSE
    /\ wait' = IF wait = "select" THEN "check" ELSE wait
    /\ UNCHANGED <<queueVars, fdVars, deviceVars, main, errno, handlerVars>>

-----------------------------------------------------------------------------
(* device_plugged(), called by the walk and by evf_hotplug_rescan().       *)

InHotplug == pc = "callback" /\ use[here] = "hotplug"
Plugging  == main = "walk" \/ InHotplug

\* device_plugged() returns: on with the next name.
NextName ==
    /\ batch' = Tail(batch)
    /\ at' = "none"
    /\ dev' = "none" /\ ufd' = 0 /\ lfd' = 0

\* errno matters to walk() only, which clears it once, before the first device.
Fails    == errno' = (errno \/ main = "walk")
MayFail  == errno' = errno \/ Fails
Succeeds == UNCHANGED errno

\* device_plugged() gives up.  The device has missed its line, unless it has one
\* or there is another name of it to come.
GivesUp ==
    /\ NextName
    /\ missed' = missed \cup {d \in {Head(batch)} \cap plugged :
                                 grab[d] = 0 /\ d \notin ToSet(events \o Tail(batch))}

Close(fd) == use' = [use EXCEPT ![fd] = "free"]

OursNever(d) == d # "own" /\ d \notin plugged      \* mutant: the name is not compared

\* our_input_device(): a node that is gone, or one with the name of evfd's own.
OurInputDevice(d) == d = "own" \/ d \notin plugged

\* When open() fails, for lack of a descriptor or any other reason, the device
\* is taken for evfd's own; so it may be when its name cannot be read, as the
\* buffer still holds what was on the stack.
PlugBegin ==
    /\ Plugging /\ at = "none" /\ batch # << >>
    /\ \/ GivesUp /\ IF OurInputDevice(Head(batch)) THEN MayFail ELSE Fails
       \/ /\ ~OurInputDevice(Head(batch)) /\ Free # {}
          /\ at' = "uinput" /\ dev' = Head(batch)
          /\ Succeeds
          /\ UNCHANGED <<batch, ufd, lfd, missed>>
    /\ UNCHANGED <<queueVars, fdVars, plugged, events, plugs, main, wait, looping, sink>>

\* evf_uinput_create(): of the two paths it tries (config.c) the first may not
\* exist, and errno stays set.
OpenUinput ==
    /\ at = "uinput"
    /\ \/ GivesUp /\ Fails /\ UNCHANGED use
       \/ \E fd \in Fd :
            /\ NewFd(fd)
            /\ use' = [use EXCEPT ![fd] = "uinput"]
            /\ at' = "create" /\ ufd' = fd
            /\ MayFail
            /\ UNCHANGED <<batch, dev, lfd, missed>>
    /\ UNCHANGED <<queueVars, gone, input, grab, plugged, events, plugs, main, wait, looping, sink>>

CreateUinputClosed ==        \* mutant: the descriptor is closed on success
    /\ at = "create"
    /\ at' = "line"
    /\ use' = [use EXCEPT ![ufd] = "free"]
    /\ Appears("own")
    /\ UNCHANGED <<queueVars, gone, input, grab, plugged, plugs, missed, mainVars, dev, ufd, lfd, sink>>

\* write() and UI_DEV_CREATE, which makes a node of evfd's own appear.
CreateUinput ==
    /\ at = "create"
    /\ \/ GivesUp /\ MayFail /\ Close(ufd) /\ UNCHANGED events
       \/ /\ at' = "line"
          /\ Appears("own")
          /\ UNCHANGED <<use, missed, errno, dev, ufd, lfd>>
    /\ UNCHANGED <<queueVars, gone, input, grab, plugged, plugs, main, wait, looping, sink>>

\* evf_line_create() opens the device, the profile and the files it names, these
\* one at a time.  It fails for a device that is gone, for one no filter is
\* configured for, without the descriptors, without memory, and at will where
\* it tests evf_err, which nobody has initialised.
CreateLine ==
    /\ at = "line"
    /\ \/ /\ GivesUp
          /\ IF dev \in plugged THEN MayFail ELSE Fails
          /\ Close(ufd)
       \/ \E fd \in Fd :
            /\ dev \in plugged \cap Configured
            /\ Cardinality(Free) > 2
            /\ NewFd(fd)
            /\ use' = [use EXCEPT ![fd] = dev]
            /\ at' = "add" /\ lfd' = fd
            /\ Succeeds
            /\ UNCHANGED <<batch, dev, ufd, missed>>
    /\ UNCHANGED <<queueVars, gone, input, grab, plugged, events, plugs, main, wait, looping, sink>>

AddLineUngrabbed ==        \* mutant: the device is not grabbed
    /\ at = "add"
    /\ NextName
    /\ sink' = [sink EXCEPT ![lfd] = ufd]
    /\ UNCHANGED <<fdVars, deviceVars, mainVars>>
    /\ Q!Add(lfd)

\* evf_io_queue_add(), and evf_input_grab(), whose failure is only reported.
AddLine ==
    /\ at = "add"
    /\ NextName
    /\ sink' = [sink EXCEPT ![lfd] = ufd]
    /\ IF grab[dev] = 0 /\ lfd \notin gone
       THEN grab' = [grab EXCEPT ![dev] = lfd] /\ Succeeds
       ELSE Fails /\ UNCHANGED grab
    /\ UNCHANGED <<use, gone, input, deviceVars, main, wait, looping>>
    /\ Q!Add(lfd)

\* evf_io_queue_add() has no memory: the uinput device is closed, then the line.
AddFails ==
    /\ at = "add"
    /\ at' = "drop"
    /\ Close(ufd) /\ ufd' = 0
    /\ Fails
    /\ UNCHANGED <<queueVars, gone, input, grab, deviceVars, main, wait, looping, batch, dev, lfd, sink>>

DropLine ==
    /\ at = "drop"
    /\ GivesUp
    /\ Close(lfd)
    /\ gone' = gone \ {lfd} /\ input' = input \ {lfd}
    /\ UNCHANGED <<queueVars, grab, plugged, events, plugs, mainVars, sink>>

-----------------------------------------------------------------------------
(* main().                                                                 *)

\* The rest of evf_hotplug_init(): the walk has failed if errno is set, whoever
\* set it, and the daemon ends; so it does when inotify_init() or
\* inotify_add_watch() fails.
WatchHotplug ==
    /\ main = "walk" /\ at = "none" /\ batch = << >>
    /\ errno' = FALSE
    /\ \/ main' = "over" /\ UNCHANGED use
       \/ \E fd \in Fd :
            /\ ~errno
            /\ NewFd(fd)
            /\ use' = [use EXCEPT ![fd] = "hotplug"]
            /\ main' = "watch"
    /\ UNCHANGED <<queueVars, gone, input, grab, deviceVars, wait, looping, handlerVars>>

\* The inotify descriptor is added to the queue, or the daemon ends.
AddHotplug ==
    /\ main = "watch"
    /\ UNCHANGED <<fdVars, deviceVars, wait, looping, errno, handlerVars>>
    /\ \/ main' = "over" /\ UNCHANGED queueVars
       \/ main' = "run" /\ \E fd \in Watch : Q!Add(fd)

CheckLoopingNever ==        \* mutant: while (1)
    /\ main = "run" /\ pc = "idle" /\ wait = "check"
    /\ wait' = "enter"
    /\ UNCHANGED <<queueVars, fdVars, deviceVars, main, looping, errno, handlerVars>>

\* while (looping) evf_io_queue_wait(queue, NULL);
CheckLooping ==
    /\ main = "run" /\ pc = "idle" /\ wait = "check" /\ looping
    /\ wait' = "enter"
    /\ UNCHANGED <<queueVars, fdVars, deviceVars, main, looping, errno, handlerVars>>

EnterSelect ==
    /\ wait = "enter"
    /\ wait' = "select"
    /\ UNCHANGED <<queueVars, fdVars, deviceVars, main, looping, errno, handlerVars>>

SelectReturns ==
    /\ wait = "select"
    /\ Q!Ready # {}
    /\ wait' = "check"
    /\ UNCHANGED <<fdVars, deviceVars, main, looping, errno, handlerVars>>
    /\ Q!Select

\* The pass of the io queue's loop: re-arm a member or call its callback.
Pass ==
    /\ UNCHANGED <<fdVars, deviceVars, mainVars, batch, dev, ufd, lfd, sink>>
    /\ \/ Q!Rearm /\ UNCHANGED at
       \/ Q!Dispatch /\ at' = "start"

HotplugReadFirst ==        \* mutant: the loop over the events ends after one
    /\ InHotplug /\ at = "start" /\ events # << >>
    /\ batch' = <<Head(events)>>
    /\ events' = << >>
    /\ at' = "none"
    /\ UNCHANGED <<queueVars, fdVars, plugged, plugs, missed, mainVars, dev, ufd, lfd, sink>>

\* evf_hotplug_rescan() reads all that is queued (a buffer holds 32 events, more
\* than there are here) and hands it on name by name; the read blocks when there
\* is nothing.
HotplugRead ==
    /\ InHotplug /\ at = "start" /\ events # << >>
    /\ batch' = events
    /\ events' = << >>
    /\ at' = "none"
    /\ UNCHANGED <<queueVars, fdVars, plugged, plugs, missed, mainVars, dev, ufd, lfd, sink>>

HotplugReturn ==
    /\ InHotplug /\ at = "none" /\ batch = << >>
    /\ UNCHANGED <<fdVars, deviceVars, mainVars, handlerVars>>
    /\ Q!Return({})

\* line_data() reads one event and commits it; it blocks when there is none.
LineRead ==
    /\ pc = "callback" /\ at = "start" /\ here \in input
    /\ \E rest \in {{}, {here}} : input' = (input \ {here}) \cup rest
    /\ at' = "done"
    /\ UNCHANGED <<queueVars, use, gone, grab, deviceVars, mainVars, batch, dev, ufd, lfd, sink>>

LineGoneIgnored ==        \* mutant: ENODEV is no error
    /\ pc = "callback" /\ at = "start" /\ here \in gone
    /\ at' = "done"
    /\ UNCHANGED <<queueVars, fdVars, deviceVars, mainVars, batch, dev, ufd, lfd, sink>>

\* The read fails with ENODEV: evf_line_destroy() closes the descriptor and
\* returns NULL, so nobody closes the uinput descriptor of the line.
LineGone ==
    /\ pc = "callback" /\ at = "start" /\ here \in gone
    /\ use' = [use EXCEPT ![here] = "free"]
    /\ gone' = gone \ {here}
    /\ sink' = [sink EXCEPT ![here] = 0]
    /\ at' = "closed"
    /\ UNCHANGED <<queueVars, input, grab, deviceVars, mainVars, batch, dev, ufd, lfd>>

LineReturnOk ==        \* mutant: EVF_IO_QUEUE_OK for a line that was destroyed
    /\ pc = "callback" /\ at \in {"done", "closed"}
    /\ at' = "none"
    /\ Q!Advance
    /\ UNCHANGED <<list, rfds, cnt, fresh, dropped>>
    /\ UNCHANGED <<fdVars, deviceVars, mainVars, batch, dev, ufd, lfd, sink>>

\* line_data() returns EVF_IO_QUEUE_REM or EVF_IO_QUEUE_OK.
LineReturn ==
    /\ pc = "callback" /\ at \in {"done", "closed"}
    /\ at' = "none"
    /\ UNCHANGED <<fdVars, deviceVars, mainVars, batch, dev, ufd, lfd, sink>>
    /\ Q!Return(IF at = "closed" THEN {"REM"} ELSE {})

\* After the loop: every line is ungrabbed and destroyed, evf_uinput_destroy()
\* gets the NULL of evf_line_destroy(), and the program ends.
Cleanup ==
    /\ main = "run" /\ pc = "idle" /\ wait = "check" /\ ~looping
    /\ main' = "over"
    /\ use' = [fd \in Fd |-> IF fd \in Members \cap Lines THEN "free" ELSE use[fd]]
    /\ gone' = gone \ Members /\ input' = input \ Members
    /\ grab' = [d \in Dev |-> 0]
    /\ sink' = [fd \in Fd |-> 0]
    /\ UNCHANGED <<deviceVars, wait, looping, errno, batch, at, dev, ufd, lfd>>
    /\ Q!Destroy(Members \cap Lines)

-----------------------------------------------------------------------------
\* The devices that are there when walk() opens the directory, in the order
\* readdir() returns them.
Init ==
    /\ list = << >> /\ rfds = {} /\ cnt = 0 /\ pc = "idle" /\ here = 0
    /\ fresh = {} /\ dropped = {}
    /\ use = [fd \in Fd |-> "free"] /\ gone = {} /\ input = {}
    /\ plugged \in SUBSET Dev
    /\ batch \in SetToSeqs(plugged)
    /\ grab = [d \in Dev |-> 0]
    /\ events = << >> /\ plugs = 0 /\ missed = {}
    /\ main = "walk" /\ wait = "check" /\ looping = TRUE
    /\ errno = FALSE
    /\ at = "none" /\ dev = "none" /\ ufd = 0 /\ lfd = 0
    /\ sink = [fd \in Fd |-> 0]

Kernel == Signal \/ \E d \in Dev : PlugIn(d) \/ Unplug(d) \/ DeviceEvent(d)

DevicePlugged ==
    \/ PlugBegin \/ OpenUinput \/ CreateUinput \/ CreateLine \/ AddLine
    \/ AddFails \/ DropLine

Main ==
    \/ WatchHotplug \/ AddHotplug \/ CheckLooping \/ EnterSelect
    \/ SelectReturns \/ Pass \/ Cleanup

Callback == HotplugRead \/ HotplugReturn \/ LineRead \/ LineGone \/ LineReturn

Next == main # "over" /\ (Kernel \/ DevicePlugged \/ Main \/ Callback)

\* The daemon goes on whenever it can; nothing is assumed of the devices.
Fairness == WF_vars(main # "over" /\ (DevicePlugged \/ Main \/ Callback))

Spec     == Init /\ [][Next]_vars
FairSpec == Spec /\ Fairness

-----------------------------------------------------------------------------
(* What the daemon promises.                                               *)

\* The daemon uses the io queue as IoQueue's contract asks, so all that is
\* proved of IoQueue holds of the queue in the daemon.
QueueContract == Q!Spec

\* Lines that still get events, of a device that is there.
Live(d) == {fd \in Members : use[fd] = d /\ fd \in Readers(d)}

\* Two names of one device in the inotify buffer make two lines; the grab lets
\* only one of them have the events, so no event is committed twice.
OneConsumer == \A d \in plugged : Cardinality(Live(d)) <= 1

\* Every line in the queue commits to an open uinput device, and to one that is
\* no other line's, however descriptors are closed and their numbers reused.
OwnSink ==
    \A l \in Members \cap Lines :
        /\ sink[l] # 0 /\ use[sink[l]] = "uinput"
        /\ \A k \in Members \cap Lines : sink[k] = sink[l] => k = l

\* Asleep with nothing to do: no device name is waiting anywhere.
Settled == main = "run" /\ wait = "select" /\ events = << >> /\ batch = << >>

\* Whenever the daemon sleeps, every device that filters are configured for has
\* a line, but for the devices that came between the walk and the watch and those
\* for which a call of device_plugged() has failed.  Whatever is unplugged, plugged
\* and reported twice meanwhile, none is lost otherwise.
NoneForgotten ==
    Settled => \A d \in (plugged \cap Configured) \ missed : Live(d) # {}

\* Asleep in the read of a line that has nothing to read.
Stalled == pc = "callback" /\ at = "start" /\ here \notin Data

\* A signal ends the daemon, unless it comes after the last test of looping and
\* before select(), or the daemon is or falls asleep in a read.  One that
\* came too late is heeded when select() returns for something else.
StopsUnlessStalled == ~looping /\ wait = "check" ~> main = "over" \/ Stalled

\* The lines of a device that is gone leave the queue: there comes a time when
\* none of them is left.
DeadLineLeaves ==
    \A d \in Dev :
        (\E fd \in gone \cap Members : use[fd] = d) ~>
            (\A fd \in gone \cap Members : use[fd] # d) \/ main = "over" \/ Stalled

\* Plugging a device makes a node of evfd's own appear in the directory evfd
\* watches; this does not go on for ever.
HotplugSettles ==
    events # << >> ~> (events = << >> /\ batch = << >>) \/ main = "over" \/ Stalled

-----------------------------------------------------------------------------
(* The inductive invariant of the proofs (EvfdProofs).                     *)

\* main(), the loop of the queue and the callbacks take turns.
Turns ==
    /\ main \in {"walk", "watch"} => pc = "idle" /\ wait = "check"
    /\ wait # "check" => main = "run" /\ pc = "idle"
    /\ Q!InLoop => main = "run"
    /\ pc = "gone" => main = "over"

\* device_plugged() runs for the first name that is left, in the walk or in the
\* callback of the inotify descriptor; a callback is one of that or of a line.
AtWork == at \in {"uinput", "create", "line", "add", "drop"}

Handling ==
    /\ AtWork \/ batch # << >> => Plugging
    /\ AtWork => batch # << >> /\ dev = Head(batch) /\ dev \in Dev
    /\ at \in {"start", "done", "closed"} => pc = "callback" /\ batch = << >>
    /\ at = "start" => use[here] \in Dev \cup {"hotplug"}
    /\ at = "done" => use[here] \in Dev
    /\ at = "closed" => use[here] = "free"
    /\ pc = "callback" /\ at \notin {"start", "done", "closed"} => use[here] = "hotplug"

\* What every descriptor is open on, and who knows it: lines are members, but
\* for the one device_plugged() is about to add; there is one inotify
\* descriptor, and none before the walk is over.
Descriptors ==
    /\ \A fd \in Members : use[fd] # "uinput"
    /\ Lines \subseteq Members \cup {lfd}
    /\ \A a, b \in Watch : a = b
    /\ Watch # {} => main # "walk"
    /\ Watch = {} => events = << >>
    /\ gone \cap input = {}
    /\ IF at \in {"create", "line", "add"} THEN ufd \in Fd /\ use[ufd] = "uinput" ELSE ufd = 0
    /\ IF at \in {"add", "drop"} THEN lfd \in Fd \ Members /\ use[lfd] = dev ELSE lfd = 0

\* A line that has been added commits to a uinput device of its own, which is
\* not the one device_plugged() is working on.
Sinks ==
    \A l \in Lines \ {lfd} :
        /\ sink[l] \in Fd \ {ufd} /\ use[sink[l]] = "uinput"
        /\ \A k \in Lines \ {lfd} : sink[k] = sink[l] => k = l

\* A grab is held by a line in the queue that is alive, and where there is such
\* a line there is a grab, its own or another's.
Grabs ==
    /\ \A d \in Dev : grab[d] # 0 =>
            grab[d] \in Members \ gone /\ use[grab[d]] = d
    /\ \A fd \in (Members \cap Lines) \ gone : grab[use[fd]] # 0

\* A line about to be added for a device that was unplugged meanwhile is dead:
\* its name in the batch no longer counts.
Counts(i) == at = "add" /\ i = 1 => lfd \notin gone

\* Every device with a filter has its line, or its name is on its way.
OnItsWay ==
    main # "over" =>
        \A d \in (plugged \cap Configured) \ missed :
            \/ grab[d] # 0
            \/ \E i \in 1..Len(events) : events[i] = d
            \/ \E i \in 1..Len(batch) : batch[i] = d /\ Counts(i)

IInv ==
    /\ TypeOK
    /\ Q!IInv
    /\ Turns
    /\ Handling
    /\ Descriptors
    /\ Sinks
    /\ Grabs
    /\ OnItsWay

-----------------------------------------------------------------------------
(* What comments and headers say and the code does not do.                 *)

\* evf_line.h:35-36: "Call this after select says there are data, or as polling
\* in non blocking mode."  A line whose descriptor is below the inotify
\* descriptor is called in the pass that created it, and its blocking read
\* stops the whole daemon until that device sends something.
ReadsWhenReady ==
    pc = "callback" /\ at = "start" /\ use[here] \in Dev => here \in Data

\* evf_line.h:74-76: evf_line_destroy() "Returns pointer to void *data", with
\* which a caller could close the uinput device.  It returns NULL: the uinput
\* device of a line that is removed stays, with nothing behind it.
NoOrphan ==
    at = "none" /\ main = "run" =>
        \A fd \in Fd : use[fd] = "uinput" => \E l \in Lines : sink[l] = fd
=============================================================================
