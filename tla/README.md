# evfilter in TLA+

evfilter (src/src/) reads Linux input devices, sends their events through
configurable filters and hands the result to an application. `evfd` is the
daemon built from it: it watches /dev/input, and for every device a profile
names it creates a filter line that writes into a new uinput device.

This directory holds TLA+ modules that model the parts of evfilter that keep
state, TLC configurations that check them on small instances, and TLAPS proofs
of the most important results for every value of the constants. PROJECT.json
lists components, runs, theorems, hazards, and for every definition the source
lines it models.

## Inventory

Everything runs in one thread. What makes the program hard is not threads but
callbacks that change the structure that is being walked, the kernel (devices
come and go, events pile up, signals arrive) between any two system calls,
several instances of the daemon, and filters that remember what they did.

| Part | State | Operations | Talks to | What makes it correct |
|---|---|---|---|---|
| io queue, evf_io_queue.c | sorted member list, `rfds`, `cnt` | new, add, rem, wait, destroy | select(); callbacks, which may call add and rem | sorted list; no member that select() is not asked about; no bit without a member; each ready member is served, once a pass |
| evfd, evfd/evfd.c | `looping`, the queue, a pipe list | device_plugged, hotplug_data, line_data, signal handler, main | all other parts | one line gets a device's events; no two lines share an output; every device gets a line; it ends on a signal |
| hotplug, evf_hotplug.c | inotify descriptor | walk, init, rescan | kernel, device_plugged callback | no device is forgotten, none is handed out for ever |
| pid file, evfd/evfd_lock.c | a file | try_lock, release_lock | other instances, the process table | one instance; its file stays |
| input line, evf_line.c | descriptor, begin and end of the filters | create, process, attach, destroy | profile, filters | filters run in order; a dead line goes |
| uinput, evf_uinput.c | descriptor | create, destroy | kernel; its node shows up in /dev/input | it does not outlive its line |
| filters with state, filters/ | flags in `priv` | process | next filter, by the event's pointer | no key stuck or lost, no frame torn |
| barrier, filters/barrier.c | queue, its index | process | next filter | frames of several devices do not mix |
| pipes, evf_pipe.c and three filters | registry with reference counts, six sinks | get, put, add_sink, rem_sink, process | filters of several lines | one pipe per name while it is used |
| profile, evf_profile.c | `has_matched` | load | devices' names, loader | the files that follow a matching rule are loaded |
| loader, evf_loader.c, evf_filter.c | list under construction | load, append, free | json-c, filters, pipes | the list is the configuration; a refusal frees everything |
| key tables, keyparser/, key_map.c | constant tables; a list and a bit map of keys | getkey; from_json, process | the configuration of filters, by the names of keys | every name is found; every mapping is used, and no other |
| half_qwerty, half_qwerty.c | enabled, modifiers, layout, pointer acceleration | process | next filter | what is pressed is released; it can be heard again |
| pointer filters, abs2rel.c and others | last position, moves not sent yet | process | next filter | a touch moves the pointer as far as it goes, the next one does not make it jump |
| dump, messages, ioctls, errors, examples, tests | little or none | | | |

The hazards each part is exposed to are in PROJECT.json, at their lines. Some of
them the code does not withstand. Where a document says it should, a run shows the
violation; elsewhere the property is stated as far as it holds, its escape is
named (`missed`, `excused`, `Stalled`, `mixed`), and the note of the hazard says what
the code does there.

## Modules

| Module | What it is |
|---|---|
| EventLoop | abstract: members, readiness, one callback at a time; every ready member is served again and again |
| IoQueue | evf_io_queue.c: list, `rfds`, `cnt`, and the loop of evf_io_queue_wait() in steps around select() and the callbacks |
| IoQueueProofs | proofs about IoQueue |
| Evfd | evfd.c with hotplug, lines and uinput devices; its queue is an INSTANCE of IoQueue |
| EvfdProofs | proofs about Evfd; those of IoQueue are taken over for its queue |
| EvfdLock | evfd_lock.c, every file system call of several instances |
| EvfdLockProofs | proofs about EvfdLock |
| FrameMerge | abstract: a consumer that gets whole frames, each of one source |
| Barrier | barrier.c, one per line, lines interleaved event by event |
| BarrierProofs | proofs about Barrier |
| FilterLine | key_lock.c, no_repeat.c, btn2rel.c, pressure_to_key.c and commit.c in one line |
| FilterLineProofs | proofs about FilterLine |
| Pipes | evf_pipe.c, each function as an operator on the registry |
| Config | evf_profile.c, evf_loader.c, evf_filter.c, evf_line.c: how the filters of lines come and go, with those that hold pipes; extends Pipes |
| ConfigProofs | proofs about Pipes and Config |
| Events | input events and the codes the filters know |
| OneFilter | a line of one filter: its device, its consumer, and what filters do with an event |
| HalfQwerty, KeyMap, Abs2Rel | half_qwerty.c, key_map.c, abs2rel.c, extending OneFilter |
| KeyParser | the search of key_parser.c, over any table |
| KeyParserProofs | proofs about KeyParser |
| KeyTable | the tables of keys.h |
| ConfiguredFilter | composes KeyParser and the filters: a filter from its configuration to its end, as tests/test.c runs it |
| ConfiguredFilterProofs | proofs about ConfiguredFilter, extending KeyParserProofs |
| MCIoQueue, MCEvfd, MCEvfdLock, MCBarrier, MCFilterLine, MCConfig, MCConfiguredFilter | constants for TLC |

**IoQueue.** `list` is the member list as a sequence of descriptors, `here` the
loop's pointer. `Select`, `Rearm` (the bit is not set: FD_SET), `Dispatch` (it
is: call) and `Return` are the loop; `Add` and `Rem` may happen outside the loop
and inside a callback, and `Return` takes the flags the callback returns.
`Advance` follows the list as it is after the callback, since the code reads
`here->next` then. The kernel is the pair `open` and `data`. Callers keep to a
contract, which is in the guards: they add open descriptors that are no members,
and a callback that closes its descriptor gives up its member. Evfd is checked
to keep to it.

**Evfd.** Each system call that another process or a device can come in between
is a step: the opening of a uinput path, the creation of the uinput device,
the opening of the device, adding and grabbing, each name of a directory walk or
of an inotify buffer, `select()`, the read of a line, its destruction and its
return. Descriptors are numbers and open() takes the lowest, so that numbers are
used again; `use` says what each is open on, `sink` which descriptor a line
commits to. `errno` is modelled because walk() tests it. Deleted nodes are not
reported, as evfd passes no callback for them. Each call of device_plugged() may
fail, for whatever reason: the node cannot be opened, nor a path of uinput; the
uinput device cannot be written or created (the -2 and -3 of
evf_uinput_create()); evf_line_create() has no memory, no descriptor for the
device, its profile and a file of it (three must be free), or takes the
uninitialised `err` for an error; the queue has no memory for the line
(`AddFails`, then `DropLine`). device_plugged() then closes what it has opened and
is done with the name (`GivesUp`). `missed` remembers the devices that came between
walk and watch and those it has given up without another name of theirs to come:
the code does lose these until they are plugged in again. The devices are a finite
set, none of them one of the marks `use` has for other descriptors. `Turns` to
`IInv` at the end of the module are the inductive invariant of the proofs; they
model no code.

**EvfdLock.** Files are inodes with a content, `name` is the one that has the
name; an instance that has it open keeps it. Process ids are used again, by
instances and by unrelated processes. `Exit` is possible at any point: the many
returns of main() that do not release the lock, and a kill. With `Daemonize` the
process id changes after the file was written. Instances start at any time, also
while another is starting, and the lock file may be there and not be opened or read
(`LoadFails`), or stat() fail for a process that runs (`StatFails`); evfd then goes
on as if nobody had the lock. In both cases two instances run, so `OneInstance`
cannot hold as evfd_lock.h:10 states it. The history `excused` becomes TRUE when
two instances are between the load and the save of the pid at once, or one of these
calls fails, and stays so; the properties say that nothing else lets a second
instance in.

**Barrier.** `Process` and `Sync` are barrier_process(), `FlushQueue` a turn of
the loop of flush_queue(), `Recreate` the end of a line whose device is gone.
The histories `sent` and `frame` are what the device sent since its last
SYN_REPORT and what the consumer got last. The setting is the one filters.txt
names, several sources of events that are routed to one consumer. No program of the
repository is quite that: evfd makes its lines without barriers, and in the
examples pointer_test.c and draw.c, which ask for barriers of size 10, each line
moves a pointer of its own and the lines share the screen only.

**FilterLine.** A line is a sequence of filters chosen in Init. The event is one
variable, since filters hand on a pointer and change the event in place. `at` is
the filter that runs. A filter's call of the next is its last act, but for
pressure_to_key, which calls the next twice and looks at the event in between:
`waiting` and `back` are what the stack adds. `down[i]` is the set of keys that
are down as filter i was told, `down[1]` is the device and the last element the
consumer, so that a property can say of each filter what it made of the keys.
btn2rel is modelled with two of its four movement keys and one of its three
buttons; the others are the same code. `AnyFilter` is what a filter may be
configured with: any key codes, any threshold, buttons that are left out (0).
`Accounted` is what a filter owes the one behind it, in `KeysAccountedFor`. For all
keys but a filter's own, what is down behind it is what it makes of the keys before
it. A filter's own key, the BTN_LEFT of btn2rel and the key of pressure_to_key, has
two sources when the device or a filter before can send it too: the release of
either then undoes the press of the other. Where nothing before the filter can
(`Alone`), the next filter has the key down exactly when the filter's own state says
so; elsewhere the key of pressure_to_key must be down when both sources have it down
and up when neither has, and BTN_LEFT must not stay down when none of its keys is.
`PressureFollowed` says the same of the
last pressure_to_key from the device's side: its flag, and where it is alone the
key the next filter is told of, are down exactly while the pressure is beyond the
threshold.

**Pipes and Config.** `reg` is the registry: the list, and for each pipe its name,
count and sinks. pipe_free() looks for the pipe before the one it frees, and that
is kept: the first pipe of the list stays when nobody holds it any more, and
freeing the second drops both from the list. Memory that no pointer is left to
counts as free. Config runs the nested calls of evf_line_create() in steps: a
line of the profile (`Match`, `Skip`, `Open`), a filter of a file (`LoadFilter`),
a filter that is freed (`FreeFilter`, with `after` for where the program goes on).
The program does one thing at a time; what makes the order of steps matter is
that the lines of the other devices hold the same pipes. A filter is plain, of
type from_pipe, or refused. malloc() fails when all of `Filter`, or of `Pipe`, is
in use. `err` starts with any value, since device_plugged() does not initialise
it; what is lost for that reason is in `leaked`. The profile does not change
while the program runs, nor do the names and places of the devices, which
`CheckForMatchingRule` compares with the rules; its errors count as no match.

**ConfiguredFilter** runs one filter as tests/test.c does. `Ask`, `Search` and
`Answer` are the calls of keyparser_getkey() a from_json() makes, a comparison a
step; a name is its place in the order of strcasecmp(), and KeyTable says where
the table of the code departs from that order. `Refused` joins what the loader
and each from_json() refuse. An event of the device is one step, since the one
filter returns before the next is read: HalfQwerty has an action for each way
through half_qwerty_process(), on the event `e`. Caps lock is down for more than
two seconds or not (`held_long`), which a repeat may find and which stays until
it is pressed again. The consumer's side are histories: `told` pairs a key the
consumer holds down with the key of the device that made it, `mixed` has the keys
that were down while half_qwerty changed their meaning, `samples` the positions
of a touch, by which `moved` is judged. `pc = "undefined"` stands for whatever a
program does that has called through a pointer nobody set.

## Runs

| Run | Checks | Bounds |
|---|---|---|
| io_queue | IoQueue's invariants, that a pass serves what select() reported or what was just added, descends and ends, and that the queue implements EventLoop, with its liveness | 3 descriptors, so that a member has others before and behind it; every return value in use; counter up to 5 |
| io_queue_rem_lost | violated: a member evf_io_queue_rem() was called for is not called again | same |
| evfd | OneConsumer, OwnSink, NoneForgotten, that the daemon keeps to IoQueue's contract, that it ends after a signal unless a read stops it, that a dead line leaves and that hotplug settles | 2 devices, 2 pluggings besides the devices that are there at the start, 7 descriptors: the watch, two lines with their uinput devices and the two spare ones their profiles need, or too few after one uinput device is left behind; 176,866 states, 65 steps deep |
| evfd_early_read | violated: a line is read when select() said so | as evfd |
| evfd_orphan | violated: a uinput device has a line | as evfd |
| evfd_lock | OneInstance, LockHeld, KeptWhileRunning, in the foreground, until two starts overlap or a call fails | 2 instances; 3 process ids, so that one is used again by a stranger; 3 files, so that two are unlinked while open |
| evfd_lock_daemon | violated: OneInstance when the daemon forks | same |
| barrier | HoldsFrame, ConsumerInOrder, and that barriers implement FrameMerge | 2 lines, 2 events, queues of 2, frames up to 3: empty, full and too small |
| filter_line | KeysAccountedFor, PressureFollowed, LastEventSynced, NoEmptyFrame | each of 8 filters alone and each of the 64 ordered pairs; 3 keys, pressures 0..2, 2 events a frame |
| config | RefsCounted, SinksHeld, FreedOnce, LineMatchesProfile | 2 devices, 2 names, 3 pipes of 2 sinks, 5 filters, so that a pipe fills up and memory runs out; all profiles of up to 4 lines over 3 rules and 5 files (two groups of a rule and a file, two files after one rule, two rules before one file), and each other way a rule matches or not, two at a time |
| configured_filter | PivotFound, KeysReleased, FramesEnd, NoJump | the real tables, a key_map to and from each of the 418 names, maps of no and of two entries; half_qwerty with caps lock and the pairs of keys that reach each layout, acceleration up to 2; abs2rel with positions 0..2; 2 events a frame |
| key_map_remaps | violated: a key_map filter remaps the keys of its configuration and no others | same |

Two filters are enough for what FilterLine asks: each property of a filter is
about what comes in and what goes out, and another filter's influence is through
the one event before or behind it. A bound on pluggings is enough since two
pluggings already give a name twice in one buffer, a device that goes while it
is opened, and a number that is used again.

Every property has a mutant: a definition changed as a plausible bug would, with
which TLC finds the property violated. Mutants stand before the definition they
would replace and are marked.

`CHECK_DEADLOCK FALSE` is in the configurations of Evfd: the daemon ends, and a
read of a line whose device sends nothing stops it for good, and of
ConfiguredFilter, whose filter is refused or freed in the end. IoQueue, EvfdLock,
Barrier, FilterLine and Config never stop and are checked for deadlock.

### Fairness

IoQueue assumes that the loop goes on, that select() returns when something is
ready, and that callbacks return; nothing of the program's other calls or of the
arrival of data. Evfd assumes that the daemon takes a step when it can: it is one
thread that the kernel schedules. Nothing is assumed of devices, signals or
users: no step of the kernel is fair. EvfdLock, Barrier, FilterLine, Config and
ConfiguredFilter state safety only; that the search for a name ends is the
theorem SearchShrinks.

### What the violated runs show

Each is a statement of a header, a comment or the README that the code does not
keep; PROJECT.json quotes it.

* evf_io_queue_rem() tests the member's bit in `rfds`. During a pass the bit of a
  member that is not ready is clear: the call does nothing.
* A line that hotplug adds is visited in the same pass when its descriptor is
  below inotify's; its blocking read stops the whole daemon.
* line_data() drops the pointer to the uinput descriptor, and evf_line_destroy()
  returns NULL instead: every unplugged device leaves a uinput device behind.
* The pid is written before daemon() forks: the file names a process that has
  ended.
* key_map takes the number of a key in its byte for its bit: keys with a code that
  is a multiple of 8 are not mapped, and others that have no entry become key 0.

Divergences seen while modelling that have no run: evf_io_queue_get_count()
counts members that their callback removed (evf_io_queue.h:82; `CntCoversList`
says what does hold). Two instances started together may both get the lock, and so does
an instance that cannot open or read the lock file of another, or for which stat()
fails. A device plugged in between walk and watch is lost; so is one for which a
call of device_plugged() fails once, also where the failure is `err` that
device_plugged() has not initialised (evfd.c:73). btn2rel
eats the next SYN_REPORT also of another frame and of a frame with other events,
and gives left and right the code BTN_LEFT when a button is not configured. The
first of two pressure_to_key filters misses a change that the second one turned
into a key. no_repeat does not eat the SYN_REPORT of the kernel's own repeats,
whose value is 1. walk() takes an
errno set by a callback for its own: one device that cannot be opened ends the
daemon while it starts. With the pipes of Config, two filters of one name can hold
two pipes, neither hearing the other (evf_pipe.h:44 speaks of one), and the
first pipe of the list is not freed when its count runs out (evf_pipe.h:52). A
profile that matched and loaded well is taken for a failure when `err` was not
zero by chance, and the filters of that file are lost. A refused file leaves no
error: the line is created without it. key_lock unlocks at the second press of
its key, but passes the key's repeats on until it is let go (filters/README:61).

keyparser_getkey() does not find Key_Brightnessdown, Key_Brightnessup,
Key_Delete, Key_Deletefile, Key_Displaytoggle, Key_Ins_Line, Key_Videophone and
Key_Video_Next, so that a configuration with one of them is refused. to_pipe and
rel2scroll are made without operations, filter_to_pipe with those of to_pipe:
the first event ends the program (`undefined` in ConfiguredFilter), as does a
key_map for whose map there is no memory. half_qwerty, when a long press disables
it, keeps caps_on: enabled again it eats everything until caps lock is tapped; a
key that is down while the layout changes stays down at the consumer; shift and
the acceleration survive a change of the layout. All moves of abs2rel have the
type EV_SYN, so that nothing moves; it repeats the last move at every SYN_REPORT
of a frame without positions, and loses the first move of a touch that begins
where the last one ended on that axis. evf_line_attach_filter(), which nobody
calls, would not move the end of the line.

## Proofs

TLAPS proves every invariant and every safety property of an action that a
passing run checks, with no assumption but those named in the modules. No length of
a line, number of devices, filters or pipes is bounded in them:

* **IoQueueProofs** (assumptions: descriptors are naturals, `MaxCnt` is one, and
  a callback that returns flags returns EVF_IO_QUEUE_REM among them). `IInv`
  joins the type invariant, `Sorted`, `NothingForgotten`, `NoStaleBit`,
  `CntCoversList` and `PassPosition`. None of them is inductive alone: that the
  question put to select() is complete again when a pass ends needs, bit by bit,
  where in the sorted list the loop is (`PassPosition`), which needs that the
  list is sorted and stays so when a callback adds a member before or behind the
  loop, which needs that nothing is added twice. `Refinement` is the safety part of
  EventLoop, step by step. First come lemmas about
  inserting into and removing from a sequence, then about the sorted list, then
  one step per action.
* **EvfdProofs** (assumptions: descriptors are naturals but 0, devices finitely many
  and none of the marks of `use`). A step of the daemon is a step of its queue or
  leaves it alone (`QueueStep`, which is also `QueueContract`), so that the
  invariant of IoQueueProofs holds of the instance and its lemmas are cited, not
  repeated. `IInv` joins it with what main(), the loop and the callbacks know of each
  other: `Turns` says which of them runs; `Handling`, that device_plugged() is in the
  middle of a name only in the walk or in the inotify callback; `Descriptors`,
  that lines are members but for the one about to be added, that the queue holds
  no uinput descriptor, and which descriptors the two locals of device_plugged()
  name. Without the last, open() could hand a number to a line that another line
  still commits to: `OwnSink` is `Sinks`, which leaves the line under construction
  out, once that is known. `OneConsumer` is from `Grabs`: a grab is held by a line
  in the queue that is alive. `NoneForgotten` is from `OnItsWay`: a device has its
  line, or its name is still in the inotify queue or in the buffer that is walked.
  A name may be dropped only where the line is added, another line has the grab, or
  a call has failed; in the last case (`GivesUpEffect`) another name is to come or
  the device is in `missed`. A line whose device went while it was opened must not
  count.
* **EvfdLockProofs** (assumptions: process ids and inodes are numbers other than
  0). `IInv` adds to the exclusion what an instance that starts knows, call by
  call: the file it has open is the one with the name, the pid it has read is
  the running instance's. All of it holds until `excused`, and becomes inductive
  with what `excused` rules out, that two instances are between load and save. The
  theorems about exclusion are for instances that do not fork, as they must be;
  `TypeCorrect` is for all.
* **BarrierProofs** (assumptions: sizes are naturals). `IInv` is the type
  invariant with the bound of every queue, `HoldsFrame` and `ConsumerInOrder`.
  That a barrier holds exactly the beginning of the device's frame is what makes
  the refinement go through: at the SYN_REPORT the consumer then has what
  FrameMerge delivers. `BarriersMerge` is the refinement, for any number of
  lines, any sizes, 0 included, and frames of any length.

* **FilterLineProofs** (assumptions: key codes are naturals, the chains are sequences
  of `AnyFilter`). A property of the idle line says nothing while an event is under
  way, so each has its inductive form: `KeysOnTheirWay` says what a filter has
  accounted for before it looks at the event it has been told of, and that no key
  is down there, nor on its way, that nothing can send there (`NotHeard`);
  `PressureOnItsWay`, that a pressure the last pressure_to_key filter has not
  followed is on its way to it, or back to it from the filters behind;
  `FlagsReset` and `SyncAwaited`, which of the flags that eat a SYN_REPORT may be
  set before, at and behind the event. `EventKnown` ties them to the device.
  `EveryStep` reduces the filters to seven kinds of step (an event read, passed on,
  eaten, passed on with the filter waiting, turned into a key, returned,
  committed); each invariant is kept kind by kind, and a lemma for each filter
  says what it makes of the keys, in a line of any length.

* **ConfigProofs** (assumptions: there are finitely many filters, some name, and
  room for a sink; 0 is no pipe and `None` no name; the profiles are sequences of
  rules and File lines whose files are missing or sequences of filters; no device is
  called like one of the lists). It has two invariants. The first is for the
  pipes. Its heart is `Balanced`, which joins `RefsCounted` and `SinksHeld`: neither
  is inductive alone, since from_pipe_free() finds its own place among the sinks
  only if it is there, and pipe_free() may drop a pipe only if its count is the
  number of its holders. A lemma for each function of evf_pipe.c says what it does
  to a registry whose list is in order, a lemma for each way filters use them (made,
  refused for lack of room, freed) says that it keeps `Balanced`, and the step
  lemmas add that free memory holds no pipe.
  The second, `LInv`, is for the lists. `Owned` says that the lists of lines and of
  the program are disjoint, name no filter twice, and name exactly the memory that
  is in use; so `FreedOnce`, which needs it of the list under construction too, and
  so that a filter that is made or freed is in no other list. `Rules` says what
  has_matched stands for at a line of the profile: a File line here would be for the
  device (`Follows`), and whether a rule or a File line came last. `Content` says
  that the list is the concatenation of the files so far, and the rest of a file
  what is still to be loaded of it; with `Owned` the filters of a line keep their
  configurations until the line goes, which is `LineMatchesProfile`. The community
  modules define the concatenation by recursion: `FlattenIsJoin` shows by the least
  place where two ways to add up the files differ that there is one only, which
  needs no induction theorem.
* **KeyParserProofs** (assumption: the table is not empty, and as long as
  key_count says). `PivotsFound` is for any table, sorted or not: a name that all
  smaller names precede and all greater ones follow is found, since no comparison
  can send the search to the wrong side of it; `PlaceKept`, its place stays
  between the bounds, is the invariant. Of the 418 names of KeyTable 402 are such.
  `ParserTypes` says that no comparison is made outside the table, `SearchShrinks`
  that every comparison but the last brings the bounds closer.
* **ConfiguredFilterProofs** (assumptions: names are numbers, the bounds are naturals)
  proves every property of the run, for all configurations, devices and tables.
  For `KeysReleased` the invariant, `KeysInv`, pairs each key that is held down
  with its present meaning, `Meanings`: a key whose meaning half_qwerty changes
  while it is down is in `mixed`, and any other goes up as what it went down as.
  Three facts about half_qwerty must come with it: the consumer has been told that
  caps lock is up before its release is eaten (`CapsUp`, which the last event of the
  burst in half_qwerty.c:239 is there for), nothing that was pressed keeps its
  meaning while everything is eaten (`AllMixed`), and a toggle ends only with the
  release of caps lock. One lemma per way through half_qwerty_process() keeps it.
  `FramesEnd` needs that there is no frame before the filter runs, `NoJump` that what
  abs2rel remembers of an axis are the last two positions of this touch
  (`Remembers`). The types and `PivotFound` come from `TypesInv`: the loader's steps
  are steps of KeyParser (`SearchSteps`), so that its lemmas carry over.

Only model-checked: liveness, which is out of the prover's reach. That is PassEnds, the
fairness that ImplementsEventLoop asks for beside the steps, StopsUnlessStalled,
DeadLineLeaves and HotplugSettles. PassesDescend and SearchShrinks are what PassEnds
and the end of the parser's search rest on.

## Not modelled, and why

* Use of memory after free. list_delete() frees the node that the loop then reads
  `next` from; the model takes the value it had, what malloc implementations
  leave there unless a callback allocated in between. Failing malloc(), but for
  filters, pipes and what device_plugged() calls.
* What other programs do to the daemon: a grab of theirs, another reader of a
  device. A directory that cannot be opened, with which evf_hotplug_init() fails
  before the daemon has any state.
* The overflow of inotify's queue and of a device's buffer (SYN_DROPPED), which
  the code does not handle at all.
* The reuse of a device's name by another device while events about it wait; the
  directory descriptor that walk() leaves open, which only shifts the numbers.
* Contents: times, coordinates, texts. Floating point filters.
* In Config: a file without any data, for which evf_load_filters() hands an
  uninitialised pointer to json-c; the last line of a profile when no newline ends
  it, which is not read as a line; values longer than their buffers.
* mirror, which is made without operations, rotate, which swaps two codes and keeps
  nothing, speed_mod_rel and weighted_average_abs, which cannot be allocated or
  have no operations: no program of the repository makes one. kalman computes in
  floating point, which TLC does not have.
* process() of to_pipe, filter_to_pipe and rel2scroll: nothing can call it.
* Printing, message texts, compiled in paths, the examples and evf-getkey: they
  keep no state of their own.

## Plan

Done: io queue, daemon, pid file, barrier, stateful filters, pipes with the
profile and the loader, the key tables, half_qwerty, key_map and abs2rel, with
proofs of all their safety properties. Next:

1. **What liveness rests on**, as safety theorems: that each pass over the names of
   the walk and of an inotify buffer gets shorter (HotplugSettles), that a dead line
   stays in the question put to select() until it is served (DeadLineLeaves).
2. **The whole of a uinput device's life** in Evfd: that its descriptors only ever
   leak, one for each line that is removed.
3. **The lines of two configurations together**: Config with the filters of
   FilterLine, so that the order of a file is the order of the chain.
