------------------------------ MODULE Barrier ------------------------------
(***************************************************************************)
(* The barrier filter, src/src/filters/barrier.c, in the place it is made  *)
(* for (src/docs/filters.txt:5-7): several input lines, each with a        *)
(* barrier of its own in front of its commit filter (evf_line_create() in  *)
(* src/src/evf_line.c), commit to one consumer.                            *)
(*                                                                         *)
(* The program reads the devices one event at a time, so the frames of the *)
(* devices come interleaved; a frame is what a device sends up to and      *)
(* including a SYN_REPORT.                                                 *)
(***************************************************************************)
EXTENDS Naturals, Sequences

CONSTANTS
    Line,       \* the input lines
    Event,      \* the events, SYN_REPORT apart
    QueueSize,  \* barrier->queue_size, "size" of the configuration
    MaxFrame    \* bound on the length of a frame

ASSUME BarrierAssumption == QueueSize \in Nat /\ MaxFrame \in Nat

VARIABLES
    queue,      \* barrier->queue up to queue_index, for each line
    flushing,   \* the line in flush_queue(): one or none
    i,          \* number of events flush_queue() has passed on
    out,        \* what the consumer has got since the last SYN_REPORT
    sent,       \* history: the events of each device's current frame
    frame       \* history: the last frame the consumer got, and whose it is

vars == <<queue, flushing, i, out, sent, frame>>

\* A barrier never writes past the queue it has allocated.
TypeOK ==
    /\ queue \in [Line -> Seq(Event)]
    /\ \A l \in Line : Len(queue[l]) <= QueueSize
    /\ flushing \in {{}} \cup {{l} : l \in Line}
    /\ i \in Nat
    /\ out \in Seq(Event)
    /\ sent \in [Line -> Seq(Event)]
    /\ frame \in [line : Line, events : Seq(Event)]

-----------------------------------------------------------------------------
InsertPastEnd(q, e) ==        \* mutant: one event too many
    IF Len(q) > QueueSize THEN q ELSE Append(q, e)

\* insert_queue(): a full queue drops the event.
InsertQueue(q, e) ==
    IF Len(q) >= QueueSize THEN q ELSE Append(q, e)

\* barrier_process() of an event other than SYN_REPORT.
Process(l, e) ==
    /\ flushing = {}
    /\ Len(sent[l]) < MaxFrame
    /\ sent' = [sent EXCEPT ![l] = Append(@, e)]
    /\ queue' = [queue EXCEPT ![l] = InsertQueue(@, e)]
    /\ UNCHANGED <<flushing, i, out, frame>>

\* barrier_process() of a SYN_REPORT starts flush_queue().
Sync(l) ==
    /\ flushing = {}
    /\ flushing' = {l}
    /\ i' = 0
    /\ UNCHANGED <<queue, out, sent, frame>>

FlushQueueBack(l) ==        \* mutant: from the end of the queue
    /\ l \in flushing
    /\ i < Len(queue[l])
    /\ out' = Append(out, queue[l][Len(queue[l]) - i])
    /\ i' = i + 1
    /\ UNCHANGED <<queue, flushing, sent, frame>>

\* The loop of flush_queue().
FlushQueue(l) ==
    /\ l \in flushing
    /\ i < Len(queue[l])
    /\ out' = Append(out, queue[l][i + 1])
    /\ i' = i + 1
    /\ UNCHANGED <<queue, flushing, sent, frame>>

FlushKeeps(l) ==        \* mutant: queue_index is not reset
    /\ l \in flushing
    /\ i = Len(queue[l])
    /\ flushing' = {}
    /\ frame' = [line |-> l, events |-> out]
    /\ out' = << >>
    /\ sent' = [sent EXCEPT ![l] = << >>]
    /\ UNCHANGED <<queue, i>>

\* queue_index = 0, and the SYN_REPORT is passed on: the consumer's frame ends.
FlushEnd(l) ==
    /\ l \in flushing
    /\ i = Len(queue[l])
    /\ queue' = [queue EXCEPT ![l] = << >>]
    /\ flushing' = {}
    /\ frame' = [line |-> l, events |-> out]
    /\ out' = << >>
    /\ sent' = [sent EXCEPT ![l] = << >>]
    /\ UNCHANGED i

\* evf_line_destroy() of a line whose device is gone frees the barrier with
\* what it holds; evf_line_create() makes a new one when the device is back.
Recreate(l) ==
    /\ flushing = {}
    /\ queue' = [queue EXCEPT ![l] = << >>]
    /\ sent' = [sent EXCEPT ![l] = << >>]
    /\ UNCHANGED <<flushing, i, out, frame>>

-----------------------------------------------------------------------------
Init ==
    /\ queue = [l \in Line |-> << >>]
    /\ flushing = {}
    /\ i = 0
    /\ out = << >>
    /\ sent = [l \in Line |-> << >>]
    /\ frame \in [line : Line, events : {<< >>}]

Next ==
    \E l \in Line :
        \/ \E e \in Event : Process(l, e)
        \/ Sync(l) \/ FlushQueue(l) \/ FlushEnd(l)
        \/ Recreate(l)

Spec == Init /\ [][Next]_vars

-----------------------------------------------------------------------------
Abstract == INSTANCE FrameMerge

\* A barrier holds exactly the beginning of its device's current frame: nothing
\* of an earlier frame, of another device, or twice.
HoldsFrame == \A l \in Line : queue[l] = Abstract!Delivered(sent[l])

\* The consumer holds part of a frame only while that frame is flushed, in the
\* order of the device: lines never meet in one frame.
ConsumerInOrder ==
    /\ flushing = {} => out = << >>
    /\ \A l \in flushing : i <= Len(queue[l]) /\ out = SubSeq(queue[l], 1, i)

\* The inductive invariant of the proofs.
IInv == TypeOK /\ HoldsFrame /\ ConsumerInOrder

\* The consumer gets whole frames of one device each (src/docs/filters.txt:5-7),
\* whatever the order in which the devices' events are read.
ImplementsFrameMerge == Abstract!Spec
=============================================================================
