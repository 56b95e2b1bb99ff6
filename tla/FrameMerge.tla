----------------------------- MODULE FrameMerge -----------------------------
(***************************************************************************)
(* What src/docs/filters.txt:5-7 promises of barriers: several sources of  *)
(* events are routed to one consumer and "they are not mixed up".  The     *)
(* consumer gets whole frames, each of one source; of a frame that is too  *)
(* long it gets the beginning.  Barrier implements it.                     *)
(***************************************************************************)
EXTENDS Naturals, Sequences

CONSTANTS
    Line,       \* the sources
    Event,      \* the events, the sync event apart
    QueueSize   \* the longest frame that is delivered whole

VARIABLES
    sent,       \* the events of the frame each source is sending
    frame       \* the last frame the consumer got, and whose it is

vars == <<sent, frame>>

Delivered(s) == IF Len(s) <= QueueSize THEN s ELSE SubSeq(s, 1, QueueSize)

Init ==
    /\ sent = [l \in Line |-> << >>]
    /\ frame \in [line : Line, events : {<< >>}]

Send(l, e) ==
    /\ sent' = [sent EXCEPT ![l] = Append(@, e)]
    /\ UNCHANGED frame

Deliver(l) ==
    /\ frame' = [line |-> l, events |-> Delivered(sent[l])]
    /\ sent' = [sent EXCEPT ![l] = << >>]

\* A source that goes takes the frame it has begun with it.
Vanish(l) ==
    /\ sent' = [sent EXCEPT ![l] = << >>]
    /\ UNCHANGED frame

Next ==
    \E l \in Line :
        \/ \E e \in Event : Send(l, e)
        \/ Deliver(l)
        \/ Vanish(l)

Spec == Init /\ [][Next]_vars
=============================================================================
