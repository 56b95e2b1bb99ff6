----------------------------- MODULE OneFilter -----------------------------
(***************************************************************************)
(* The line of one filter, between a device and the consumer: what the     *)
(* filter keeps, what the device may send it, and what the consumer makes  *)
(* of what comes out.  The filter handles an event before the next is      *)
(* read, so that an event of the device is one step.                       *)
(***************************************************************************)
EXTENDS Events, Sequences

CONSTANTS
    MaxPosition,    \* positions of the device are 0..MaxPosition
    MaxFrame        \* bound on the events between two SYN_REPORTs

ASSUME BoundsAssumption == MaxPosition \in Nat /\ MaxFrame \in Nat

VARIABLES
    conf,       \* the configuration the filter is made from
    priv,       \* the filter's private data
    down,       \* the device's keys that are down
    held_long,  \* its caps lock is down for more than two seconds
    position,   \* where the device was touched last
    frame,      \* events it has sent since its last SYN_REPORT
    told,       \* history: <<k, c>> while the consumer holds c down for key k
    mixed,      \* history: keys down when the filter changed their meaning
    open,       \* history: the consumer has events without a SYN_REPORT
    samples,    \* history: the last two positions of this touch
    moved       \* history: the moves the latest event has caused

device == <<down, held_long, position, frame, samples>>
consumer == <<told, mixed, open, moved>>

Axes == {ABS_X, ABS_Y}

LineInit ==
    /\ down \in SUBSET conf.keys        \* keys held since before the program
    /\ held_long = (KEY_CAPSLOCK \in down)
    /\ position \in [Axes -> IF conf.touch THEN 0..MaxPosition ELSE {0}]
    /\ frame = 0
    /\ told = {}
    /\ mixed = {}
    /\ open = FALSE
    /\ samples = [a \in Axes |-> << >>]
    /\ moved = {}

-----------------------------------------------------------------------------
(* The device.                                                             *)

Key(k, value) ==
    /\ k \in conf.keys
    /\ frame < MaxFrame
    /\ (k \in down) = (value # 1)
    /\ down' = (IF value = 0 THEN down \ {k} ELSE down \cup {k})
    /\ IF k # KEY_CAPSLOCK THEN UNCHANGED held_long
       ELSE IF value = 2 THEN held_long' \in {held_long, TRUE}
       ELSE held_long' = FALSE
    /\ frame' = frame + 1
    /\ UNCHANGED <<position, samples>>

\* The kernel reports a position only when it is another one.
Touch(axis, p) ==
    /\ conf.touch
    /\ frame < MaxFrame
    /\ p # position[axis]
    /\ position' = [position EXCEPT ![axis] = p]
    /\ samples' = [samples EXCEPT ![axis] =
                       Append(IF Len(@) = 2 THEN Tail(@) ELSE @, p)]
    /\ frame' = frame + 1
    /\ UNCHANGED <<down, held_long>>

\* The pressure is p; a touch is over when it is 0.
Pressure(p) ==
    /\ conf.touch
    /\ frame < MaxFrame
    /\ samples' = (IF p = 0 THEN [a \in Axes |-> << >>] ELSE samples)
    /\ frame' = frame + 1
    /\ UNCHANGED <<down, held_long, position>>

Sync ==
    /\ frame > 0
    /\ frame' = 0
    /\ UNCHANGED <<down, held_long, position, samples>>

-----------------------------------------------------------------------------
(* The consumer.                                                           *)

\* What it holds down for which key after it gets e on behalf of the key k.
Holds(pairs, k, e) ==
    IF IsKey(e, 1) THEN pairs \cup {<<k, e.code>>}
    ELSE IF IsKey(e, 0) THEN {p \in pairs : p[2] # e.code}
    ELSE pairs

\* It gets nothing, or one event, for the event e of the device.  What is left of
\* an earlier press of the key, whose meaning has changed, is not its doing.
Before(e) ==
    IF IsKey(e, 1) /\ e.code \in mixed THEN {p \in told : p[1] # e.code} ELSE told

Gets(e, out) ==
    /\ told' = Holds(Before(e), e.code, out)
    /\ open' = (out.type # "SYN")
    /\ moved' = {}

GetsNothing(e) ==
    /\ told' = Before(e)
    /\ moved' = {}
    /\ UNCHANGED open

\* The filter's keys mean what they did.
Same(e) == mixed' = (IF IsKey(e, 1) THEN mixed \ {e.code} ELSE mixed)

\* They do not: the keys that are down have been pressed with another meaning.
Other == mixed' = mixed \cup (down' \ {KEY_CAPSLOCK})

Passes(e, out) == Gets(e, out) /\ Same(e)
Eats(e) == GetsNothing(e) /\ Same(e)
=============================================================================
