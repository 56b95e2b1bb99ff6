----------------------------- MODULE FilterLine -----------------------------
(***************************************************************************)
(* The filters of one input line (src/src/evf_line.c) that keep state of   *)
(* the keys: key_lock, no_repeat, btn2rel and pressure_to_key of           *)
(* src/src/filters/, in any order, before the commit filter.               *)
(*                                                                         *)
(* evf_line_process() reads one event and hands a pointer to it to the     *)
(* first filter.  A filter changes the event in place and hands the        *)
(* pointer on, or returns.  All filters but pressure_to_key do nothing     *)
(* after the call of the next one, so that the state of the calls is the   *)
(* filter that runs and the pressure_to_key filters that wait.             *)
(***************************************************************************)
EXTENDS Events, Sequences, FiniteSetsExt

CONSTANTS
    Chains,         \* the sequences of filters that may be configured
    Key,            \* codes of the keys the device has
    MaxPressure,    \* its pressure is 0..MaxPressure
    MaxFrame        \* bound on the events between two SYN_REPORTs

\* What the filters are configured with.
AnyFilter ==
    [kind : {"key_lock"}, key : Nat]
    \cup [kind : {"no_repeat"}]
    \cup [kind : {"btn2rel"}, key_up : Nat, key_left : Nat, left_btn : Nat]
    \cup [kind : {"pressure_to_key"}, key : Nat, treshold : Int]

ASSUME ChainsAssumption == Chains \subseteq Seq(AnyFilter)
ASSUME KeyAssumption == Key \subseteq Nat
ASSUME MaxPressureAssumption == MaxPressure \in Nat

VARIABLES
    chain,      \* the filters of the line, the commit filter apart
    on,         \* priv->state of key_lock, p->pressed of pressure_to_key
    eat,        \* eat_next_sync, eat_next_syn
    at,         \* the filter that runs, Len(chain) + 1 the commit filter,
                \* 0 for none: the line waits for the device
    back,       \* TRUE when the call of the next filter has returned to it
    waiting,    \* pressure_to_key filters below it in their first call
    ev,         \* the event of evf_line_process()
    down,       \* history: the keys that are down as each filter, and the
                \* consumer at the end, is told; the first is the device
    pressure,   \* the device's pressure
    frame,      \* the device's current frame: repeats and other events
    passed,     \* history: the latest event, SYN_REPORTs apart, got through
    open        \* history: the consumer has events without a SYN_REPORT

priv == <<on, eat>>
device == <<pressure, frame>>
vars == <<chain, on, eat, at, back, waiting, ev, down, pressure, frame,
          passed, open>>

Last == Len(chain) + 1
Idle == at = 0

-----------------------------------------------------------------------------
(* Passing an event on, and returning.                                     *)

\* What a stage knows to be down after it is handed e.
Told(keys, e) ==
    CASE e.type = "KEY" /\ e.value = 0 -> keys \ {e.code}
      [] e.type = "KEY" /\ e.value = 1 -> keys \cup {e.code}
      [] OTHER -> keys

\* evf_filter_process(self->next, ev), in the tail of the filter or not.
Call(e) ==
    /\ ev' = e
    /\ at' = at + 1
    /\ back' = FALSE
    /\ down' = [down EXCEPT ![at + 1] = Told(@, e)]

\* The filter returns, and with it all that have nothing more to do.
Return ==
    /\ at' = Max(waiting \cup {0})
    /\ back' = (waiting # {})
    /\ waiting' = waiting \ {Max(waiting \cup {0})}

\* The filter returns without passing the event on.
Drop ==
    /\ Return
    /\ passed' = (passed /\ ev.type = "SYN")
    /\ UNCHANGED <<ev, down, open>>

Pass(e) ==
    /\ Call(e)
    /\ UNCHANGED <<waiting, passed, open>>

Runs(kind) ==
    /\ at \in 1..Len(chain)
    /\ chain[at].kind = kind
    /\ UNCHANGED <<chain, device>>

Filter == chain[at]

-----------------------------------------------------------------------------
(* key_lock.c and no_repeat.c eat events, and the SYN_REPORT right behind  *)
(* one they have eaten.                                                    *)

EatsSync == IsSync(ev) /\ eat[at]

EatOrPassStale(eaten, e) ==     \* mutant: another event does not reset the flag
    /\ eat' = [eat EXCEPT ![at] = (@ \/ eaten) /\ ~EatsSync]
    /\ IF EatsSync \/ eaten THEN Drop ELSE Pass(e)

EatOrPassAlone(eaten, e) ==     \* mutant: the SYN_REPORT gets through
    /\ eat' = [eat EXCEPT ![at] = ~EatsSync /\ eaten]
    /\ IF eaten THEN Drop ELSE Pass(e)

EatOrPass(eaten, e) ==
    /\ eat' = [eat EXCEPT ![at] = ~EatsSync /\ eaten]
    /\ IF EatsSync \/ eaten THEN Drop ELSE Pass(e)

\* key_lock_process(): the first press locks the key, the second one is turned
\* into its release; the device's own releases are eaten.
KeyLock ==
    /\ Runs("key_lock")
    /\ LET key == ev.type = "KEY" /\ ev.code = Filter.key
           press == key /\ ev.value = 1
       IN  /\ on' = [on EXCEPT ![at] = @ # press]
           /\ EatOrPass(key /\ ev.value = 0,
                        IF press /\ on[at] THEN [ev EXCEPT !.value = 0] ELSE ev)

\* no_repeat_process(): repeats are eaten.
NoRepeat ==
    /\ Runs("no_repeat")
    /\ UNCHANGED on
    /\ EatOrPass(ev.type = "KEY" /\ ev.value = 2, ev)

-----------------------------------------------------------------------------
(* btn2rel.c, with two of its movement keys and one of its buttons.        *)

Moved(e, key, rel, value) ==
    IF e.code = key THEN [type |-> "REL", code |-> rel, value |-> value] ELSE e

\* The conversions follow each other on the same event: a button that is not
\* configured is 0, which is REL_X too.
Converted(f, e) ==
    LET m == Moved(Moved(e, f.key_up, REL_Y, 2), f.key_left, REL_X, -2)
    IN  IF m.code = f.left_btn THEN [m EXCEPT !.code = BTN_LEFT] ELSE m

\* btn2rel_process(): a press or repeat of a movement key moves the pointer, a
\* release is eaten, and with it the next SYN_REPORT, of whatever frame.
Btn2Rel ==
    /\ Runs("btn2rel")
    /\ UNCHANGED on
    /\ LET sync == ev.type = "SYN" /\ eat[at]
           release == /\ ev.type = "KEY" /\ ev.value = 0
                      /\ ev.code \in {Filter.key_up, Filter.key_left}
       IN  /\ eat' = [eat EXCEPT ![at] = (@ \/ release) /\ ~sync]
           /\ IF sync \/ release THEN Drop
              ELSE Pass(IF ev.type = "KEY" THEN Converted(Filter, ev) ELSE ev)

-----------------------------------------------------------------------------
(* pressure_to_key.c                                                       *)

\* check_treshold(): a negative threshold is for a light touch.
CheckTreshold(value, treshold) ==
    IF treshold < 0 THEN value # 0 /\ value < -treshold
    ELSE value > treshold

\* pressure_to_key_process() passes every event on first.
PressureFirst ==
    /\ Runs("pressure_to_key")
    /\ ~back
    /\ waiting' = waiting \cup {at}
    /\ Call(ev)
    /\ UNCHANGED <<priv, passed, open>>

PressureKept ==     \* mutant: the key is not released
    /\ Runs("pressure_to_key")
    /\ back
    /\ UNCHANGED eat
    /\ IF ev.type = "ABS" /\ CheckTreshold(ev.value, Filter.treshold) /\ ~on[at]
       THEN /\ on' = [on EXCEPT ![at] = TRUE]
            /\ Pass(KeyEv(Filter.key, 1))
       ELSE /\ Return
            /\ UNCHANGED <<on, ev, down, passed, open>>

PressureSilent ==   \* mutant: the second call of the next filter is missing
    /\ Runs("pressure_to_key")
    /\ back
    /\ UNCHANGED <<eat, ev, down, passed, open>>
    /\ IF ev.type = "ABS" /\ CheckTreshold(ev.value, Filter.treshold) # on[at]
       THEN on' = [on EXCEPT ![at] = ~@]
       ELSE UNCHANGED on
    /\ Return

\* It then looks at what the filters behind it have left of the event.
PressureThen ==
    /\ Runs("pressure_to_key")
    /\ back
    /\ UNCHANGED eat
    /\ IF ev.type = "ABS" /\ CheckTreshold(ev.value, Filter.treshold) # on[at]
       THEN /\ on' = [on EXCEPT ![at] = ~@]
            /\ Pass(KeyEv(Filter.key, IF on[at] THEN 0 ELSE 1))
       ELSE /\ Return
            /\ UNCHANGED <<on, ev, down, passed, open>>

-----------------------------------------------------------------------------
(* commit.c                                                                *)

CommitNext ==       \* mutant: a next filter is called where there is none
    /\ at = Last
    /\ Call(ev)
    /\ UNCHANGED <<chain, priv, waiting, device, passed, open>>

\* commit_process(): the consumer gets the event.
Commit ==
    /\ at = Last
    /\ open' = (ev.type # "SYN")
    /\ passed' = (passed \/ ev.type # "SYN")
    /\ Return
    /\ UNCHANGED <<chain, priv, ev, down, device>>

-----------------------------------------------------------------------------
(* evf_line_process() reads an event of the device.                        *)

Read(e) ==
    /\ Idle
    /\ Call(e)
    /\ UNCHANGED <<chain, priv, waiting, passed, open>>

ReadKey(k, value) ==
    /\ Len(frame) < MaxFrame
    /\ (k \in down[1]) = (value # 1)
    /\ frame' = Append(frame, IF value = 2 THEN "repeat" ELSE "other")
    /\ Read(KeyEv(k, value))
    /\ UNCHANGED pressure

ReadPressure(p) ==
    /\ Len(frame) < MaxFrame
    /\ p # pressure
    /\ pressure' = p
    /\ frame' = Append(frame, "other")
    /\ Read(AbsEv(ABS_PRESSURE, p))

ReadSync(value) ==
    /\ frame # << >>
    /\ value = 1 => frame = <<"repeat">>
    /\ frame' = << >>
    /\ Read(SynEv(value))
    /\ UNCHANGED pressure

-----------------------------------------------------------------------------
Init ==
    /\ chain \in Chains
    /\ on = [i \in 1..Len(chain) |-> FALSE]
    /\ eat = [i \in 1..Len(chain) |-> FALSE]
    /\ at = 0
    /\ back = FALSE
    /\ waiting = {}
    /\ ev = SynEv(0)
    /\ down = [i \in 1..Last |-> {}]
    /\ pressure = 0
    /\ frame = << >>
    /\ passed = FALSE
    /\ open = FALSE

Next ==
    \/ \E k \in Key, value \in 0..2 : ReadKey(k, value)
    \/ \E p \in 0..MaxPressure : ReadPressure(p)
    \/ \E value \in 0..1 : ReadSync(value)
    \/ KeyLock
    \/ NoRepeat
    \/ Btn2Rel
    \/ PressureFirst
    \/ PressureThen
    \/ Commit

Spec == Init /\ [][Next]_vars

-----------------------------------------------------------------------------
(* Properties.                                                             *)

Of(kind) == {i \in 1..Len(chain) : chain[i].kind = kind}

TypeOK ==
    /\ chain \in Chains
    /\ on \in [1..Len(chain) -> BOOLEAN]
    /\ eat \in [1..Len(chain) -> BOOLEAN]
    /\ at \in 0..Last
    /\ back \in BOOLEAN
    /\ waiting \subseteq Of("pressure_to_key")
    /\ \A i \in waiting : i < at
    /\ back => chain[at].kind = "pressure_to_key"
    /\ ev.type \in {"KEY", "REL", "ABS", "SYN"}
    /\ DOMAIN down = 1..Last
    /\ pressure \in 0..MaxPressure
    /\ frame \in Seq({"repeat", "other"})
    /\ passed \in BOOLEAN
    /\ open \in BOOLEAN

Locked(i) == IF on[i] THEN {chain[i].key} ELSE {}

\* Key c is sent by nothing before filter i.
Unheard(i, c) ==
    /\ c \notin Key
    /\ \A j \in 1..i - 1 :
           /\ chain[j].kind = "btn2rel" => c # BTN_LEFT
           /\ chain[j].kind = "pressure_to_key" => c # chain[j].key

\* The key that filter i may make of something else is sent by nothing before it.
Alone(i) == Unheard(i, IF chain[i].kind = "pressure_to_key" THEN chain[i].key ELSE BTN_LEFT)

\* What filter f has made of the keys that are down before it.  When a code comes
\* from two sources, the last of them that speaks is heard: of two keys that have
\* both become BTN_LEFT the first release releases it, and so it is with the
\* key of pressure_to_key, unless both sources have it down or neither.
Accounted(f, locked, alone, before, after) ==
    CASE f.kind = "key_lock" -> after = (before \ {f.key}) \cup locked
      [] f.kind = "no_repeat" -> after = before
      [] f.kind = "btn2rel" ->
             LET rest == before \ {f.key_up, f.key_left}
                 moved == {IF k = f.left_btn THEN BTN_LEFT ELSE k : k \in rest}
             IN  /\ after \subseteq moved
                 /\ moved \ after \subseteq (IF alone THEN {} ELSE {BTN_LEFT})
      [] f.kind = "pressure_to_key" ->
             /\ after \ {f.key} = before \ {f.key}
             /\ after \subseteq before \cup locked
             /\ (IF alone THEN locked ELSE before \cap locked) \subseteq after

\* Whatever the keys do together, a key is down behind a filter exactly when the
\* filter's own state says so, or its state has no say and it is down before
\* it.  Where a filter's key has no other source none is left stuck and none is
\* lost in any order of the filters; where it has, only that key may be lost.
KeysAccountedFor ==
    Idle =>
        \A i \in 1..Len(chain) :
            Accounted(chain[i], Locked(i), Alone(i), down[i], down[i + 1])

\* The last pressure_to_key filter of a line follows the device's pressure, and
\* so does its key behind it, if nothing else sends that key.  A filter before the
\* last may not follow: it reads the event after the last one has turned it
\* into a key event.
PressureFollowed ==
    Idle =>
        \A i \in Of("pressure_to_key") :
            (\A j \in Of("pressure_to_key") : j <= i) =>
                LET touched == CheckTreshold(pressure, chain[i].treshold)
                IN  /\ on[i] <=> touched
                    /\ Alone(i) => (chain[i].key \in down[i + 1] <=> touched)

\* When the latest event got through, so did the SYN_REPORT behind it: key_lock
\* and no_repeat eat that of an event they have eaten, no other, also when
\* their flag is left over from a frame whose SYN_REPORT they never saw.
\* btn2rel does not keep to this.
LastEventSynced ==
    Idle /\ frame = << >> /\ passed /\ Of("btn2rel") = {} => ~open

\* The consumer gets no frame without events.  (But for the kernel's own key
\* repeats, whose SYN_REPORT of value 1 key_lock and no_repeat do not eat.)
NoEmptyFrame == at = Last /\ IsSync(ev) => open
=============================================================================
