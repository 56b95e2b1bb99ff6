-------------------------- MODULE FilterLineProofs --------------------------
(***************************************************************************)
(* Proofs about FilterLine, for every list of filters, every set of keys,  *)
(* every range of the pressure and every length of a frame.  A filter that *)
(* returns wakes the latest pressure_to_key filter that waits: first the   *)
(* greatest element of a set of numbers.  Then the types, and for each     *)
(* property of FilterLine what is true of an event half way down the line. *)
(***************************************************************************)
EXTENDS FilterLine, WellFoundedInduction, TLAPS

-----------------------------------------------------------------------------
(* The greatest waiting filter.                                            *)

\* The natural numbers are well-founded: a set of them has a least element.
LEMMA LeastElement ==
    ASSUME NEW S, S \subseteq Nat, S # {}
    PROVE  \E m \in S : \A x \in S : m <= x
  <1> DEFINE R == {rr \in Nat \X Nat : rr[1] < rr[2]}
  <1>1. OpToRel(<,Nat) = R
    BY DEF OpToRel
  <1>2. IsWellFoundedOn(R, Nat)
    BY <1>1, NatLessThanWellFounded
  <1>3. \A x, y \in Nat : x < y => <<x, y>> \in R
    OBVIOUS
  <1> HIDE DEF R
  <1>4. \A R_1, S_1, T :
            IsWellFoundedOn(R_1, S_1) /\ T \subseteq S_1 /\ T # {}
                => \E x \in T : \A y \in T : ~ (<<y, x>> \in R_1)
    BY WFMin
  <1>5. PICK m \in S : \A y \in S : ~ (<<y, m>> \in R)
    BY <1>2, <1>4
  <1>6. ASSUME NEW x \in S
        PROVE  m <= x
    <2>1. x \in Nat /\ m \in Nat
      OBVIOUS
    <2>2. ~ (x < m)
      BY <1>3, <1>5, <2>1, Zenon
    <2> QED
      BY <2>1, <2>2
  <1> QED
    BY <1>6

\* Max of a bounded set of numbers is its greatest element.
LEMMA MaxIsGreatest ==
    ASSUME NEW n \in Nat, NEW S \in SUBSET (0..n), S # {}
    PROVE  Max(S) \in S /\ \A x \in S : x <= Max(S)
  <1> DEFINE D == {n - x : x \in S}
  <1>1. D \subseteq Nat /\ D # {}
    <2>1. PICK x \in S : TRUE
      OBVIOUS
    <2>2. n - x \in D
      OBVIOUS
    <2>3. \A y \in S : n - y \in Nat
      OBVIOUS
    <2> QED
      BY <2>2, <2>3
  <1>2. PICK d \in D : \A e \in D : d <= e
    BY <1>1, LeastElement
  <1>3. PICK m \in S : d = n - m
    OBVIOUS
  <1>4. \A x \in S : m >= x
    <2> TAKE x \in S
    <2>1. n - x \in D
      OBVIOUS
    <2>2. n - m <= n - x
      BY <1>2, <1>3, <2>1
    <2> QED
      BY <2>2
  <1>5. \E y \in S : \A x \in S : y >= x
    BY <1>4
  <1>6. Max(S) \in S /\ \A x \in S : Max(S) >= x
    BY <1>5 DEF Max
  <1> QED
    BY <1>6

-----------------------------------------------------------------------------
(* Types.                                                                  *)

Kinds == {"key_lock", "no_repeat", "btn2rel", "pressure_to_key"}

Event == [type : {"KEY", "REL", "ABS", "SYN"}, code : Nat, value : Int]

\* TypeOK does not say what the fields of an event and the sets of keys hold,
\* nor that it is a filter the call returns to.
Typed ==
    /\ TypeOK
    /\ ev \in Event
    /\ down \in [1..Last -> SUBSET Nat]
    /\ back => at \in 1..Len(chain)

\* A filter is of one of the four kinds and has the fields of its kind.
LEMMA FilterFields ==
    ASSUME NEW f \in AnyFilter
    PROVE  /\ f.kind \in Kinds
           /\ f.kind = "key_lock" => f.key \in Nat
           /\ f.kind = "btn2rel" =>
                  f.key_up \in Nat /\ f.key_left \in Nat /\ f.left_btn \in Nat
           /\ f.kind = "pressure_to_key" => f.key \in Nat /\ f.treshold \in Int
  BY DEF AnyFilter, Kinds

\* The line's list of filters.
LEMMA ChainType ==
    ASSUME chain \in Chains
    PROVE  /\ Len(chain) \in Nat
           /\ \A i \in 1..Len(chain) : chain[i] \in AnyFilter
  <1>1. chain \in Seq(AnyFilter)
    BY ChainsAssumption
  <1> QED
    BY <1>1

\* An event changed in place is an event, and so is what a filter makes up.
LEMMA EventFields ==
    /\ \A e \in Event : /\ e.type \in {"KEY", "REL", "ABS", "SYN"}
                        /\ e.code \in Nat
                        /\ e.value \in Int
    /\ \A e \in Event : [e EXCEPT !.value = 0] \in Event
    /\ \A e \in Event, c \in Nat : [e EXCEPT !.code = c] \in Event
    /\ \A c \in Nat, v \in Int :
           /\ KeyEv(c, v) \in Event
           /\ RelEv(c, v) \in Event
           /\ AbsEv(c, v) \in Event
           /\ SynEv(v) \in Event
  BY DEF Event, KeyEv, RelEv, AbsEv, SynEv

\* Where a returning filter goes back to: the latest one that waits.
LEMMA ReturnEffect ==
    ASSUME Typed, Return
    PROVE  \/ /\ waiting = {}
              /\ at' = 0
              /\ ~back'
              /\ waiting' = {}
           \/ /\ at' \in waiting
              /\ at' \in 1..Len(chain)
              /\ at' < at
              /\ \A i \in waiting : i <= at'
              /\ back'
              /\ waiting' = waiting \ {at'}
  <1> DEFINE S == waiting \cup {0}
  <1>1. Len(chain) \in Nat /\ waiting \subseteq 1..Len(chain)
    BY ChainType DEF Typed, TypeOK, Of
  <1>2. S \in SUBSET (0..Len(chain)) /\ S # {}
    BY <1>1
  <1>3. Max(S) \in S /\ \A x \in S : x <= Max(S)
    BY <1>1, <1>2, MaxIsGreatest
  <1>4. at' = Max(S) /\ back' = (waiting # {}) /\ waiting' = waiting \ {Max(S)}
    BY DEF Return
  <1>5. CASE waiting = {}
    BY <1>3, <1>4, <1>5
  <1>6. CASE waiting # {}
    <2>1. Max(S) \in waiting
      <3>1. PICK w \in waiting : TRUE
        BY <1>6
      <3>2. w \in 1..Len(chain) /\ w \in S
        BY <1>1
      <3>3. w <= Max(S)
        BY <1>3, <3>2, Zenon
      <3>4. Max(S) # 0
        BY <1>1, <3>2, <3>3
      <3> QED
        BY <1>3, <3>4
    <2>2. Max(S) < at
      BY <2>1 DEF Typed, TypeOK
    <2> QED
      BY <1>1, <1>3, <1>4, <1>6, <2>1, <2>2
  <1> QED
    BY <1>5, <1>6

-----------------------------------------------------------------------------
(* key_lock, no_repeat and btn2rel either eat an event or let it through.  *)

\* The event gets through.  Only key events are changed, and only by btn2rel
\* into something that is not a key event, or into another key's.
GetsThrough ==
    \E e \in Event :
        /\ Pass(e)
        /\ ev.type # "KEY" => e = ev
        /\ ev.type = "KEY" => e.type \in {"KEY", "REL"}
        /\ e.type = "KEY" => \/ e.code = ev.code
                             \/ chain[at].kind = "btn2rel" /\ e.code = BTN_LEFT
        /\ IsSync(ev) => ~eat[at]
        /\ \/ eat' = [eat EXCEPT ![at] = FALSE]
           \/ chain[at].kind = "btn2rel" /\ eat' = eat

\* The event is eaten: a key event, or a SYN_REPORT for one that was.
IsEaten ==
    /\ Drop
    /\ \/ ev.type = "KEY" /\ eat' = [eat EXCEPT ![at] = TRUE]
       \/ ev.type = "SYN" /\ eat[at] /\ eat' = [eat EXCEPT ![at] = FALSE]

\* What key_lock and no_repeat do when they have decided whether to eat.
LEMMA EatOrPassEffect ==
    ASSUME Typed, NEW eaten \in BOOLEAN, NEW e \in Event, EatOrPass(eaten, e),
           at \in 1..Len(chain),
           eaten => ev.type = "KEY",
           ev.type # "KEY" => e = ev,
           e.type = ev.type,
           e.code = ev.code
    PROVE  GetsThrough \/ IsEaten
  <1>1. eat \in [1..Len(chain) -> BOOLEAN]
    BY DEF Typed, TypeOK
  <1>2. CASE EatsSync
    <2>1. ev.type = "SYN" /\ eat[at]
      BY <1>2 DEF EatsSync, IsSync
    <2>2. eat' = [eat EXCEPT ![at] = FALSE] /\ Drop
      BY <1>2 DEF EatOrPass
    <2> QED
      BY <2>1, <2>2 DEF IsEaten
  <1>3. CASE ~EatsSync /\ eaten
    <2>1. eat' = [eat EXCEPT ![at] = TRUE] /\ Drop
      BY <1>3 DEF EatOrPass
    <2> QED
      BY <1>3, <2>1 DEF IsEaten
  <1>4. CASE ~EatsSync /\ ~eaten
    <2>1. eat' = [eat EXCEPT ![at] = FALSE] /\ Pass(e)
      BY <1>4 DEF EatOrPass
    <2>2. IsSync(ev) => ~eat[at]
      BY <1>4 DEF EatsSync
    <2> QED
      BY <2>1, <2>2 DEF GetsThrough
  <1> QED
    BY <1>2, <1>3, <1>4

\* What btn2rel does to an event it lets through.
LEMMA ConvertedEvent ==
    ASSUME NEW f, f.key_up \in Nat, f.key_left \in Nat, f.left_btn \in Nat,
           NEW e \in Event, e.type = "KEY"
    PROVE  /\ Converted(f, e) \in Event
           /\ e.code \in {f.key_up, f.key_left} => Converted(f, e).type = "REL"
           /\ e.code \notin {f.key_up, f.key_left} =>
                  /\ Converted(f, e).type = "KEY"
                  /\ Converted(f, e).value = e.value
                  /\ Converted(f, e).code =
                         IF e.code = f.left_btn THEN BTN_LEFT ELSE e.code
  <1> DEFINE u == Moved(e, f.key_up, REL_Y, 2)
             m == Moved(u, f.key_left, REL_X, -2)
  <1>1. /\ u \in Event
        /\ e.code = f.key_up => u.type = "REL"
        /\ e.code # f.key_up => u = e
    BY DEF Moved, Event, REL_Y
  <1>2. /\ m \in Event
        /\ e.code \in {f.key_up, f.key_left} => m.type = "REL"
        /\ e.code \notin {f.key_up, f.key_left} => m = e
    BY <1>1 DEF Moved, Event, REL_X
  <1>3. Converted(f, e) =
            IF m.code = f.left_btn THEN [m EXCEPT !.code = BTN_LEFT] ELSE m
    BY DEF Converted
  <1> HIDE DEF u, m
  <1>4. /\ [m EXCEPT !.code = BTN_LEFT] \in Event
        /\ [m EXCEPT !.code = BTN_LEFT].type = m.type
        /\ [m EXCEPT !.code = BTN_LEFT].value = m.value
        /\ [m EXCEPT !.code = BTN_LEFT].code = BTN_LEFT
    BY <1>2 DEF Event, BTN_LEFT
  <1> QED
    BY <1>2, <1>3, <1>4

\* A filter that eats events runs when no call returns to it, keeps to its own
\* state, and eats the event or lets it through.
LEMMA EaterEffect ==
    ASSUME Typed, KeyLock \/ NoRepeat \/ Btn2Rel
    PROVE  /\ at \in 1..Len(chain)
           /\ chain[at] \in AnyFilter
           /\ ~back
           /\ chain[at].kind # "pressure_to_key"
           /\ UNCHANGED <<chain, pressure, frame>>
           /\ on' \in [1..Len(chain) -> BOOLEAN]
           /\ \A i \in 1..Len(chain) : i # at => on'[i] = on[i]
           /\ GetsThrough \/ IsEaten
  <1>1. ev \in Event /\ on \in [1..Len(chain) -> BOOLEAN]
        /\ eat \in [1..Len(chain) -> BOOLEAN]
    BY DEF Typed, TypeOK
  <1>2. CASE KeyLock
    <2> DEFINE key == ev.type = "KEY" /\ ev.code = Filter.key
               press == key /\ ev.value = 1
               e == IF press /\ on[at] THEN [ev EXCEPT !.value = 0] ELSE ev
    <2>1. at \in 1..Len(chain) /\ chain[at].kind = "key_lock"
          /\ UNCHANGED <<chain, pressure, frame>>
      BY <1>2 DEF KeyLock, Runs, device
    <2>2. ~back
      BY <2>1 DEF Typed, TypeOK
    <2>3. on' = [on EXCEPT ![at] = @ # press] /\ EatOrPass(key /\ ev.value = 0, e)
      BY <1>2 DEF KeyLock
    <2>4. e \in Event /\ e.type = ev.type /\ e.code = ev.code
          /\ (ev.type # "KEY" => e = ev)
      BY <1>1, EventFields DEF Event
    <2>5. GetsThrough \/ IsEaten
      <3>1. (key /\ ev.value = 0) \in BOOLEAN /\ (key /\ ev.value = 0 => ev.type = "KEY")
        OBVIOUS
      <3> QED
        BY <2>1, <2>3, <2>4, <3>1, EatOrPassEffect
    <2>6. /\ on' \in [1..Len(chain) -> BOOLEAN]
          /\ \A i \in 1..Len(chain) : i # at => on'[i] = on[i]
      BY <1>1, <2>1, <2>3
    <2> QED
      BY <2>1, <2>2, <2>5, <2>6, ChainType DEF Typed, TypeOK
  <1>3. CASE NoRepeat
    <2>1. at \in 1..Len(chain) /\ chain[at].kind = "no_repeat" /\ on' = on
          /\ UNCHANGED <<chain, pressure, frame>>
      BY <1>3 DEF NoRepeat, Runs, device
    <2>2. ~back
      BY <2>1 DEF Typed, TypeOK
    <2>3. EatOrPass(ev.type = "KEY" /\ ev.value = 2, ev)
      BY <1>3 DEF NoRepeat
    <2>4. GetsThrough \/ IsEaten
      <3>1. (ev.type = "KEY" /\ ev.value = 2) \in BOOLEAN
        OBVIOUS
      <3> QED
        BY <1>1, <2>1, <2>3, <3>1, EatOrPassEffect
    <2> QED
      BY <1>1, <2>1, <2>2, <2>4, ChainType DEF Typed, TypeOK
  <1>4. CASE Btn2Rel
    <2> DEFINE sync == ev.type = "SYN" /\ eat[at]
               release == /\ ev.type = "KEY" /\ ev.value = 0
                          /\ ev.code \in {Filter.key_up, Filter.key_left}
               e == IF ev.type = "KEY" THEN Converted(Filter, ev) ELSE ev
    <2>1. at \in 1..Len(chain) /\ chain[at].kind = "btn2rel" /\ on' = on
          /\ UNCHANGED <<chain, pressure, frame>>
      BY <1>4 DEF Btn2Rel, Runs, device
    <2>2. ~back /\ chain[at] \in AnyFilter
      BY <2>1, ChainType DEF Typed, TypeOK
    <2>3. eat' = [eat EXCEPT ![at] = (@ \/ release) /\ ~sync]
          /\ IF sync \/ release THEN Drop ELSE Pass(e)
      BY <1>4 DEF Btn2Rel
    <2>4. e \in Event /\ (ev.type # "KEY" => e = ev)
          /\ (ev.type = "KEY" => e.type \in {"KEY", "REL"})
          /\ (e.type = "KEY" => e.code = ev.code \/ e.code = BTN_LEFT)
      <3>1. CASE ev.type # "KEY"
        BY <1>1, <3>1
      <3>2. CASE ev.type = "KEY"
        <4>1. e = Converted(Filter, ev)
          BY <3>2
        <4>2. Filter.key_up \in Nat /\ Filter.key_left \in Nat /\ Filter.left_btn \in Nat
          BY <2>1, <2>2, FilterFields DEF Filter
        <4> HIDE DEF e
        <4>3. /\ e \in Event
              /\ ev.code \in {Filter.key_up, Filter.key_left} => e.type = "REL"
              /\ ev.code \notin {Filter.key_up, Filter.key_left} =>
                     /\ e.type = "KEY"
                     /\ e.code = IF ev.code = Filter.left_btn THEN BTN_LEFT ELSE ev.code
          BY <1>1, <3>2, <4>1, <4>2, ConvertedEvent
        <4> QED
          BY <3>2, <4>3
      <3> QED
        BY <3>1, <3>2
    <2>5. CASE sync
      <3>1. eat' = [eat EXCEPT ![at] = FALSE] /\ Drop /\ ev.type = "SYN" /\ eat[at]
        BY <2>3, <2>5
      <3> QED
        BY <1>1, <2>1, <2>2, <3>1 DEF IsEaten
    <2>6. CASE ~sync /\ release
      <3>1. eat' = [eat EXCEPT ![at] = TRUE] /\ Drop /\ ev.type = "KEY"
        BY <2>3, <2>6
      <3> QED
        BY <1>1, <2>1, <2>2, <3>1 DEF IsEaten
    <2>7. CASE ~sync /\ ~release
      <3>1. Pass(e) /\ eat' = [eat EXCEPT ![at] = @]
        BY <1>1, <2>1, <2>3, <2>7
      <3>2. eat' = eat
        BY <1>1, <2>1, <3>1
      <3>3. IsSync(ev) => ~eat[at]
        BY <2>7 DEF IsSync
      <3>4. GetsThrough
        BY <2>1, <2>4, <3>1, <3>2, <3>3 DEF GetsThrough
      <3> QED
        BY <1>1, <2>1, <2>2, <3>4
    <2> QED
      BY <2>5, <2>6, <2>7
  <1> QED
    BY <1>2, <1>3, <1>4

\* What a stage is told keeps its set of keys one of numbers.
LEMMA ToldType ==
    \A d \in SUBSET Nat, e \in Event : Told(d, e) \in SUBSET Nat
  <1> SUFFICES ASSUME NEW d \in SUBSET Nat, NEW e \in Event
               PROVE  Told(d, e) \in SUBSET Nat
    OBVIOUS
  <1>1. CASE e.type = "KEY" /\ e.value = 0
    BY <1>1 DEF Told
  <1>2. CASE e.type = "KEY" /\ e.value = 1
    BY <1>2, EventFields DEF Told
  <1>3. CASE ~(e.type = "KEY" /\ e.value \in {0, 1})
    BY <1>3 DEF Told
  <1> QED
    BY <1>1, <1>2, <1>3

\* The call of the next filter.
LEMMA CallEffect ==
    ASSUME Typed, NEW e \in Event, Call(e), at \in 0..Len(chain), chain' = chain
    PROVE  /\ ev' = e
           /\ at' = at + 1
           /\ at' \in 1..Last
           /\ ~back'
           /\ down' \in [1..Last -> SUBSET Nat]
           /\ down'[at + 1] = Told(down[at + 1], e)
           /\ \A i \in 1..Last : i # at + 1 => down'[i] = down[i]
  <1>1. Len(chain) \in Nat /\ down \in [1..Last -> SUBSET Nat] /\ at \in Nat
    BY ChainType DEF Typed, TypeOK
  <1>2. at + 1 \in 1..Last
    BY <1>1 DEF Last
  <1>3. Told(down[at + 1], e) \in SUBSET Nat
    BY <1>1, <1>2, ToldType
  <1> QED
    BY <1>1, <1>2, <1>3 DEF Call

\* An event of the device.
ReadsFrom ==
    \E e \in Event :
        /\ Read(e)
        /\ e.type \in {"KEY", "ABS", "SYN"}
        /\ e.type = "KEY" => e.code \in Key
        /\ e.type = "ABS" => e.value = pressure'
        /\ e.type # "ABS" => UNCHANGED pressure
        /\ pressure' \in 0..MaxPressure
        /\ frame' \in Seq({"repeat", "other"})
        /\ frame' = << >> <=> e.type = "SYN"
        /\ e.type = "SYN" => frame # << >>

\* What the device sends.
LEMMA ReadEffect ==
    ASSUME Typed,
           \/ \E k \in Key, value \in 0..2 : ReadKey(k, value)
           \/ \E p \in 0..MaxPressure : ReadPressure(p)
           \/ \E value \in 0..1 : ReadSync(value)
    PROVE  ReadsFrom
  <1>1. pressure \in 0..MaxPressure /\ frame \in Seq({"repeat", "other"})
    BY DEF Typed, TypeOK
  <1>2. \A x \in {"repeat", "other"} :
            Append(frame, x) \in Seq({"repeat", "other"}) /\ Append(frame, x) # << >>
    <2> TAKE x \in {"repeat", "other"}
    <2>1. Append(frame, x) \in Seq({"repeat", "other"})
          /\ Len(Append(frame, x)) = Len(frame) + 1 /\ Len(frame) \in Nat
      BY <1>1
    <2> QED
      BY <2>1
  <1>3. ASSUME NEW k \in Key, NEW value \in 0..2, ReadKey(k, value)
        PROVE  ReadsFrom
    <2> DEFINE e == KeyEv(k, value)
    <2>1. e \in Event /\ e.type = "KEY" /\ e.code = k
      BY KeyAssumption, EventFields DEF KeyEv
    <2>2. Read(e) /\ pressure' = pressure
          /\ frame' = Append(frame, IF value = 2 THEN "repeat" ELSE "other")
      BY <1>3 DEF ReadKey
    <2>3. frame' \in Seq({"repeat", "other"}) /\ frame' # << >>
      BY <1>2, <2>2
    <2> HIDE DEF e
    <2> QED
      BY <1>1, <2>1, <2>2, <2>3 DEF ReadsFrom
  <1>4. ASSUME NEW p \in 0..MaxPressure, ReadPressure(p)
        PROVE  ReadsFrom
    <2> DEFINE e == AbsEv(ABS_PRESSURE, p)
    <2>1. e \in Event /\ e.type = "ABS" /\ e.value = p
      BY MaxPressureAssumption, EventFields DEF AbsEv, ABS_PRESSURE
    <2>2. Read(e) /\ pressure' = p /\ frame' = Append(frame, "other")
      BY <1>4 DEF ReadPressure
    <2>3. frame' \in Seq({"repeat", "other"}) /\ frame' # << >>
      BY <1>2, <2>2
    <2> HIDE DEF e
    <2> QED
      BY <1>1, <2>1, <2>2, <2>3 DEF ReadsFrom
  <1>5. ASSUME NEW value \in 0..1, ReadSync(value)
        PROVE  ReadsFrom
    <2> DEFINE e == SynEv(value)
    <2>1. e \in Event /\ e.type = "SYN"
      BY EventFields DEF SynEv
    <2>2. Read(e) /\ pressure' = pressure /\ frame' = << >> /\ frame # << >>
      BY <1>5 DEF ReadSync
    <2>3. << >> \in Seq({"repeat", "other"})
      OBVIOUS
    <2> HIDE DEF e
    <2> QED
      BY <1>1, <2>1, <2>2, <2>3 DEF ReadsFrom
  <1> QED
    BY <1>3, <1>4, <1>5

\* pressure_to_key after the event it looked at: it sends its key, or returns.
Touches ==
    /\ ev.type = "ABS"
    /\ CheckTreshold(ev.value, Filter.treshold) # on[at]
    /\ on' = [on EXCEPT ![at] = ~@]
    /\ Pass(KeyEv(Filter.key, IF on[at] THEN 0 ELSE 1))
    /\ KeyEv(Filter.key, IF on[at] THEN 0 ELSE 1) \in Event

Returns ==
    /\ ev.type = "ABS" => CheckTreshold(ev.value, Filter.treshold) = on[at]
    /\ Return
    /\ UNCHANGED <<on, ev, down, passed, open>>

LEMMA PressureEffect ==
    ASSUME Typed, PressureThen
    PROVE  /\ at \in 1..Len(chain)
           /\ chain[at] \in AnyFilter
           /\ chain[at].kind = "pressure_to_key"
           /\ back
           /\ UNCHANGED <<chain, pressure, frame, eat>>
           /\ Touches \/ Returns
  <1>1. at \in 1..Len(chain) /\ chain[at].kind = "pressure_to_key" /\ back
        /\ UNCHANGED <<chain, pressure, frame, eat>>
    BY DEF PressureThen, Runs, device
  <1>2. chain[at] \in AnyFilter
    BY <1>1, ChainType DEF Typed, TypeOK
  <1>3. CASE ev.type = "ABS" /\ CheckTreshold(ev.value, Filter.treshold) # on[at]
    <2>1. KeyEv(Filter.key, IF on[at] THEN 0 ELSE 1) \in Event
      BY <1>1, <1>2, FilterFields, EventFields DEF Filter
    <2>2. on' = [on EXCEPT ![at] = ~@]
          /\ Pass(KeyEv(Filter.key, IF on[at] THEN 0 ELSE 1))
      BY <1>3 DEF PressureThen
    <2>3. Touches
      BY <1>3, <2>1, <2>2 DEF Touches
    <2> QED
      BY <1>1, <1>2, <2>3
  <1>4. CASE ~(ev.type = "ABS" /\ CheckTreshold(ev.value, Filter.treshold) # on[at])
    <2>1. Return /\ UNCHANGED <<on, ev, down, passed, open>>
      BY <1>4 DEF PressureThen
    <2>2. Returns
      BY <1>4, <2>1 DEF Returns
    <2> QED
      BY <1>1, <1>2, <2>2
  <1> QED
    BY <1>3, <1>4

\* The types hold in the initial state.
LEMMA InitTyped == Init => Typed
  <1> SUFFICES ASSUME Init PROVE Typed
    OBVIOUS
  <1>1. chain \in Chains /\ Len(chain) \in Nat /\ Last = Len(chain) + 1
    BY ChainType DEF Init, Last
  <1>2. ev \in Event /\ ev.type = "SYN"
    BY EventFields DEF Init, SynEv
  <1>3. << >> \in Seq({"repeat", "other"}) /\ pressure \in 0..MaxPressure
    BY MaxPressureAssumption DEF Init
  <1>4. down \in [1..Last -> SUBSET Nat] /\ DOMAIN down = 1..Last
    BY DEF Init
  <1>5. at \in 0..Last
    BY <1>1 DEF Init
  <1> QED
    BY <1>1, <1>2, <1>3, <1>4, <1>5 DEF Init, Typed, TypeOK, Of

\* The filters of a kind are what they were, and a call keeps what waits in
\* front of the filter that runs.
LEMMA CallTyped ==
    ASSUME Typed, NEW e \in Event, Call(e), at \in 0..Len(chain),
           UNCHANGED chain,
           on' \in [1..Len(chain) -> BOOLEAN], eat' \in [1..Len(chain) -> BOOLEAN],
           waiting' \subseteq Of("pressure_to_key"),
           waiting' \subseteq waiting \cup {at},
           pressure' \in 0..MaxPressure, frame' \in Seq({"repeat", "other"}),
           passed' \in BOOLEAN, open' \in BOOLEAN
    PROVE  Typed'
  <1>1. /\ ev' = e
        /\ at' = at + 1
        /\ at' \in 1..Last
        /\ ~back'
        /\ down' \in [1..Last -> SUBSET Nat]
    BY CallEffect
  <1>2. Len(chain) \in Nat /\ Last' = Last /\ Last = Len(chain) + 1
        /\ chain' \in Chains
    BY ChainType DEF Last, Typed, TypeOK
  <1>3. Of("pressure_to_key")' = Of("pressure_to_key")
    BY DEF Of
  <1>4. \A i \in waiting' : i < at'
    <2> SUFFICES ASSUME NEW i \in waiting' PROVE i < at'
      OBVIOUS
    <2>1. i \in Int /\ at \in Int
      BY <1>2 DEF Of
    <2>2. i < at \/ i = at
      BY DEF Typed, TypeOK
    <2> QED
      BY <1>1, <2>1, <2>2
  <1>5. ev'.type \in {"KEY", "REL", "ABS", "SYN"}
    BY <1>1, EventFields
  <1>6. back' = FALSE
    BY DEF Call
  <1>7. at' \in 0..Last'
    BY <1>1, <1>2
  <1> QED
    BY <1>1, <1>2, <1>3, <1>4, <1>5, <1>6, <1>7 DEF Typed, TypeOK

\* A return wakes a filter that may wait, or leaves the line idle.
LEMMA ReturnTyped ==
    ASSUME Typed, Return, UNCHANGED <<chain, ev, down, pressure, frame>>,
           on' \in [1..Len(chain) -> BOOLEAN], eat' \in [1..Len(chain) -> BOOLEAN],
           passed' \in BOOLEAN, open' \in BOOLEAN
    PROVE  Typed'
  <1>1. Len(chain) \in Nat /\ Last' = Last /\ Last = Len(chain) + 1
        /\ chain' \in Chains
    BY ChainType DEF Last, Typed, TypeOK
  <1>2. Of("pressure_to_key")' = Of("pressure_to_key")
    BY DEF Of
  <1>3. waiting \subseteq Of("pressure_to_key") /\ \A i \in waiting : i \in 1..Len(chain)
    BY DEF Typed, TypeOK, Of
  <1>4. back' \in BOOLEAN
    BY DEF Return
  <1>5. /\ at' \in 0..Last'
        /\ waiting' \subseteq Of("pressure_to_key")
        /\ \A i \in waiting' : i < at'
        /\ back' => chain'[at'].kind = "pressure_to_key" /\ at' \in 1..Len(chain')
    <2>1. CASE waiting = {} /\ at' = 0 /\ ~back' /\ waiting' = {}
      BY <1>1, <2>1
    <2>2. CASE /\ at' \in waiting
               /\ at' \in 1..Len(chain)
               /\ \A i \in waiting : i <= at'
               /\ waiting' = waiting \ {at'}
      BY <1>1, <1>3, <2>2 DEF Of
    <2> QED
      BY <2>1, <2>2, ReturnEffect
  <1> QED
    BY <1>1, <1>2, <1>4, <1>5 DEF Typed, TypeOK

\* The types are kept by every step.
LEMMA NextTyped == Typed /\ [Next]_vars => Typed'
  <1> SUFFICES ASSUME Typed, [Next]_vars PROVE Typed'
    OBVIOUS
  <1>1. /\ on \in [1..Len(chain) -> BOOLEAN]
        /\ eat \in [1..Len(chain) -> BOOLEAN]
        /\ waiting \subseteq Of("pressure_to_key")
        /\ pressure \in 0..MaxPressure
        /\ frame \in Seq({"repeat", "other"})
        /\ passed \in BOOLEAN
        /\ open \in BOOLEAN
        /\ ev \in Event
        /\ Len(chain) \in Nat
        /\ Last = Len(chain) + 1
    BY ChainType DEF Typed, TypeOK, Last
  <1>2. CASE ReadsFrom
    <2>1. PICK e \in Event : /\ Read(e)
                             /\ pressure' \in 0..MaxPressure
                             /\ frame' \in Seq({"repeat", "other"})
      BY <1>2 DEF ReadsFrom
    <2>2. /\ at = 0
          /\ Call(e)
          /\ UNCHANGED <<chain, on, eat, waiting, passed, open>>
      BY <2>1 DEF Read, Idle, priv
    <2>3. at \in 0..Len(chain)
      BY <1>1, <2>2
    <2> QED
      BY <1>1, <2>1, <2>2, <2>3, CallTyped
  <1>3. CASE KeyLock \/ NoRepeat \/ Btn2Rel
    <2>1. /\ at \in 1..Len(chain)
          /\ UNCHANGED <<chain, pressure, frame>>
          /\ on' \in [1..Len(chain) -> BOOLEAN]
          /\ GetsThrough \/ IsEaten
      BY <1>3, EaterEffect
    <2>2. CASE GetsThrough
      <3>1. PICK e \in Event : Pass(e) /\ \/ eat' = [eat EXCEPT ![at] = FALSE]
                                          \/ eat' = eat
        BY <2>2 DEF GetsThrough
      <3>2. Call(e) /\ UNCHANGED <<waiting, passed, open>>
        BY <3>1 DEF Pass
      <3>3. eat' \in [1..Len(chain) -> BOOLEAN]
        BY <1>1, <3>1
      <3>4. at \in 0..Len(chain)
        BY <1>1, <2>1
      <3> QED
        BY <1>1, <2>1, <3>2, <3>3, <3>4, CallTyped
    <2>3. CASE IsEaten
      <3>1. Return /\ UNCHANGED <<ev, down, open>> /\ passed' \in BOOLEAN
        BY <2>3 DEF IsEaten, Drop
      <3>2. eat' \in [1..Len(chain) -> BOOLEAN]
        BY <1>1, <2>3 DEF IsEaten
      <3> QED
        BY <1>1, <2>1, <3>1, <3>2, ReturnTyped
    <2> QED
      BY <2>1, <2>2, <2>3
  <1>4. CASE PressureFirst
    <2>1. /\ at \in 1..Len(chain)
          /\ chain[at].kind = "pressure_to_key"
          /\ waiting' = waiting \cup {at}
          /\ Call(ev)
          /\ UNCHANGED <<chain, pressure, frame, on, eat, passed, open>>
      BY <1>4 DEF PressureFirst, Runs, device, priv
    <2>2. at \in 0..Len(chain) /\ waiting' \subseteq Of("pressure_to_key")
      BY <1>1, <2>1 DEF Of
    <2> QED
      BY <1>1, <2>1, <2>2, CallTyped
  <1>5. CASE PressureThen
    <2>1. /\ at \in 1..Len(chain)
          /\ UNCHANGED <<chain, pressure, frame, eat>>
          /\ Touches \/ Returns
      BY <1>5, PressureEffect
    <2>2. CASE Touches
      <3> DEFINE e == KeyEv(Filter.key, IF on[at] THEN 0 ELSE 1)
      <3>1. e \in Event /\ Call(e) /\ UNCHANGED <<waiting, passed, open>>
            /\ on' = [on EXCEPT ![at] = ~@]
        BY <2>2 DEF Touches, Pass
      <3> HIDE DEF e
      <3>2. on' \in [1..Len(chain) -> BOOLEAN] /\ at \in 0..Len(chain)
        BY <1>1, <2>1, <3>1
      <3> QED
        BY <1>1, <2>1, <3>1, <3>2, CallTyped
    <2>3. CASE Returns
      BY <1>1, <2>1, <2>3, ReturnTyped DEF Returns
    <2> QED
      BY <2>1, <2>2, <2>3
  <1>6. CASE Commit
    <2>1. /\ Return
          /\ open' = (ev.type # "SYN")
          /\ passed' = (passed \/ ev.type # "SYN")
          /\ UNCHANGED <<chain, on, eat, ev, down, pressure, frame>>
      BY <1>6 DEF Commit, priv, device
    <2>2. open' \in BOOLEAN /\ passed' \in BOOLEAN
      BY <2>1
    <2> QED
      BY <1>1, <2>1, <2>2, ReturnTyped
  <1>7. CASE UNCHANGED vars
    BY <1>7 DEF vars, Typed, TypeOK, Of, Last
  <1> QED
    BY <1>2, <1>3, <1>4, <1>5, <1>6, <1>7, ReadEffect DEF Next

-----------------------------------------------------------------------------
(* What is true of an event half way down the line.                        *)

\* The event tells what the device's frame holds and which pressure it has, and
\* pressure_to_key has no flag of its own.
EventKnown ==
    /\ frame = << >> <=> ev.type = "SYN"
    /\ ev.type = "ABS" => ev.value = pressure
    /\ \A i \in Of("pressure_to_key") : ~eat[i]

LastPressure(i) ==
    i \in Of("pressure_to_key") /\ \A j \in Of("pressure_to_key") : j <= i

\* The last pressure_to_key filter has followed the pressure, or the pressure is
\* on its way: to the filter, or back to it from the filters behind it.
PressureOnItsWay ==
    \A i \in 1..Len(chain) :
        LastPressure(i) =>
            \/ on[i] <=> CheckTreshold(pressure, chain[i].treshold)
            \/ /\ ev.type = "ABS"
               /\ at # 0
               /\ at < i => ~back
               /\ at > i => i \in waiting

\* An event that is let through resets the flags on its way.  When the latest
\* event got to the consumer no flag is set, so nothing eats its SYN_REPORT.
FlagsReset ==
    Of("btn2rel") = {} =>
        /\ (at = 0 \/ back \/ ev.type = "SYN") /\ passed
               => \A i \in 1..Len(chain) : ~eat[i]
        /\ at # 0 /\ ~back /\ ev.type # "SYN"
               => \A i \in 1..Len(chain) : i < at => ~eat[i]
        /\ back /\ ev.type = "ABS" => passed
        /\ (at = 0 \/ back) /\ ev.type = "SYN" /\ passed => ~open

\* A frame without an open event is one whose latest event was eaten, and the
\* filter that ate it waits for the SYN_REPORT.
SyncAwaited ==
    /\ (at = 0 \/ back) /\ ev.type # "SYN"
           => open \/ \E i \in 1..Len(chain) : eat[i]
    /\ at # 0 /\ ~back /\ IsSync(ev)
           => open \/ \E i \in 1..Len(chain) : i >= at /\ eat[i]

\* Filter i has not heard of key c.
NotHeard(i, c) ==
    /\ c \notin down[i]
    /\ i = at /\ ~back /\ ev.type = "KEY" => ev.code # c

\* Every filter has accounted for the keys, but for the one that is about to
\* look at an event: it has accounted for those before the event.
KeysOnTheirWay ==
    \A i \in 1..Len(chain) :
        /\ i = at /\ ~back =>
               \E before \in SUBSET Nat :
                   /\ down[i] = Told(before, ev)
                   /\ Accounted(chain[i], Locked(i), Alone(i), before, down[i + 1])
        /\ ~(i = at /\ ~back) =>
               Accounted(chain[i], Locked(i), Alone(i), down[i], down[i + 1])
        /\ \A c \in Nat : Unheard(i, c) => NotHeard(i, c)

\* The steps of a line, one by one: what each does to the place of the event, to
\* the event, and to what the properties look at.
ReadStep ==
    /\ at = 0
    /\ at' = 1
    /\ ~back'
    /\ ev' \in Event
    /\ ev'.type \in {"KEY", "ABS", "SYN"}
    /\ ev'.type = "KEY" => ev'.code \in Key
    /\ ev'.type = "ABS" => ev'.value = pressure'
    /\ ev'.type # "ABS" => UNCHANGED pressure
    /\ frame' = << >> <=> ev'.type = "SYN"
    /\ ev'.type = "SYN" => frame # << >>
    /\ down' = [down EXCEPT ![1] = Told(@, ev')]
    /\ UNCHANGED <<chain, on, eat, waiting, passed, open>>

ThroughStep ==
    /\ at \in 1..Len(chain)
    /\ ~back
    /\ chain[at].kind # "pressure_to_key"
    /\ at' = at + 1
    /\ ~back'
    /\ ev.type # "KEY" => ev' = ev
    /\ ev.type = "KEY" => ev'.type \in {"KEY", "REL"}
    /\ ev' \in Event
    /\ ev'.type = "KEY" => \/ ev'.code = ev.code
                           \/ chain[at].kind = "btn2rel" /\ ev'.code = BTN_LEFT
    /\ down' = [down EXCEPT ![at + 1] = Told(@, ev')]
    /\ IsSync(ev) => ~eat[at]
    /\ \/ eat' = [eat EXCEPT ![at] = FALSE]
       \/ chain[at].kind = "btn2rel" /\ eat' = eat
    /\ \A i \in 1..Len(chain) : i # at => on'[i] = on[i]
    /\ UNCHANGED <<chain, waiting, pressure, frame, passed, open>>

EatenStep ==
    /\ at \in 1..Len(chain)
    /\ ~back
    /\ chain[at].kind # "pressure_to_key"
    /\ Return
    /\ \/ ev.type = "KEY" /\ eat' = [eat EXCEPT ![at] = TRUE]
       \/ ev.type = "SYN" /\ eat[at] /\ eat' = [eat EXCEPT ![at] = FALSE]
    /\ passed' = (passed /\ ev.type = "SYN")
    /\ \A i \in 1..Len(chain) : i # at => on'[i] = on[i]
    /\ UNCHANGED <<chain, ev, down, pressure, frame, open>>

FirstStep ==
    /\ at \in 1..Len(chain)
    /\ chain[at].kind = "pressure_to_key"
    /\ ~back
    /\ waiting' = waiting \cup {at}
    /\ at' = at + 1
    /\ ~back'
    /\ down' = [down EXCEPT ![at + 1] = Told(@, ev)]
    /\ UNCHANGED <<chain, on, eat, ev, pressure, frame, passed, open>>

TouchStep ==
    /\ at \in 1..Len(chain)
    /\ chain[at].kind = "pressure_to_key"
    /\ back
    /\ ev.type = "ABS"
    /\ CheckTreshold(ev.value, chain[at].treshold) # on[at]
    /\ on' = [on EXCEPT ![at] = ~@]
    /\ ev' = KeyEv(chain[at].key, IF on[at] THEN 0 ELSE 1)
    /\ at' = at + 1
    /\ ~back'
    /\ down' = [down EXCEPT ![at + 1] = Told(@, ev')]
    /\ UNCHANGED <<chain, eat, waiting, pressure, frame, passed, open>>

ReturnStep ==
    /\ at \in 1..Len(chain)
    /\ chain[at].kind = "pressure_to_key"
    /\ back
    /\ ev.type = "ABS" => CheckTreshold(ev.value, chain[at].treshold) = on[at]
    /\ Return
    /\ UNCHANGED <<chain, on, eat, ev, down, pressure, frame, passed, open>>

CommitStep ==
    /\ at = Last
    /\ ~back
    /\ Return
    /\ open' = (ev.type # "SYN")
    /\ passed' = (passed \/ ev.type # "SYN")
    /\ UNCHANGED <<chain, on, eat, ev, down, pressure, frame>>

\* Every step of the line is one of these.
LEMMA EveryStep ==
    ASSUME Typed, [Next]_vars
    PROVE  \/ ReadStep
           \/ (KeyLock \/ NoRepeat \/ Btn2Rel) /\ (ThroughStep \/ EatenStep)
           \/ FirstStep
           \/ TouchStep
           \/ ReturnStep
           \/ CommitStep
           \/ UNCHANGED vars
  <1>1. CASE ReadsFrom
    <2>1. PICK e \in Event :
              /\ Read(e)
              /\ e.type \in {"KEY", "ABS", "SYN"}
              /\ e.type = "KEY" => e.code \in Key
              /\ e.type = "ABS" => e.value = pressure'
              /\ e.type # "ABS" => UNCHANGED pressure
              /\ frame' = << >> <=> e.type = "SYN"
              /\ e.type = "SYN" => frame # << >>
      BY <1>1 DEF ReadsFrom
    <2>2. /\ at = 0
          /\ ev' = e
          /\ at' = at + 1
          /\ ~back'
          /\ down' = [down EXCEPT ![at + 1] = Told(@, e)]
          /\ UNCHANGED <<chain, on, eat, waiting, passed, open>>
      BY <2>1 DEF Read, Call, Idle, priv
    <2>3. ReadStep
      BY <2>1, <2>2 DEF ReadStep
    <2> QED
      BY <2>3
  <1>2. CASE KeyLock \/ NoRepeat \/ Btn2Rel
    <2>1. /\ at \in 1..Len(chain)
          /\ ~back
          /\ chain[at].kind # "pressure_to_key"
          /\ UNCHANGED <<chain, pressure, frame>>
          /\ \A i \in 1..Len(chain) : i # at => on'[i] = on[i]
          /\ GetsThrough \/ IsEaten
      BY <1>2, EaterEffect
    <2>2. CASE GetsThrough
      <3>1. ThroughStep
        BY <2>1, <2>2 DEF GetsThrough, Pass, Call, ThroughStep
      <3> QED
        BY <1>2, <3>1
    <2>3. CASE IsEaten
      <3>1. EatenStep
        BY <2>1, <2>3 DEF IsEaten, Drop, EatenStep
      <3> QED
        BY <1>2, <3>1
    <2> QED
      BY <2>1, <2>2, <2>3
  <1>3. CASE PressureFirst
    <2>1. FirstStep
      BY <1>3 DEF PressureFirst, Runs, Call, device, priv, FirstStep
    <2> QED
      BY <2>1
  <1>4. CASE PressureThen
    <2>1. /\ at \in 1..Len(chain)
          /\ chain[at].kind = "pressure_to_key"
          /\ back
          /\ UNCHANGED <<chain, pressure, frame, eat>>
          /\ Touches \/ Returns
      BY <1>4, PressureEffect
    <2>2. CASE Touches
      <3>1. TouchStep
        BY <2>1, <2>2 DEF Touches, Pass, Call, Filter, TouchStep
      <3> QED
        BY <3>1
    <2>3. CASE Returns
      <3>1. ReturnStep
        BY <2>1, <2>3 DEF Returns, Filter, ReturnStep
      <3> QED
        BY <3>1
    <2> QED
      BY <2>1, <2>2, <2>3
  <1>5. CASE Commit
    <2>1. Len(chain) \in Nat
      BY ChainType DEF Typed, TypeOK
    <2>2. at = Last /\ ~back
      BY <1>5, <2>1 DEF Commit, Typed, Last
    <2>3. CommitStep
      BY <1>5, <2>2 DEF Commit, priv, device, CommitStep
    <2> QED
      BY <2>3
  <1> QED
    BY <1>1, <1>2, <1>3, <1>4, <1>5, ReadEffect DEF Next

\* EventKnown is kept by every step.
LEMMA NextEventKnown == Typed /\ EventKnown /\ [Next]_vars => EventKnown'
  <1> SUFFICES ASSUME Typed, EventKnown, [Next]_vars PROVE EventKnown'
    OBVIOUS
  <1>1. /\ eat \in [1..Len(chain) -> BOOLEAN]
        /\ ev \in Event
        /\ ev.type \in {"KEY", "REL", "ABS", "SYN"}
    BY EventFields DEF Typed, TypeOK
  <1>2. chain' = chain => Of("pressure_to_key")' = Of("pressure_to_key")
    BY DEF Of
  <1>3. CASE ReadStep
    BY <1>2, <1>3 DEF ReadStep, EventKnown
  <1>4. CASE ThroughStep
    <2>1. frame' = frame /\ pressure' = pressure /\ chain' = chain
      BY <1>4 DEF ThroughStep
    <2>2. ev' = ev \/ (ev.type = "KEY" /\ ev'.type \in {"KEY", "REL"})
      BY <1>4 DEF ThroughStep
    <2>3. \A i \in Of("pressure_to_key") : ~eat'[i]
      <3> TAKE i \in Of("pressure_to_key")
      <3>1. i \in 1..Len(chain) /\ i # at
        BY <1>4 DEF ThroughStep, Of
      <3>2. eat'[i] = eat[i]
        BY <1>1, <1>4, <3>1 DEF ThroughStep
      <3> QED
        BY <3>2 DEF EventKnown
    <2> QED
      BY <1>2, <2>1, <2>2, <2>3 DEF EventKnown
  <1>5. CASE EatenStep
    <2>1. \A i \in Of("pressure_to_key") : ~eat'[i]
      <3> TAKE i \in Of("pressure_to_key")
      <3>1. i \in 1..Len(chain) /\ i # at
        BY <1>5 DEF EatenStep, Of
      <3>2. eat'[i] = eat[i]
        BY <1>1, <1>5, <3>1 DEF EatenStep
      <3> QED
        BY <3>2 DEF EventKnown
    <2> QED
      BY <1>2, <1>5, <2>1 DEF EatenStep, EventKnown
  <1>6. CASE FirstStep
    BY <1>2, <1>6 DEF FirstStep, EventKnown
  <1>7. CASE TouchStep
    <2>1. ev'.type = "KEY" /\ ev.type = "ABS"
      BY <1>7 DEF TouchStep, KeyEv
    <2> QED
      BY <1>2, <1>7, <2>1 DEF TouchStep, EventKnown
  <1>8. CASE ReturnStep
    BY <1>2, <1>8 DEF ReturnStep, EventKnown
  <1>9. CASE CommitStep
    BY <1>2, <1>9 DEF CommitStep, EventKnown
  <1>10. CASE UNCHANGED vars
    BY <1>10 DEF vars, EventKnown, Of
  <1> QED
    BY <1>3, <1>4, <1>5, <1>6, <1>7, <1>8, <1>9, <1>10, EveryStep

\* A threshold is passed or it is not.
LEMMA ThresholdIsBoolean == \A v, t : CheckTreshold(v, t) \in BOOLEAN
  <1> TAKE v, t
  <1>1. CASE t < 0
    <2>1. CheckTreshold(v, t) = (v # 0 /\ v < -t)
      BY <1>1 DEF CheckTreshold
    <2>2. (v # 0 /\ v < -t) \in BOOLEAN
      OBVIOUS
    <2> QED
      BY <2>1, <2>2
  <1>2. CASE ~(t < 0)
    <2>1. CheckTreshold(v, t) = (v > t)
      BY <1>2 DEF CheckTreshold
    <2>2. (v > t) \in BOOLEAN
      OBVIOUS
    <2> QED
      BY <2>1, <2>2
  <1> QED
    BY <1>1, <1>2

\* The pressure reaches the last pressure_to_key filter and comes back to it.
LEMMA NextPressure ==
    Typed /\ EventKnown /\ PressureOnItsWay /\ [Next]_vars => PressureOnItsWay'
  <1> SUFFICES ASSUME Typed, EventKnown, PressureOnItsWay, [Next]_vars,
                      NEW i \in 1..Len(chain)', LastPressure(i)'
               PROVE  (\/ on[i] <=> CheckTreshold(pressure, chain[i].treshold)
                       \/ /\ ev.type = "ABS"
                          /\ at # 0
                          /\ at < i => ~back
                          /\ at > i => i \in waiting)'
    BY DEF PressureOnItsWay
  <1>1. chain' = chain
    BY EveryStep
    DEF ReadStep, ThroughStep, EatenStep, FirstStep, TouchStep, ReturnStep,
        CommitStep, vars
  <1>2. i \in 1..Len(chain) /\ LastPressure(i) /\ Len(chain) \in Nat
    BY <1>1, ChainType DEF LastPressure, Of, Typed, TypeOK
  <1>3. chain[i].kind = "pressure_to_key" /\ waiting \subseteq Of("pressure_to_key")
        /\ \A j \in Of("pressure_to_key") : j <= i
    BY <1>2 DEF LastPressure, Of, Typed, TypeOK
  <1>4. \/ on[i] <=> CheckTreshold(pressure, chain[i].treshold)
        \/ /\ ev.type = "ABS"
           /\ at # 0
           /\ at < i => ~back
           /\ at > i => i \in waiting
    BY <1>2 DEF PressureOnItsWay
  <1>5. on \in [1..Len(chain) -> BOOLEAN] /\ at \in 0..Len(chain) + 1
    BY DEF Typed, TypeOK, Last
  <1>6. CASE ReadStep
    <2>1. i >= 1 /\ at' = 1 /\ ~back' /\ on' = on
      BY <1>2, <1>6 DEF ReadStep
    <2>2. CASE ev'.type = "ABS"
      <3>1. at' # 0 /\ ~(at' > i)
        BY <1>2, <2>1
      <3> QED
        BY <2>1, <2>2, <3>1
    <2>3. CASE ev'.type # "ABS"
      <3>1. pressure' = pressure /\ at = 0
        BY <1>6, <2>3 DEF ReadStep
      <3> QED
        BY <1>1, <1>4, <2>1, <3>1
    <2> QED
      BY <2>2, <2>3
  <1>7. CASE ThroughStep
    <2>1. /\ at \in 1..Len(chain)
          /\ at # i
          /\ ~back
          /\ at' = at + 1
          /\ ~back'
          /\ ev.type # "KEY" => ev' = ev
          /\ on'[i] = on[i]
          /\ waiting' = waiting
          /\ pressure' = pressure
      BY <1>2, <1>3, <1>7 DEF ThroughStep
    <2>2. at' # 0 /\ (at' > i => at > i)
      BY <1>2, <2>1
    <2> QED
      BY <1>1, <1>4, <2>1, <2>2
  <1>8. CASE EatenStep
    <2>1. /\ at # i
          /\ ev.type \in {"KEY", "SYN"}
          /\ on'[i] = on[i]
          /\ pressure' = pressure
      BY <1>2, <1>3, <1>8 DEF EatenStep
    <2> QED
      BY <1>1, <1>4, <2>1
  <1>9. CASE FirstStep
    <2>1. /\ at \in 1..Len(chain)
          /\ chain[at].kind = "pressure_to_key"
          /\ waiting' = waiting \cup {at}
          /\ at' = at + 1
          /\ ~back'
          /\ UNCHANGED <<on, ev, pressure>>
      BY <1>9 DEF FirstStep
    <2>2. at' # 0 /\ (at' > i => at > i \/ at = i)
      BY <1>2, <2>1
    <2> QED
      BY <1>1, <1>4, <2>1, <2>2
  <1>10. CASE TouchStep
    <2>1. /\ at \in 1..Len(chain)
          /\ at \in Of("pressure_to_key")
          /\ ev.type = "ABS"
          /\ back
          /\ CheckTreshold(ev.value, chain[at].treshold) # on[at]
          /\ on' = [on EXCEPT ![at] = ~@]
          /\ UNCHANGED <<chain, pressure>>
      BY <1>10 DEF TouchStep, Of
    <2>2. ev.value = pressure /\ at <= i
      BY <1>3, <2>1 DEF EventKnown
    <2>3. CASE at = i
      <3>1. on[i] \in BOOLEAN /\ on'[i] = ~on[i]
        BY <1>2, <1>5, <2>1, <2>3
      <3>2. CheckTreshold(pressure, chain[i].treshold) \in BOOLEAN
        BY ThresholdIsBoolean
      <3>3. CheckTreshold(pressure, chain[i].treshold) # on[i]
        BY <2>1, <2>2, <2>3
      <3>4. on'[i] <=> CheckTreshold(pressure, chain[i].treshold)
        BY <3>1, <3>2, <3>3
      <3> QED
        BY <2>1, <3>4
    <2>4. CASE at # i
      <3>1. at < i
        BY <1>2, <2>1, <2>2, <2>4
      <3>2. on'[i] = on[i]
        BY <1>2, <1>5, <2>1, <2>4
      <3> QED
        BY <1>4, <2>1, <3>1, <3>2
    <2> QED
      BY <2>3, <2>4
  <1>11. CASE ReturnStep
    <2>1. /\ at \in Of("pressure_to_key")
          /\ at \in 1..Len(chain)
          /\ back
          /\ ev.type = "ABS" => CheckTreshold(ev.value, chain[at].treshold) = on[at]
          /\ UNCHANGED <<chain, on, pressure>>
      BY <1>11 DEF ReturnStep, Of
    <2>2. at <= i
      BY <1>3, <2>1
    <2>3. on[i] <=> CheckTreshold(pressure, chain[i].treshold)
      <3>1. CASE ev.type = "ABS" /\ at = i
        <4>1. ev.value = pressure
          BY <3>1 DEF EventKnown
        <4> QED
          BY <2>1, <3>1, <4>1
      <3>2. CASE ev.type # "ABS"
        BY <1>4, <3>2
      <3>3. CASE at # i
        BY <1>2, <1>4, <2>1, <2>2, <3>3
      <3> QED
        BY <3>1, <3>2, <3>3
    <2> QED
      BY <2>1, <2>3
  <1>12. CASE CommitStep
    <2>1. at > i /\ UNCHANGED <<chain, on, ev, pressure>> /\ Return
      BY <1>2, <1>12 DEF CommitStep, Last
    <2>2. CASE i \in waiting
      <3>1. /\ at' \in waiting
            /\ \A j \in waiting : j <= at'
            /\ at' \in 1..Len(chain)
        BY <2>1, <2>2, ReturnEffect
      <3>2. at' <= i /\ i <= at'
        BY <1>3, <2>2, <3>1
      <3>3. at' = i
        BY <1>2, <3>1, <3>2
      <3> QED
        BY <1>2, <1>4, <2>1, <3>3
    <2>3. CASE i \notin waiting
      BY <1>4, <2>1, <2>3
    <2> QED
      BY <2>2, <2>3
  <1>13. CASE UNCHANGED vars
    BY <1>4, <1>13 DEF vars
  <1> QED
    BY <1>6, <1>7, <1>8, <1>9, <1>10, <1>11, <1>12, <1>13, EveryStep

\* A flag is set only by the event that is eaten, and reset by what follows.
LEMMA NextFlags ==
    Typed /\ EventKnown /\ FlagsReset /\ [Next]_vars => FlagsReset'
  <1> SUFFICES ASSUME Typed, EventKnown, FlagsReset, [Next]_vars,
                      Of("btn2rel")' = {}
               PROVE  (/\ (at = 0 \/ back \/ ev.type = "SYN") /\ passed
                              => \A i \in 1..Len(chain) : ~eat[i]
                       /\ at # 0 /\ ~back /\ ev.type # "SYN"
                              => \A i \in 1..Len(chain) : i < at => ~eat[i]
                       /\ back /\ ev.type = "ABS" => passed
                       /\ (at = 0 \/ back) /\ ev.type = "SYN" /\ passed => ~open)'
    BY DEF FlagsReset
  <1>1. chain' = chain
    BY EveryStep
    DEF ReadStep, ThroughStep, EatenStep, FirstStep, TouchStep, ReturnStep,
        CommitStep, vars
  <1>2. \A i \in 1..Len(chain) : chain[i].kind # "btn2rel"
    BY <1>1 DEF Of
  <1>3. /\ (at = 0 \/ back \/ ev.type = "SYN") /\ passed
               => \A i \in 1..Len(chain) : ~eat[i]
        /\ at # 0 /\ ~back /\ ev.type # "SYN"
               => \A i \in 1..Len(chain) : i < at => ~eat[i]
        /\ back /\ ev.type = "ABS" => passed
        /\ (at = 0 \/ back) /\ ev.type = "SYN" /\ passed => ~open
    <2>1. Of("btn2rel") = {}
      BY <1>2 DEF Of
    <2> QED
      BY <2>1 DEF FlagsReset
  <1>4. eat \in [1..Len(chain) -> BOOLEAN] /\ at \in 0..Len(chain) + 1
        /\ Len(chain) \in Nat
    BY ChainType DEF Typed, TypeOK, Last
  <1>5. CASE ReadStep
    BY <1>1, <1>3, <1>4, <1>5 DEF ReadStep
  <1>6. CASE ThroughStep
    <2>1. /\ at \in 1..Len(chain)
          /\ ~back
          /\ at' = at + 1
          /\ ~back'
          /\ ev.type # "KEY" => ev' = ev
          /\ ev.type = "KEY" => ev'.type \in {"KEY", "REL"}
          /\ eat' = [eat EXCEPT ![at] = FALSE]
          /\ passed' = passed
      BY <1>2, <1>6 DEF ThroughStep
    <2>2. ev'.type = "SYN" <=> ev.type = "SYN"
      BY <2>1
    <2>3. \A i \in 1..Len(chain) : eat'[i] => eat[i] /\ i # at
      BY <1>4, <2>1
    <2>4. \A i \in 1..Len(chain) : i < at' /\ i # at => i < at
      BY <2>1
    <2> QED
      BY <1>1, <1>3, <2>1, <2>2, <2>3, <2>4
  <1>7. CASE EatenStep
    <2>1. /\ at \in 1..Len(chain)
          /\ ~back
          /\ passed' = (passed /\ ev.type = "SYN")
          /\ ev' = ev
          /\ \/ ev.type = "KEY"
             \/ ev.type = "SYN" /\ eat[at]
      BY <1>7 DEF EatenStep
    <2>2. CASE ev.type = "KEY"
      BY <1>1, <2>1, <2>2, ReturnEffect, <1>7 DEF EatenStep
    <2>3. CASE ev.type = "SYN" /\ eat[at]
      <3>1. ~passed'
        BY <1>3, <2>1, <2>3
      <3> QED
        BY <1>1, <2>1, <2>3, <3>1, ReturnEffect, <1>7 DEF EatenStep
    <2> QED
      BY <2>1, <2>2, <2>3
  <1>8. CASE FirstStep
    <2>1. /\ at \in 1..Len(chain)
          /\ at \in Of("pressure_to_key")
          /\ at' = at + 1
          /\ ~back
          /\ ~back'
          /\ UNCHANGED <<eat, ev, passed>>
      BY <1>8 DEF FirstStep, Of
    <2>2. ~eat[at]
      BY <2>1 DEF EventKnown
    <2>3. \A i \in 1..Len(chain) : i < at' /\ i # at => i < at
      BY <2>1
    <2> QED
      BY <1>1, <1>3, <2>1, <2>2, <2>3
  <1>9. CASE TouchStep
    <2>1. /\ back
          /\ ev.type = "ABS"
          /\ ev'.type = "KEY"
          /\ at' # 0
          /\ ~back'
          /\ UNCHANGED <<eat, passed>>
      BY <1>4, <1>9 DEF TouchStep, KeyEv
    <2> QED
      BY <1>1, <1>3, <2>1
  <1>10. CASE ReturnStep
    <2>1. /\ back
          /\ UNCHANGED <<eat, ev, passed, open>>
          /\ at' = 0 \/ back'
      BY <1>10, ReturnEffect DEF ReturnStep
    <2> QED
      BY <1>1, <1>3, <2>1
  <1>11. CASE CommitStep
    <2>1. /\ at # 0
          /\ \A i \in 1..Len(chain) : i < at
          /\ ~back
          /\ open' = (ev.type # "SYN")
          /\ passed' = (passed \/ ev.type # "SYN")
          /\ UNCHANGED <<eat, ev>>
          /\ at' = 0 \/ back'
      BY <1>4, <1>11, ReturnEffect DEF CommitStep, Last
    <2>2. CASE ev.type = "SYN"
      BY <1>1, <1>3, <2>1, <2>2
    <2>3. CASE ev.type # "SYN"
      BY <1>1, <1>3, <2>1, <2>3
    <2> QED
      BY <2>2, <2>3
  <1>12. CASE UNCHANGED vars
    BY <1>1, <1>3, <1>12 DEF vars
  <1> QED
    BY <1>5, <1>6, <1>7, <1>8, <1>9, <1>10, <1>11, <1>12, EveryStep

\* A SYN_REPORT finds the flag of the event that was eaten before it gets to the
\* consumer.
LEMMA NextAwaited ==
    Typed /\ EventKnown /\ SyncAwaited /\ [Next]_vars => SyncAwaited'
  <1> SUFFICES ASSUME Typed, EventKnown, SyncAwaited, [Next]_vars
               PROVE  SyncAwaited'
    OBVIOUS
  <1>1. chain' = chain
    BY EveryStep
    DEF ReadStep, ThroughStep, EatenStep, FirstStep, TouchStep, ReturnStep,
        CommitStep, vars
  <1>2. eat \in [1..Len(chain) -> BOOLEAN] /\ at \in 0..Len(chain) + 1
        /\ Len(chain) \in Nat
    BY ChainType DEF Typed, TypeOK, Last
  <1>3. CASE ReadStep
    <2>1. ev'.type = "SYN" => ev.type # "SYN" /\ at = 0
      BY <1>3 DEF ReadStep, EventKnown
    <2>2. IsSync(ev)' => open \/ \E i \in 1..Len(chain) : eat[i]
      BY <2>1 DEF IsSync, SyncAwaited
    <2>3. at' = 1 /\ ~back' /\ UNCHANGED <<eat, open>>
      BY <1>3 DEF ReadStep
    <2>4. \A i \in 1..Len(chain) : i >= at'
      BY <2>3
    <2> QED
      BY <1>1, <2>2, <2>3, <2>4 DEF SyncAwaited
  <1>4. CASE ThroughStep
    <2>1. /\ at \in 1..Len(chain)
          /\ ~back
          /\ at' = at + 1
          /\ ~back'
          /\ ev.type # "KEY" => ev' = ev
          /\ ev.type = "KEY" => ev'.type \in {"KEY", "REL"}
          /\ IsSync(ev) => ~eat[at]
          /\ eat' = [eat EXCEPT ![at] = FALSE] \/ eat' = eat
          /\ open' = open
      BY <1>4 DEF ThroughStep
    <2>2. SUFFICES ASSUME IsSync(ev)', ~open'
                   PROVE  \E i \in 1..Len(chain) : i >= at' /\ eat'[i]
      BY <1>1, <2>1 DEF SyncAwaited
    <2>3. IsSync(ev)
      BY <2>1, <2>2 DEF IsSync
    <2>4. PICK i \in 1..Len(chain) : i >= at /\ eat[i]
      BY <2>1, <2>2, <2>3 DEF SyncAwaited
    <2>5. i # at
      BY <2>1, <2>3, <2>4
    <2>6. eat'[i] /\ i >= at'
      BY <1>2, <2>1, <2>4, <2>5
    <2> QED
      BY <2>6
  <1>5. CASE EatenStep
    <2>1. CASE ev.type = "KEY"
      <3>1. at \in 1..Len(chain) /\ eat'[at] /\ ev' = ev
        BY <1>2, <1>5, <2>1 DEF EatenStep
      <3>2. ~IsSync(ev)'
        BY <2>1, <3>1 DEF IsSync
      <3> QED
        BY <1>1, <3>1, <3>2 DEF SyncAwaited
    <2>2. CASE ev.type = "SYN"
      <3>1. ev' = ev /\ (at' = 0 \/ back')
        BY <1>5, ReturnEffect DEF EatenStep
      <3> QED
        BY <2>2, <3>1 DEF SyncAwaited
    <2> QED
      BY <1>5, <2>1, <2>2 DEF EatenStep
  <1>6. CASE FirstStep
    <2>1. /\ at \in 1..Len(chain)
          /\ at \in Of("pressure_to_key")
          /\ at' = at + 1
          /\ ~back
          /\ ~back'
          /\ UNCHANGED <<eat, ev, open>>
      BY <1>6 DEF FirstStep, Of
    <2>2. SUFFICES ASSUME IsSync(ev)', ~open'
                   PROVE  \E i \in 1..Len(chain) : i >= at' /\ eat'[i]
      BY <1>1, <2>1 DEF SyncAwaited
    <2>3. PICK i \in 1..Len(chain) : i >= at /\ eat[i]
      BY <2>1, <2>2 DEF SyncAwaited, IsSync
    <2>4. i # at
      BY <2>1, <2>3 DEF EventKnown
    <2>5. eat'[i] /\ i >= at'
      BY <1>2, <2>1, <2>3, <2>4
    <2> QED
      BY <2>5
  <1>7. CASE TouchStep
    <2>1. at' # 0 /\ ~back' /\ ev'.type = "KEY"
      BY <1>2, <1>7 DEF TouchStep, KeyEv
    <2> QED
      BY <2>1 DEF SyncAwaited, IsSync
  <1>8. CASE ReturnStep
    <2>1. back /\ UNCHANGED <<eat, ev, open>> /\ (at' = 0 \/ back')
      BY <1>8, ReturnEffect DEF ReturnStep
    <2> QED
      BY <1>1, <2>1 DEF SyncAwaited
  <1>9. CASE CommitStep
    <2>1. open' = (ev.type # "SYN") /\ ev' = ev /\ (at' = 0 \/ back')
      BY <1>9, ReturnEffect DEF CommitStep
    <2> QED
      BY <2>1 DEF SyncAwaited
  <1>10. CASE UNCHANGED vars
    BY <1>10 DEF vars, SyncAwaited, IsSync
  <1> QED
    BY <1>3, <1>4, <1>5, <1>6, <1>7, <1>8, <1>9, <1>10, EveryStep

-----------------------------------------------------------------------------
(* The keys, filter by filter.                                             *)

\* What a stage is told, case by case.
LEMMA ToldCases ==
    ASSUME NEW d, NEW e
    PROVE  /\ e.type = "KEY" /\ e.value = 0 => Told(d, e) = d \ {e.code}
           /\ e.type = "KEY" /\ e.value = 1 => Told(d, e) = d \cup {e.code}
           /\ e.type # "KEY" \/ e.value \notin {0, 1} => Told(d, e) = d
  BY DEF Told

\* Filter i runs, and has accounted for the keys once it is done.
Settles(i, only, before) ==
    /\ down[i] = Told(before, ev)
    /\ Accounted(chain[i], Locked(i), only, before, down[i + 1])
    => /\ down'[i] = down[i]
       /\ Accounted(chain[i], Locked(i)', only, down[i], down'[i + 1])

\* What becomes of the two sets of keys about the filter that runs.
LEMMA AboutAt ==
    ASSUME Typed, NEW i \in 1..Len(chain), i = at
    PROVE  /\ down[i] \in SUBSET Nat
           /\ down[i + 1] \in SUBSET Nat
           /\ on[i] \in BOOLEAN
           /\ \A e : Pass(e) => /\ down'[i] = down[i]
                                /\ down'[i + 1] = Told(down[i + 1], e)
           /\ Drop => down'[i] = down[i] /\ down'[i + 1] = down[i + 1]
  <1>1. Len(chain) \in Nat /\ Last = Len(chain) + 1
        /\ down \in [1..Last -> SUBSET Nat]
    BY ChainType DEF Typed, TypeOK, Last
  <1>2. i \in 1..Last /\ i + 1 \in 1..Last /\ i # i + 1
    BY <1>1
  <1>3. on[i] \in BOOLEAN
    BY DEF Typed, TypeOK
  <1> QED
    BY <1>1, <1>2, <1>3 DEF Pass, Call, Drop

\* key_lock: the key is down behind it exactly when the filter has it locked.
LEMMA KeyLockSettles ==
    ASSUME Typed, KeyLock, NEW i, i = at, NEW only, NEW before \in SUBSET Nat
    PROVE  Settles(i, only, before)
  <1> DEFINE k == Filter.key
             key == ev.type = "KEY" /\ ev.code = k
             press == key /\ ev.value = 1
             e == IF press /\ on[i] THEN [ev EXCEPT !.value = 0] ELSE ev
             u == down[i + 1]
             L == IF on[i] THEN {k} ELSE {}
  <1> SUFFICES ASSUME down[i] = Told(before, ev), u = (before \ {k}) \cup L
               PROVE  /\ down'[i] = down[i]
                      /\ down'[i + 1] = (down[i] \ {k}) \cup Locked(i)'
    BY DEF Settles, Accounted, Locked, Filter, KeyLock, Runs
  <1>1. i \in 1..Len(chain) /\ chain[i].kind = "key_lock" /\ chain' = chain
        /\ on' = [on EXCEPT ![i] = @ # press]
        /\ EatOrPass(key /\ ev.value = 0, e)
    BY DEF KeyLock, Runs
  <1>2. /\ on \in [1..Len(chain) -> BOOLEAN]
        /\ ev \in Event
        /\ k \in Nat
        /\ on[i] \in BOOLEAN
    BY <1>1, ChainType, FilterFields DEF Typed, TypeOK, Filter
  <1>3. Locked(i)' = IF on[i] # press THEN {k} ELSE {}
    <2>1. Locked(i)' = IF on'[i] THEN {k} ELSE {}
      BY <1>1 DEF Locked, Filter
    <2> HIDE DEF press
    <2>2. on'[i] = (on[i] # press)
      BY <1>1, <1>2
    <2> QED
      BY <2>1, <2>2
  <1>4. CASE EatsSync
    <2>1. Drop /\ ev.type = "SYN"
      BY <1>1, <1>4 DEF EatOrPass, EatsSync, IsSync
    <2>2. down[i] = before /\ ~press
      BY <2>1, ToldCases
    <2>3. Locked(i)' = L
      BY <1>2, <1>3, <2>2
    <2> QED
      BY <1>1, <2>1, <2>2, <2>3, AboutAt
  <1>5. CASE ~EatsSync /\ key /\ ev.value = 0
    <2>1. Drop
      BY <1>1, <1>5 DEF EatOrPass
    <2>2. down[i] = before \ {k} /\ ~press
      BY <1>5, ToldCases
    <2>3. Locked(i)' = L
      BY <1>2, <1>3, <2>2
    <2> QED
      BY <1>1, <2>1, <2>2, <2>3, AboutAt
  <1>6. CASE ~EatsSync /\ press
    <2>1. Pass(e)
      BY <1>1, <1>6 DEF EatOrPass
    <2>2. down'[i] = down[i] /\ down'[i + 1] = Told(u, e)
      BY <1>1, <2>1, AboutAt
    <2>3. down[i] = before \cup {k}
      BY <1>6, ToldCases
    <2>4. CASE on[i]
      <3>1. e.type = "KEY" /\ e.value = 0 /\ e.code = k
        BY <1>2, <1>6, <2>4 DEF Event
      <3> HIDE DEF e, u, k
      <3>2. Told(u, e) = u \ {k}
        BY <3>1, ToldCases
      <3> USE DEF e, u, k
      <3>3. Locked(i)' = {}
        BY <1>2, <1>3, <1>6, <2>4
      <3> QED
        BY <2>2, <2>3, <2>4, <3>2, <3>3
    <2>5. CASE ~on[i]
      <3>1. e = ev
        BY <2>5
      <3>2. Told(u, e) = u \cup {k}
        BY <1>6, <3>1, ToldCases
      <3>3. Locked(i)' = {k}
        BY <1>2, <1>3, <1>6, <2>5
      <3> QED
        BY <2>2, <2>3, <2>5, <3>2, <3>3
    <2> QED
      BY <2>4, <2>5
  <1>7. CASE ~EatsSync /\ ~(key /\ ev.value = 0) /\ ~press
    <2>1. Pass(ev)
      BY <1>1, <1>7 DEF EatOrPass
    <2>2. down'[i] = down[i] /\ down'[i + 1] = Told(u, ev)
      BY <1>1, <2>1, AboutAt
    <2>3. Locked(i)' = L
      BY <1>2, <1>3, <1>7
    <2>4. Told(u, ev) = (Told(before, ev) \ {k}) \cup L
      <3>1. CASE ev.type = "KEY" /\ ev.value \in {0, 1}
        <4>1. ev.code # k
          BY <1>7, <3>1
        <4> QED
          BY <3>1, <4>1, ToldCases
      <3>2. CASE ~(ev.type = "KEY" /\ ev.value \in {0, 1})
        BY <3>2, ToldCases
      <3> QED
        BY <3>1, <3>2
    <2> QED
      BY <2>2, <2>3, <2>4
  <1> QED
    BY <1>4, <1>5, <1>6, <1>7

\* no_repeat: the keys are what they were.
LEMMA NoRepeatSettles ==
    ASSUME Typed, NoRepeat, NEW i, i = at, NEW only, NEW before \in SUBSET Nat
    PROVE  Settles(i, only, before)
  <1> SUFFICES ASSUME down[i] = Told(before, ev), down[i + 1] = before
               PROVE  down'[i] = down[i] /\ down'[i + 1] = down[i]
    BY DEF Settles, Accounted, NoRepeat, Runs
  <1>1. i \in 1..Len(chain) /\ EatOrPass(ev.type = "KEY" /\ ev.value = 2, ev)
    BY DEF NoRepeat, Runs
  <1>2. CASE EatsSync \/ (ev.type = "KEY" /\ ev.value = 2)
    <2>1. Drop
      BY <1>1, <1>2 DEF EatOrPass
    <2>2. down[i] = before
      BY <1>2, ToldCases DEF EatsSync, IsSync
    <2> QED
      BY <1>1, <2>1, <2>2, AboutAt
  <1>3. CASE ~(EatsSync \/ (ev.type = "KEY" /\ ev.value = 2))
    <2>1. Pass(ev)
      BY <1>1, <1>3 DEF EatOrPass
    <2> QED
      BY <1>1, <2>1, AboutAt
  <1> QED
    BY <1>2, <1>3

\* What btn2rel f makes of a set of keys.
MovedKeys(f, keys) ==
    {IF k = f.left_btn THEN BTN_LEFT ELSE k : k \in keys \ {f.key_up, f.key_left}}

\* The keys that move the pointer are not among them.
LEMMA MovedByMovement ==
    ASSUME NEW f, NEW d, NEW c \in {f.key_up, f.key_left}
    PROVE  /\ MovedKeys(f, d \cup {c}) = MovedKeys(f, d)
           /\ MovedKeys(f, d \ {c}) = MovedKeys(f, d)
  <1>1. (d \cup {c}) \ {f.key_up, f.key_left} = d \ {f.key_up, f.key_left}
    OBVIOUS
  <1>2. (d \ {c}) \ {f.key_up, f.key_left} = d \ {f.key_up, f.key_left}
    OBVIOUS
  <1> QED
    BY <1>1, <1>2 DEF MovedKeys

\* A press of another key adds what it becomes, a release takes that away unless
\* there is another key that becomes the same.
LEMMA MovedByOther ==
    ASSUME NEW f, NEW d, NEW c, c \notin {f.key_up, f.key_left}, NEW x,
           x = IF c = f.left_btn THEN BTN_LEFT ELSE c
    PROVE  /\ MovedKeys(f, d \cup {c}) = MovedKeys(f, d) \cup {x}
           /\ MovedKeys(f, d) \ {x} \subseteq MovedKeys(f, d \ {c})
           /\ MovedKeys(f, d \ {c}) \ {BTN_LEFT} \subseteq MovedKeys(f, d) \ {x}
           /\ c # BTN_LEFT /\ BTN_LEFT \notin d =>
                  MovedKeys(f, d \ {c}) = MovedKeys(f, d) \ {x}
  <1> DEFINE g(k) == IF k = f.left_btn THEN BTN_LEFT ELSE k
  <1>1. \A s, y : y \in MovedKeys(f, s) <=>
                      \E k \in s : k \notin {f.key_up, f.key_left} /\ y = g(k)
    BY DEF MovedKeys
  <1>2. x = g(c)
    OBVIOUS
  <1>3. \A y : y \in MovedKeys(f, d \cup {c}) <=> y \in MovedKeys(f, d) \cup {x}
    BY <1>1, <1>2
  <1>4. MovedKeys(f, d \cup {c}) = MovedKeys(f, d) \cup {x}
    BY <1>3 DEF MovedKeys
  <1>5. MovedKeys(f, d) \ {x} \subseteq MovedKeys(f, d \ {c})
    BY <1>1, <1>2
  <1>6. MovedKeys(f, d \ {c}) \subseteq MovedKeys(f, d)
    BY <1>1
  <1>7. \A y : y \in MovedKeys(f, d \ {c}) /\ y # BTN_LEFT => y # x
    <2> SUFFICES ASSUME NEW y, y \in MovedKeys(f, d \ {c}), y # BTN_LEFT
                 PROVE  y # x
      OBVIOUS
    <2>1. PICK k \in d \ {c} : y = g(k)
      BY <1>1
    <2> QED
      BY <2>1
  <1>8. ASSUME c # BTN_LEFT, BTN_LEFT \notin d
        PROVE  x \notin MovedKeys(f, d \ {c})
    <2>1. SUFFICES ASSUME NEW k \in d \ {c}, x = g(k) PROVE FALSE
      BY <1>1
    <2>2. CASE c = f.left_btn
      BY <1>8, <2>1, <2>2
    <2>3. CASE c # f.left_btn
      BY <1>8, <2>1, <2>3
    <2> QED
      BY <2>2, <2>3
  <1>9. c # BTN_LEFT /\ BTN_LEFT \notin d =>
            MovedKeys(f, d \ {c}) = MovedKeys(f, d) \ {x}
    BY <1>5, <1>6, <1>8
  <1> QED
    BY <1>4, <1>5, <1>6, <1>7, <1>9

\* btn2rel: what is down behind it is what is down before it, moved.
LEMMA Btn2RelSettles ==
    ASSUME Typed, Btn2Rel, NEW i, i = at, NEW only, NEW before \in SUBSET Nat,
           only => /\ BTN_LEFT \notin before
                   /\ ev.type = "KEY" => ev.code # BTN_LEFT
    PROVE  Settles(i, only, before)
  <1> DEFINE f == chain[i]
             u == down[i + 1]
             Fits(d, s) == /\ s \subseteq MovedKeys(f, d)
                           /\ MovedKeys(f, d) \ s \subseteq
                                  (IF only THEN {} ELSE {BTN_LEFT})
             x == IF ev.code = f.left_btn THEN BTN_LEFT ELSE ev.code
  <1>1. /\ i \in 1..Len(chain) /\ f.kind = "btn2rel" /\ chain' = chain
        /\ Filter = f
        /\ ev \in Event
        /\ f \in AnyFilter
    BY ChainType DEF Btn2Rel, Runs, Filter, Typed, TypeOK
  <1>2. f.key_up \in Nat /\ f.key_left \in Nat /\ f.left_btn \in Nat
    BY <1>1, FilterFields
  <1> SUFFICES ASSUME down[i] = Told(before, ev), Fits(before, u)
               PROVE  down'[i] = down[i] /\ Fits(down[i], down'[i + 1])
    BY <1>1 DEF Settles, Accounted, MovedKeys
  <1> DEFINE sync == ev.type = "SYN" /\ eat[i]
             release == /\ ev.type = "KEY" /\ ev.value = 0
                        /\ ev.code \in {f.key_up, f.key_left}
             e == IF ev.type = "KEY" THEN Converted(f, ev) ELSE ev
  <1>3. IF sync \/ release THEN Drop ELSE Pass(e)
    BY <1>1 DEF Btn2Rel
  <1> HIDE DEF f, u
  <1>7. ASSUME ev.code \notin {f.key_up, f.key_left}
        PROVE  /\ MovedKeys(f, before \cup {ev.code}) = MovedKeys(f, before) \cup {x}
               /\ MovedKeys(f, before) \ {x} \subseteq MovedKeys(f, before \ {ev.code})
               /\ MovedKeys(f, before \ {ev.code}) \ {BTN_LEFT}
                      \subseteq MovedKeys(f, before) \ {x}
               /\ ev.code # BTN_LEFT /\ BTN_LEFT \notin before =>
                      MovedKeys(f, before \ {ev.code}) = MovedKeys(f, before) \ {x}
    <2>1. x = IF ev.code = f.left_btn THEN BTN_LEFT ELSE ev.code
      OBVIOUS
    <2> HIDE DEF x
    <2> DEFINE c == ev.code
    <2>2. c \notin {f.key_up, f.key_left} /\ x = IF c = f.left_btn THEN BTN_LEFT ELSE c
      BY <1>7, <2>1
    <2> HIDE DEF c
    <2>3. /\ MovedKeys(f, before \cup {c}) = MovedKeys(f, before) \cup {x}
          /\ MovedKeys(f, before) \ {x} \subseteq MovedKeys(f, before \ {c})
          /\ MovedKeys(f, before \ {c}) \ {BTN_LEFT} \subseteq MovedKeys(f, before) \ {x}
          /\ c # BTN_LEFT /\ BTN_LEFT \notin before =>
                 MovedKeys(f, before \ {c}) = MovedKeys(f, before) \ {x}
      BY <2>2, MovedByOther
    <2> QED
      BY <2>3 DEF c
  <1>4. CASE sync
    <2>1. down'[i] = down[i] /\ down'[i + 1] = u
      BY <1>1, <1>3, <1>4, AboutAt DEF u
    <2>2. down[i] = before
      BY <1>4, ToldCases
    <2> QED
      BY <2>1, <2>2
  <1>5. CASE ~sync /\ release
    <2>1. down'[i] = down[i] /\ down'[i + 1] = u
      BY <1>1, <1>3, <1>5, AboutAt DEF u
    <2>2. down[i] = before \ {ev.code}
      BY <1>5, ToldCases
    <2>3. MovedKeys(f, before \ {ev.code}) = MovedKeys(f, before)
      BY <1>5, MovedByMovement
    <2> QED
      BY <2>1, <2>2, <2>3
  <1>6. CASE ~sync /\ ~release
    <2>1. down'[i] = down[i] /\ down'[i + 1] = Told(u, e)
      BY <1>1, <1>3, <1>6, AboutAt DEF u
    <2>2. CASE ev.type # "KEY" \/ ev.value \notin {0, 1}
      <3>1. e.type # "KEY" \/ e.value \notin {0, 1}
        BY <1>1, <1>2, <2>2, ConvertedEvent
      <3>2. Told(u, e) = u /\ down[i] = before
        <4> HIDE DEF e
        <4> QED
          BY <2>2, <3>1, ToldCases
      <3> QED
        BY <2>1, <3>2
    <2>3. CASE /\ ev.type = "KEY" /\ ev.value = 1
               /\ ev.code \in {f.key_up, f.key_left}
      <3>1. e.type = "REL"
        BY <1>1, <1>2, <2>3, ConvertedEvent
      <3>2. Told(u, e) = u
        <4> HIDE DEF e
        <4> QED
          BY <3>1, ToldCases
      <3>3. down[i] = before \cup {ev.code}
        BY <2>3, ToldCases
      <3>4. MovedKeys(f, before \cup {ev.code}) = MovedKeys(f, before)
        BY <2>3, MovedByMovement
      <3> QED
        BY <2>1, <3>2, <3>3, <3>4
    <2>4. CASE /\ ev.type = "KEY" /\ ev.value = 1
               /\ ev.code \notin {f.key_up, f.key_left}
      <3>1. e.type = "KEY" /\ e.value = 1 /\ e.code = x
        BY <1>1, <1>2, <2>4, ConvertedEvent
      <3>2. Told(u, e) = u \cup {x}
        <4> HIDE DEF e
        <4> QED
          BY <3>1, ToldCases
      <3>3. down[i] = before \cup {ev.code}
        BY <2>4, ToldCases
      <3>4. MovedKeys(f, before \cup {ev.code}) = MovedKeys(f, before) \cup {x}
        BY <2>4, <1>7
      <3> HIDE DEF e, x
      <3> QED
        BY <2>1, <3>2, <3>3, <3>4
    <2>5. CASE /\ ev.type = "KEY" /\ ev.value = 0
               /\ ev.code \notin {f.key_up, f.key_left}
      <3>1. e.type = "KEY" /\ e.value = 0 /\ e.code = x
        BY <1>1, <1>2, <2>5, ConvertedEvent
      <3>2. Told(u, e) = u \ {x}
        <4> HIDE DEF e
        <4> QED
          BY <3>1, ToldCases
      <3>3. down[i] = before \ {ev.code}
        BY <2>5, ToldCases
      <3>4. /\ MovedKeys(f, before) \ {x} \subseteq MovedKeys(f, before \ {ev.code})
            /\ MovedKeys(f, before \ {ev.code}) \ {BTN_LEFT}
                   \subseteq MovedKeys(f, before) \ {x}
            /\ ev.code # BTN_LEFT /\ BTN_LEFT \notin before =>
                   MovedKeys(f, before \ {ev.code}) = MovedKeys(f, before) \ {x}
        BY <2>5, <1>7
      <3> HIDE DEF e, x
      <3>5. CASE only
        <4>1. MovedKeys(f, before \ {ev.code}) = MovedKeys(f, before) \ {x}
          BY <2>5, <3>4, <3>5
        <4>2. u = MovedKeys(f, before)
          BY <3>5
        <4> QED
          BY <2>1, <3>2, <3>3, <3>5, <4>1, <4>2
      <3>6. CASE ~only
        BY <2>1, <3>2, <3>3, <3>4, <3>6
      <3> QED
        BY <3>5, <3>6
    <2> QED
      BY <1>6, <2>2, <2>3, <2>4, <2>5
  <1> QED
    BY <1>4, <1>5, <1>6

\* pressure_to_key: its key comes and goes behind it, others pass it by.
LEMMA PressureSettles ==
    ASSUME NEW f, f.kind = "pressure_to_key", NEW L \in SUBSET {f.key}, NEW only,
           NEW d, NEW u, Accounted(f, L, only, d, u), only => f.key \notin d
    PROVE  /\ \A e : (only /\ e.type = "KEY" => e.code # f.key) =>
                  Accounted(f, L, only, Told(d, e), Told(u, e))
           /\ Accounted(f, {f.key}, only, d, Told(u, KeyEv(f.key, 1)))
           /\ Accounted(f, {}, only, d, Told(u, KeyEv(f.key, 0)))
  <1> DEFINE Fits(K, s, t) == /\ t \ {f.key} = s \ {f.key}
                              /\ t \subseteq s \cup K
                              /\ (IF only THEN K ELSE s \cap K) \subseteq t
  <1>1. \A K, s, t : Accounted(f, K, only, s, t) <=> Fits(K, s, t)
    BY DEF Accounted
  <1>2. Fits(L, d, u)
    BY <1>1
  <1>3. ASSUME NEW e, only /\ e.type = "KEY" => e.code # f.key
        PROVE  Accounted(f, L, only, Told(d, e), Told(u, e))
    <2>1. CASE e.type = "KEY" /\ e.value = 0
      <3>1. Told(d, e) = d \ {e.code} /\ Told(u, e) = u \ {e.code}
        BY <2>1, ToldCases
      <3>2. only => e.code # f.key
        BY <1>3, <2>1
      <3>3. Fits(L, d \ {e.code}, u \ {e.code})
        BY <1>2, <3>2
      <3> QED
        BY <1>1, <3>1, <3>3
    <2>2. CASE e.type = "KEY" /\ e.value = 1
      <3>1. Told(d, e) = d \cup {e.code} /\ Told(u, e) = u \cup {e.code}
        BY <2>2, ToldCases
      <3>2. Fits(L, d \cup {e.code}, u \cup {e.code})
        BY <1>2
      <3> QED
        BY <1>1, <3>1, <3>2
    <2>3. CASE e.type # "KEY" \/ e.value \notin {0, 1}
      BY <2>3, ToldCases
    <2> QED
      BY <2>1, <2>2, <2>3
  <1>4. Accounted(f, {f.key}, only, d, Told(u, KeyEv(f.key, 1)))
    <2>1. Told(u, KeyEv(f.key, 1)) = u \cup {f.key}
      BY DEF Told, KeyEv
    <2>2. Fits({f.key}, d, u \cup {f.key})
      BY <1>2
    <2> QED
      BY <1>1, <2>1, <2>2
  <1>5. Accounted(f, {}, only, d, Told(u, KeyEv(f.key, 0)))
    <2>1. Told(u, KeyEv(f.key, 0)) = u \ {f.key}
      BY DEF Told, KeyEv
    <2>2. Fits({}, d, u \ {f.key})
      BY <1>2
    <2> QED
      BY <1>1, <2>1, <2>2
  <1> QED
    BY <1>3, <1>4, <1>5

\* A call: filter i, if it is one, has accounted for the keys, and the next one
\* is about to.
LEMMA KeysAdvance ==
    ASSUME Typed, KeysOnTheirWay, NEW i \in 0..Len(chain), at = i,
           at' = i + 1, ~back', ev' \in Event,
           down' = [down EXCEPT ![i + 1] = Told(@, ev')],
           UNCHANGED chain,
           \A j \in 1..Len(chain) : j # i => on'[j] = on[j],
           i # 0 =>
               Accounted(chain[i], Locked(i)', Alone(i), down[i], down'[i + 1]),
           i + 1 <= Len(chain) /\ ev'.type = "KEY"
               => \A c \in Nat : Unheard(i + 1, c) => ev'.code # c
    PROVE  KeysOnTheirWay'
  <1>1. Len(chain) \in Nat /\ Last = Len(chain) + 1
        /\ down \in [1..Last -> SUBSET Nat]
    BY ChainType DEF Typed, TypeOK, Last
  <1>2. \A j \in 1..Last : j # i + 1 => down'[j] = down[j]
    BY <1>1
  <1> SUFFICES ASSUME NEW j \in 1..Len(chain)
               PROVE  (/\ j = at /\ ~back =>
                             \E before \in SUBSET Nat :
                                 /\ down[j] = Told(before, ev)
                                 /\ Accounted(chain[j], Locked(j), Alone(j),
                                              before, down[j + 1])
                       /\ ~(j = at /\ ~back) =>
                             Accounted(chain[j], Locked(j), Alone(j), down[j],
                                       down[j + 1])
                       /\ \A c \in Nat : Unheard(j, c) => NotHeard(j, c))'
    BY DEF KeysOnTheirWay
  <1>3. /\ Alone(j)' = Alone(j) /\ chain'[j] = chain[j]
        /\ \A c : Unheard(j, c)' = Unheard(j, c)
    BY DEF Alone, Unheard
  <1>4. j # i => Locked(j)' = Locked(j)
    BY <1>3 DEF Locked
  <1>5. /\ j # i =>
               Accounted(chain[j], Locked(j), Alone(j), down[j], down[j + 1])
        /\ \A c \in Nat : Unheard(j, c) => c \notin down[j]
    BY DEF KeysOnTheirWay, NotHeard
  <1>6. j \in 1..Last /\ j + 1 \in 1..Last
    BY <1>1
  <1>7. CASE j = i + 1
    <2>1. /\ down'[j] = Told(down[j], ev')
          /\ down'[j + 1] = down[j + 1]
          /\ down[j] \in SUBSET Nat
          /\ j # i
      BY <1>1, <1>2, <1>6, <1>7
    <2>2. Accounted(chain'[j], Locked(j)', Alone(j)', down[j], down'[j + 1])
      BY <1>3, <1>4, <1>5, <2>1
    <2>3. ASSUME NEW c \in Nat, Unheard(j, c)
          PROVE  c \notin Told(down[j], ev') /\ (ev'.type = "KEY" => ev'.code # c)
      <3>1. ev'.type = "KEY" => ev'.code # c
        BY <1>7, <2>3
      <3>2. Told(down[j], ev') \subseteq
                down[j] \cup (IF ev'.type = "KEY" THEN {ev'.code} ELSE {})
        BY DEF Told
      <3> QED
        BY <1>5, <2>3, <3>1, <3>2
    <2>4. \A c \in Nat : Unheard(j, c)' => NotHeard(j, c)'
      BY <1>3, <1>7, <2>1, <2>3 DEF NotHeard
    <2> QED
      BY <1>3, <1>7, <2>1, <2>2, <2>4
  <1>8. CASE j = i
    <2>1. down'[j] = down[j] /\ j # i + 1 /\ i # 0
      BY <1>2, <1>6, <1>8
    <2>2. Accounted(chain'[j], Locked(j)', Alone(j)', down'[j], down'[j + 1])
      BY <1>3, <1>8, <2>1
    <2>3. \A c \in Nat : Unheard(j, c)' => NotHeard(j, c)'
      BY <1>3, <1>5, <1>6, <1>8, <2>1 DEF NotHeard
    <2> QED
      BY <1>3, <1>8, <2>1, <2>2, <2>3
  <1>9. CASE j # i /\ j # i + 1
    <2>1. down'[j] = down[j] /\ down'[j + 1] = down[j + 1]
      BY <1>2, <1>6, <1>9
    <2>2. Accounted(chain'[j], Locked(j)', Alone(j)', down'[j], down'[j + 1])
      BY <1>3, <1>4, <1>5, <1>9, <2>1
    <2>3. \A c \in Nat : Unheard(j, c)' => NotHeard(j, c)'
      BY <1>3, <1>5, <1>9, <2>1 DEF NotHeard
    <2> QED
      BY <1>3, <1>9, <2>1, <2>2, <2>3
  <1> QED
    BY <1>7, <1>8, <1>9

\* A return: filter i, if it is one, has accounted for the keys.
LEMMA KeysReturn ==
    ASSUME Typed, KeysOnTheirWay, NEW i \in 0..Len(chain) + 1, at = i,
           at' = 0 \/ back',
           UNCHANGED <<chain, down>>,
           \A j \in 1..Len(chain) : j # i => on'[j] = on[j],
           i \in 1..Len(chain) =>
               Accounted(chain[i], Locked(i)', Alone(i), down[i], down[i + 1])
    PROVE  KeysOnTheirWay'
  <1> SUFFICES ASSUME NEW j \in 1..Len(chain)
               PROVE  (/\ j = at /\ ~back =>
                             \E before \in SUBSET Nat :
                                 /\ down[j] = Told(before, ev)
                                 /\ Accounted(chain[j], Locked(j), Alone(j),
                                              before, down[j + 1])
                       /\ ~(j = at /\ ~back) =>
                             Accounted(chain[j], Locked(j), Alone(j), down[j],
                                       down[j + 1])
                       /\ \A c \in Nat : Unheard(j, c) => NotHeard(j, c))'
    BY DEF KeysOnTheirWay
  <1>1. /\ Alone(j)' = Alone(j) /\ chain'[j] = chain[j] /\ down' = down
        /\ \A c : Unheard(j, c)' = Unheard(j, c)
    BY DEF Alone, Unheard
  <1>2. j # i => Locked(j)' = Locked(j)
    BY <1>1 DEF Locked
  <1>3. /\ j # i =>
               Accounted(chain[j], Locked(j), Alone(j), down[j], down[j + 1])
        /\ \A c \in Nat : Unheard(j, c) => c \notin down[j]
    BY DEF KeysOnTheirWay, NotHeard
  <1>4. ~(j = at' /\ ~back')
    OBVIOUS
  <1>5. Accounted(chain'[j], Locked(j)', Alone(j)', down'[j], down'[j + 1])
    <2>1. CASE j = i
      BY <1>1, <2>1
    <2>2. CASE j # i
      BY <1>1, <1>2, <1>3, <2>2
    <2> QED
      BY <2>1, <2>2
  <1>6. \A c \in Nat : Unheard(j, c)' => NotHeard(j, c)'
    BY <1>1, <1>3, <1>4 DEF NotHeard
  <1> QED
    BY <1>1, <1>4, <1>5, <1>6

\* In the initial state no key is down anywhere.
LEMMA InitKeys == Init => KeysOnTheirWay
  <1> SUFFICES ASSUME Init, NEW i \in 1..Len(chain)
               PROVE  /\ Accounted(chain[i], Locked(i), Alone(i),
                                   down[i], down[i + 1])
                      /\ down[i] = {}
                      /\ i # at
    BY DEF KeysOnTheirWay, NotHeard
  <1>1. Len(chain) \in Nat /\ chain[i] \in AnyFilter
    BY ChainType DEF Init
  <1>2. down[i] = {} /\ down[i + 1] = {} /\ Locked(i) = {} /\ at = 0
    BY <1>1 DEF Init, Last, Locked
  <1>3. \A f : {IF k = f.left_btn THEN BTN_LEFT ELSE k :
                    k \in {} \ {f.key_up, f.key_left}} = {}
    OBVIOUS
  <1>4. chain[i].kind \in Kinds
    BY <1>1, FilterFields
  <1>5. Accounted(chain[i], {}, Alone(i), {}, {})
    BY <1>3, <1>4 DEF Accounted, Kinds
  <1> QED
    BY <1>2, <1>5

\* No step loses a key.
LEMMA NextKeys == Typed /\ KeysOnTheirWay /\ [Next]_vars => KeysOnTheirWay'
  <1> SUFFICES ASSUME Typed, KeysOnTheirWay, [Next]_vars PROVE KeysOnTheirWay'
    OBVIOUS
  <1>1. at \in 0..Len(chain) + 1 /\ Len(chain) \in Nat
    BY ChainType DEF Typed, TypeOK, Last
  <1>2. PICK i \in 0..Len(chain) + 1 : i = at
    BY <1>1
  <1>3. /\ i \in 1..Len(chain) /\ ~back =>
               \E before \in SUBSET Nat :
                   /\ down[i] = Told(before, ev)
                   /\ Accounted(chain[i], Locked(i), Alone(i), before, down[i + 1])
        /\ i \in 1..Len(chain) /\ back =>
               Accounted(chain[i], Locked(i), Alone(i), down[i], down[i + 1])
        /\ i \in 1..Len(chain) =>
               \A c \in Nat : Unheard(i, c) =>
                   /\ c \notin down[i]
                   /\ ~back /\ ev.type = "KEY" => ev.code # c
    BY <1>2 DEF KeysOnTheirWay, NotHeard
  <1>4. ASSUME NEW c \in Nat, Unheard(i + 1, c), i \in 1..Len(chain)
        PROVE  /\ Unheard(i, c)
               /\ chain[i].kind = "btn2rel" => c # BTN_LEFT
               /\ chain[i].kind = "pressure_to_key" => c # chain[i].key
    <2>1. i \in 1..(i + 1) - 1 /\ \A j \in 1..i - 1 : j \in 1..(i + 1) - 1
      BY <1>4
    <2> QED
      BY <1>4, <2>1 DEF Unheard
  <1>5. CASE ReadStep
    <2>1. /\ i = 0 /\ i \in 0..Len(chain)
          /\ at' = i + 1 /\ ~back' /\ ev' \in Event
          /\ down' = [down EXCEPT ![i + 1] = Told(@, ev')]
          /\ chain' = chain
          /\ on' = on
      BY <1>1, <1>2, <1>5 DEF ReadStep
    <2>2. ev'.type = "KEY" => \A c \in Nat : Unheard(i + 1, c) => ev'.code # c
      BY <1>5 DEF ReadStep, Unheard
    <2> QED
      BY <1>2, <2>1, <2>2, KeysAdvance
  <1>6. CASE (KeyLock \/ NoRepeat \/ Btn2Rel) /\ (ThroughStep \/ EatenStep)
    <2>1. /\ i \in 1..Len(chain) /\ ~back /\ chain' = chain
          /\ \A j \in 1..Len(chain) : j # i => on'[j] = on[j]
      BY <1>2, <1>6 DEF ThroughStep, EatenStep
    <2>2. PICK before \in SUBSET Nat :
              /\ down[i] = Told(before, ev)
              /\ Accounted(chain[i], Locked(i), Alone(i), before, down[i + 1])
      BY <1>3, <2>1
    <2>3. ASSUME NEW c \in Nat, Unheard(i, c)
          PROVE  /\ c \notin before
                 /\ ev.type = "KEY" => ev.code # c
      <3>1. c \notin down[i] /\ (ev.type = "KEY" => ev.code # c)
        BY <1>3, <2>1, <2>3
      <3>2. before \subseteq
                Told(before, ev) \cup (IF ev.type = "KEY" THEN {ev.code} ELSE {})
        BY DEF Told
      <3> QED
        BY <2>2, <3>1, <3>2
    <2>4. Settles(i, Alone(i), before)
      <3> DEFINE only == Alone(i)
      <3>1. Btn2Rel /\ only => /\ BTN_LEFT \notin before
                               /\ ev.type = "KEY" => ev.code # BTN_LEFT
        <4>1. Btn2Rel => chain[i].kind = "btn2rel"
          BY <1>2 DEF Btn2Rel, Runs
        <4> QED
          BY <2>3, <4>1 DEF Alone, BTN_LEFT
      <3> HIDE DEF only
      <3>2. Settles(i, only, before)
        BY <1>2, <1>6, <3>1, KeyLockSettles, NoRepeatSettles, Btn2RelSettles
      <3> QED
        BY <3>2 DEF only
    <2>5. Accounted(chain[i], Locked(i)', Alone(i), down[i], down'[i + 1])
      BY <2>2, <2>4 DEF Settles
    <2>6. CASE ThroughStep
      <3>1. /\ at' = i + 1 /\ ~back' /\ ev' \in Event
            /\ down' = [down EXCEPT ![i + 1] = Told(@, ev')]
        BY <1>2, <2>6 DEF ThroughStep
      <3>2. ASSUME NEW c \in Nat, Unheard(i + 1, c), ev'.type = "KEY"
            PROVE  ev'.code # c
        <4>1. Unheard(i, c) /\ (chain[i].kind = "btn2rel" => c # BTN_LEFT)
          BY <1>4, <2>1, <3>2
        <4>2. /\ ev.type = "KEY"
              /\ \/ ev'.code = ev.code
                 \/ chain[i].kind = "btn2rel" /\ ev'.code \in {ev.code, BTN_LEFT}
          BY <1>2, <2>6, <3>2 DEF ThroughStep
        <4> QED
          BY <2>3, <4>1, <4>2
      <3>3. i \in 0..Len(chain)
        BY <1>1, <2>1
      <3> QED
        BY <1>2, <2>1, <2>5, <3>1, <3>2, <3>3, KeysAdvance
    <2>7. CASE EatenStep
      <3>1. UNCHANGED down /\ (at' = 0 \/ back')
        BY <2>7, ReturnEffect DEF EatenStep
      <3>2. Accounted(chain[i], Locked(i)', Alone(i), down[i], down[i + 1])
        BY <2>5, <3>1
      <3> QED
        BY <1>2, <2>1, <3>1, <3>2, KeysReturn
    <2> QED
      BY <1>6, <2>6, <2>7
  <1>7. CASE FirstStep
    <2>1. /\ i \in 1..Len(chain) /\ ~back /\ chain' = chain /\ on' = on
          /\ chain[i].kind = "pressure_to_key"
          /\ at' = i + 1 /\ ~back' /\ ev' = ev /\ ev \in Event
          /\ down' = [down EXCEPT ![i + 1] = Told(@, ev)]
      BY <1>2, <1>7 DEF FirstStep, Typed
    <2>2. PICK before \in SUBSET Nat :
              /\ down[i] = Told(before, ev)
              /\ Accounted(chain[i], Locked(i), Alone(i), before, down[i + 1])
      BY <1>3, <2>1
    <2>3. down'[i + 1] = Told(down[i + 1], ev)
      BY <1>1, <2>1 DEF Typed, Last
    <2>4. Locked(i)' = Locked(i) /\ Locked(i) \in SUBSET {chain[i].key}
      BY <2>1 DEF Locked
    <2>5. Accounted(chain[i], Locked(i)', Alone(i), down[i], down'[i + 1])
      <3> DEFINE only == Alone(i)
                 L == Locked(i)
                 f == chain[i]
                 u == down[i + 1]
      <3>1. Accounted(f, L, only, before, u) /\ f.kind = "pressure_to_key"
            /\ L \in SUBSET {f.key}
        BY <2>1, <2>2, <2>4
      <3>2. only => f.key \notin before /\ (ev.type = "KEY" => ev.code # f.key)
        <4>1. only => Unheard(i, f.key) /\ f.key \in Nat
          BY <2>1, ChainType, FilterFields DEF Alone, Typed, TypeOK
        <4>2. before \subseteq
                  Told(before, ev) \cup (IF ev.type = "KEY" THEN {ev.code} ELSE {})
          BY DEF Told
        <4> HIDE DEF only, f
        <4> QED
          BY <1>3, <2>1, <2>2, <4>1, <4>2
      <3> HIDE DEF only, L, f, u
      <3>3. Accounted(f, L, only, Told(before, ev), Told(u, ev))
        BY <3>1, <3>2, PressureSettles
      <3> QED
        BY <2>2, <2>3, <2>4, <3>3 DEF only, L, f, u
    <2>6. ev'.type = "KEY" => \A c \in Nat : Unheard(i + 1, c) => ev'.code # c
      BY <1>3, <1>4, <2>1
    <2>7. i \in 0..Len(chain)
      BY <1>1, <2>1
    <2> QED
      BY <1>2, <2>1, <2>5, <2>6, <2>7, KeysAdvance
  <1>8. CASE TouchStep
    <2>1. /\ i \in 1..Len(chain) /\ back /\ chain' = chain
          /\ chain[i].kind = "pressure_to_key"
          /\ on' = [on EXCEPT ![i] = ~@]
          /\ ev' = KeyEv(chain[i].key, IF on[i] THEN 0 ELSE 1)
          /\ at' = i + 1 /\ ~back'
          /\ down' = [down EXCEPT ![i + 1] = Told(@, ev')]
      BY <1>2, <1>8 DEF TouchStep
    <2>2. on \in [1..Len(chain) -> BOOLEAN]
      BY DEF Typed, TypeOK
    <2>3. ev' \in Event /\ ev'.code = chain[i].key
      <3>1. chain[i].key \in Nat
        BY <2>1, ChainType, FilterFields DEF Typed, TypeOK
      <3> QED
        BY <2>1, <3>1, EventFields DEF KeyEv
    <2>4. down'[i + 1] = Told(down[i + 1], ev')
      BY <1>1, <2>1 DEF Typed, Last
    <2>5. Locked(i) \in SUBSET {chain[i].key}
          /\ Locked(i)' = IF on[i] THEN {} ELSE {chain[i].key}
      BY <2>1, <2>2 DEF Locked
    <2>6. Accounted(chain[i], Locked(i)', Alone(i), down[i], down'[i + 1])
      <3> DEFINE only == Alone(i)
                 L == Locked(i)
                 f == chain[i]
                 u == down[i + 1]
                 d == down[i]
      <3>1. Accounted(f, L, only, d, u) /\ f.kind = "pressure_to_key"
            /\ L \in SUBSET {f.key}
        BY <1>3, <2>1, <2>5
      <3>5. only => f.key \notin d
        <4>1. only => Unheard(i, f.key) /\ f.key \in Nat
          BY <2>1, ChainType, FilterFields DEF Alone, Typed, TypeOK
        <4> HIDE DEF only, f
        <4> QED
          BY <1>3, <2>1, <4>1 DEF d
      <3> HIDE DEF only, L, f, u, d
      <3>2. /\ Accounted(f, {f.key}, only, d, Told(u, KeyEv(f.key, 1)))
            /\ Accounted(f, {}, only, d, Told(u, KeyEv(f.key, 0)))
        BY <3>1, <3>5, PressureSettles
      <3>3. CASE on[i]
        BY <2>1, <2>4, <2>5, <3>2, <3>3 DEF only, L, f, u, d
      <3>4. CASE ~on[i]
        BY <2>1, <2>4, <2>5, <3>2, <3>4 DEF only, L, f, u, d
      <3> QED
        BY <3>3, <3>4
    <2>7. ev'.type = "KEY" => \A c \in Nat : Unheard(i + 1, c) => ev'.code # c
      BY <1>4, <2>1, <2>3
    <2>8. i \in 0..Len(chain) /\ \A j \in 1..Len(chain) : j # i => on'[j] = on[j]
      BY <1>1, <2>1, <2>2
    <2> QED
      BY <1>2, <2>1, <2>3, <2>6, <2>7, <2>8, KeysAdvance
  <1>9. CASE ReturnStep
    <2>1. /\ i \in 1..Len(chain) /\ back /\ UNCHANGED <<chain, down>> /\ on' = on
          /\ at' = 0 \/ back'
      BY <1>2, <1>9, ReturnEffect DEF ReturnStep
    <2>2. Accounted(chain[i], Locked(i)', Alone(i), down[i], down[i + 1])
      BY <1>3, <2>1 DEF Locked
    <2> QED
      BY <1>2, <2>1, <2>2, KeysReturn
  <1>10. CASE CommitStep
    <2>1. i \notin 1..Len(chain) /\ UNCHANGED <<chain, down>> /\ on' = on
          /\ (at' = 0 \/ back')
      BY <1>1, <1>2, <1>10, ReturnEffect DEF CommitStep, Last
    <2> QED
      BY <1>2, <2>1, KeysReturn
  <1>11. CASE UNCHANGED vars
    <2>1. /\ chain' = chain /\ on' = on /\ at' = at /\ back' = back
          /\ ev' = ev /\ down' = down
      BY <1>11 DEF vars
    <2>2. /\ \A j : Alone(j)' = Alone(j)
          /\ \A j : Locked(j)' = Locked(j)
          /\ \A j, c : Unheard(j, c)' = Unheard(j, c)
          /\ \A j, c : NotHeard(j, c)' = NotHeard(j, c)
      BY <2>1 DEF Alone, Locked, Unheard, NotHeard
    <2> QED
      BY <2>1, <2>2 DEF KeysOnTheirWay
  <1> QED
    BY <1>5, <1>6, <1>7, <1>8, <1>9, <1>10, <1>11, EveryStep

-----------------------------------------------------------------------------
(* The properties, for every line.                                         *)

\* The inductive invariant.
IInv ==
    /\ Typed
    /\ EventKnown
    /\ PressureOnItsWay
    /\ FlagsReset
    /\ SyncAwaited
    /\ KeysOnTheirWay

\* The line starts idle, with nothing down, no flag set and no pressure.
LEMMA InitIInv == Init => IInv
  <1> SUFFICES ASSUME Init PROVE IInv
    OBVIOUS
  <1>1. Typed /\ KeysOnTheirWay
    BY InitTyped, InitKeys
  <1>2. ev.type = "SYN" /\ at = 0 /\ ~passed /\ ~back
    BY DEF Init, SynEv
  <1>3. EventKnown
    BY <1>2 DEF Init, EventKnown, Of
  <1>4. PressureOnItsWay
    <2> SUFFICES ASSUME NEW i \in 1..Len(chain), LastPressure(i)
                 PROVE  on[i] <=> CheckTreshold(pressure, chain[i].treshold)
      BY DEF PressureOnItsWay
    <2>1. chain[i] \in AnyFilter /\ chain[i].kind = "pressure_to_key"
      BY ChainType DEF Init, LastPressure, Of
    <2>2. chain[i].treshold \in Int
      BY <2>1, FilterFields
    <2>3. ~CheckTreshold(0, chain[i].treshold)
      <3>1. CASE chain[i].treshold < 0
        BY <3>1 DEF CheckTreshold
      <3>2. CASE ~(chain[i].treshold < 0)
        BY <2>2, <3>2 DEF CheckTreshold
      <3> QED
        BY <3>1, <3>2
    <2> QED
      BY <2>3 DEF Init
  <1>5. FlagsReset /\ SyncAwaited
    BY <1>2 DEF FlagsReset, SyncAwaited
  <1> QED
    BY <1>1, <1>3, <1>4, <1>5 DEF IInv

\* The inductive invariant holds in every reachable state.
THEOREM Invariance == Spec => []IInv
  <1>1. IInv /\ [Next]_vars => IInv'
    BY NextTyped, NextEventKnown, NextPressure, NextFlags, NextAwaited, NextKeys
    DEF IInv
  <1> QED
    BY InitIInv, <1>1, PTL DEF Spec

\* The place of the event, the waiting filters and the filters' state always have
\* their types: a call never leaves the list of filters.
THEOREM Types == Spec => []TypeOK
  <1>1. IInv => TypeOK
    BY DEF IInv, Typed
  <1> QED
    BY <1>1, Invariance, PTL

\* In every order of any number of filters, what is down behind a filter is what it
\* should have made of the keys before it.  A key that nothing else sends is never
\* left stuck by the filter that sends it, and never lost.
THEOREM KeysNeverLost == Spec => []KeysAccountedFor
  <1>1. IInv => KeysAccountedFor
    <2> SUFFICES ASSUME KeysOnTheirWay, at = 0, NEW i \in 1..Len(chain)
                 PROVE  Accounted(chain[i], Locked(i), Alone(i), down[i],
                                  down[i + 1])
      BY DEF IInv, KeysAccountedFor, Idle
    <2>1. i # at
      OBVIOUS
    <2> QED
      BY <2>1 DEF KeysOnTheirWay
  <1> QED
    BY <1>1, Invariance, PTL

\* The last pressure_to_key filter of every line follows the device's pressure,
\* and so does the key that it sends to the next filter, if nothing else sends it.
THEOREM PressureIsFollowed == Spec => []PressureFollowed
  <1>1. IInv => PressureFollowed
    <2> SUFFICES ASSUME IInv, at = 0, NEW i \in Of("pressure_to_key"),
                        \A j \in Of("pressure_to_key") : j <= i
                 PROVE  LET touched == CheckTreshold(pressure, chain[i].treshold)
                        IN  /\ on[i] <=> touched
                            /\ Alone(i) => (chain[i].key \in down[i + 1] <=> touched)
      BY DEF PressureFollowed, Idle
    <2> DEFINE f == chain[i]
    <2>1. i \in 1..Len(chain) /\ LastPressure(i) /\ f.kind = "pressure_to_key"
      BY DEF Of, LastPressure
    <2>2. on[i] <=> CheckTreshold(pressure, f.treshold)
      BY <2>1 DEF IInv, PressureOnItsWay
    <2>3. f.key \in Nat /\ on[i] \in BOOLEAN
      BY <2>1, ChainType, FilterFields DEF IInv, Typed, TypeOK
    <2>4. ASSUME Alone(i)
          PROVE  f.key \in down[i + 1] <=> on[i]
      <3>1. f.key \notin down[i]
        BY <2>1, <2>3, <2>4 DEF IInv, KeysOnTheirWay, NotHeard, Alone
      <3>2. Accounted(f, Locked(i), Alone(i), down[i], down[i + 1])
        BY <2>1 DEF IInv, KeysOnTheirWay
      <3>3. down[i + 1] \subseteq down[i] \cup Locked(i) /\ Locked(i) \subseteq down[i + 1]
        BY <2>1, <2>4, <3>2 DEF Accounted
      <3>4. Locked(i) = IF on[i] THEN {f.key} ELSE {}
        BY DEF Locked
      <3> HIDE DEF f
      <3> QED
        BY <3>1, <3>3, <3>4
    <2> QED
      BY <2>2, <2>4
  <1> QED
    BY <1>1, Invariance, PTL

\* Without btn2rel, when the latest event got through so did its SYN_REPORT.
THEOREM EventsAreSynced == Spec => []LastEventSynced
  <1>1. IInv => LastEventSynced
    BY DEF IInv, FlagsReset, EventKnown, LastEventSynced, Idle
  <1> QED
    BY <1>1, Invariance, PTL

\* In every line the consumer gets no SYN_REPORT without an event before it.
THEOREM FramesHaveEvents == Spec => []NoEmptyFrame
  <1>1. IInv => NoEmptyFrame
    <2> SUFFICES ASSUME IInv, at = Last, IsSync(ev) PROVE open
      BY DEF NoEmptyFrame
    <2>1. Len(chain) \in Nat
      BY ChainType DEF IInv, Typed, TypeOK
    <2>2. at # 0 /\ ~back /\ \A i \in 1..Len(chain) : ~(i >= at)
      BY <2>1 DEF Last, IInv, Typed
    <2> QED
      BY <2>2 DEF IInv, SyncAwaited
  <1> QED
    BY <1>1, Invariance, PTL
=============================================================================
