----------------------------- MODULE HalfQwerty -----------------------------
(***************************************************************************)
(* src/src/filters/half_qwerty.c: the left half of a keyboard, with caps   *)
(* lock as the modifier that makes it the right half, cursor keys or a     *)
(* mouse.  An action is a way through half_qwerty_process().               *)
(***************************************************************************)
EXTENDS OneFilter, TLC

CONSTANT MaxAccel       \* bound of the acceleration, 10 in the code

ASSUME AccelAssumption == MaxAccel \in Nat \ {0}

KEY_GRAVE == 41
KEY_SPACE == 57
KEY_LEFTSHIFT == 42
KEY_E == 18
KEY_S == 31
KEY_D == 32
KEY_F == 33

HalfQwertyAlloc ==
    [enabled |-> FALSE, enabled_changed |-> FALSE, layout_switch |-> "LEFT_HALF",
     caps_mod |-> 0, caps_on |-> FALSE, shift_on |-> FALSE,
     accel |-> [a \in Axes |-> 1]]

-----------------------------------------------------------------------------
(* Caps lock.                                                              *)

Caps(e) == e.type = "KEY" /\ e.code = KEY_CAPSLOCK

Toggles(e) == Caps(e) /\ e.value = 2 /\ ~priv.enabled_changed /\ held_long'

Ends(e) == Caps(e) /\ e.value = 0 /\ priv.enabled_changed

ToggleDown(e) ==    \* mutant: the last release of the burst is left out
    /\ Toggles(e)
    /\ priv' = [priv EXCEPT !.enabled = ~@, !.enabled_changed = TRUE]
    /\ IF priv.enabled THEN GetsNothing(e)
       ELSE /\ told' = Holds(Holds(told, e.code, KeyEv(e.code, 0)),
                             e.code, KeyEv(e.code, 1))
            /\ open' = TRUE
            /\ moved' = {}
    /\ Other

\* Caps lock is down for long: the filter is enabled or disabled.  When it is
\* enabled caps lock is released, pressed and released, to turn its light off.
Toggle(e) ==
    /\ Toggles(e)
    /\ priv' = [priv EXCEPT !.enabled = ~@, !.enabled_changed = TRUE]
    /\ IF priv.enabled THEN GetsNothing(e)
       ELSE /\ told' = Holds(Holds(Holds(told, e.code, KeyEv(e.code, 0)),
                                   e.code, KeyEv(e.code, 1)),
                             e.code, KeyEv(e.code, 0))
            /\ open' = TRUE
            /\ moved' = {}
    /\ Other

ToggleEnds(e) ==
    /\ Ends(e)
    /\ priv' = [priv EXCEPT !.enabled_changed = FALSE]
    /\ Eats(e)

\* The filter is not enabled.
Disabled(e) ==
    /\ ~Toggles(e) /\ ~Ends(e) /\ ~priv.enabled
    /\ UNCHANGED priv
    /\ Passes(e, e)

\* The layout that the release of caps lock chooses.
Chosen ==
    CASE priv.caps_mod = KEY_F -> "SPECIAL"
      [] priv.caps_mod = KEY_D -> "MOUSE"
      [] priv.layout_switch # "LEFT_HALF" -> "LEFT_HALF"
      [] OTHER -> "RIGHT_HALF"

\* Caps lock is a modifier.
Modifier(e) ==
    /\ ~Toggles(e) /\ ~Ends(e) /\ priv.enabled /\ Caps(e)
    /\ priv' = CASE e.value = 1 -> [priv EXCEPT !.caps_on = TRUE]
                 [] e.value = 2 -> priv
                 [] OTHER -> [priv EXCEPT !.caps_on = FALSE, !.caps_mod = 0,
                                          !.layout_switch = Chosen]
    /\ GetsNothing(e)
    /\ Other

ModifiedFirst(e) ==     \* mutant: caps_on is looked at before enabled
    /\ ~Toggles(e) /\ ~Ends(e) /\ ~Caps(e) /\ priv.caps_on
    /\ priv' = (IF IsKey(e, 1) THEN [priv EXCEPT !.caps_mod = e.code] ELSE priv)
    /\ Eats(e)

\* While it is down everything is eaten; the last key pressed is its modifier.
\* Disabling the filter does not reset caps_on.
Modified(e) ==
    /\ priv.enabled /\ ~Caps(e) /\ priv.caps_on
    /\ priv' = (IF IsKey(e, 1) THEN [priv EXCEPT !.caps_mod = e.code] ELSE priv)
    /\ Eats(e)

-----------------------------------------------------------------------------
(* The layouts.                                                            *)

Lays(e) == priv.enabled /\ ~Caps(e) /\ ~priv.caps_on

PassedOn(e) ==
    /\ Lays(e) /\ (e.type # "KEY" \/ priv.layout_switch = "LEFT_HALF")
    /\ UNCHANGED priv
    /\ Passes(e, e)

\* layout_right_half(): every row of keys is mirrored.
RightHalf(code) ==
    CASE code \in 2..6 -> 13 - code         \* 1..5, 0..6
      [] code \in 16..20 -> 41 - code       \* Q..T, P..Y
      [] code \in 30..34 -> 69 - code       \* A..G, semicolon..H
      [] code \in 44..47 -> 95 - code       \* Z..V, comma..B
      [] code = KEY_GRAVE -> 12             \* minus
      [] code = KEY_SPACE -> 14             \* backspace
      [] OTHER -> code

LayoutRightHalf(e) ==
    /\ Lays(e) /\ e.type = "KEY" /\ priv.layout_switch = "RIGHT_HALF"
    /\ UNCHANGED priv
    /\ Passes(e, [e EXCEPT !.code = RightHalf(@)])

\* The keys of layout_special(), without and with shift.
Special ==
    KEY_S :> <<105, 104>>           \* left, page up
    @@ KEY_D :> <<108, 107>>        \* down, end
    @@ KEY_F :> <<106, 109>>        \* right, page down
    @@ KEY_E :> <<103, 102>>        \* up, home
    @@ KEY_SPACE :> <<28, 28>>      \* enter

LayoutSpecial(e) ==
    /\ Lays(e) /\ e.type = "KEY" /\ priv.layout_switch = "SPECIAL"
    /\ IF e.code = KEY_LEFTSHIFT
       THEN /\ priv' = [priv EXCEPT !.shift_on = (e.value # 0)]
            /\ GetsNothing(e)
            /\ Other
       ELSE /\ UNCHANGED priv
            /\ Passes(e, IF e.code \notin DOMAIN Special THEN e
                         ELSE [e EXCEPT !.code =
                                  Special[@][IF priv.shift_on THEN 2 ELSE 1]])

\* The axis and the direction of a movement key.
Direction ==
    KEY_S :> <<REL_X, -1>> @@ KEY_F :> <<REL_X, 1>>
    @@ KEY_D :> <<REL_Y, 1>> @@ KEY_E :> <<REL_Y, -1>>

AcceleratedPast(accel, value) ==    \* mutant: the limit is passed
    CASE value = 0 -> 1
      [] value = 2 -> IF accel <= MaxAccel THEN accel + 1 ELSE MaxAccel
      [] OTHER -> accel

\* mouse_accel_x() and mouse_accel_y().
Accelerated(accel, value) ==
    CASE value = 0 -> 1
      [] value = 2 -> IF accel < MaxAccel THEN accel + 1 ELSE MaxAccel
      [] OTHER -> accel

LayoutMouse(e) ==
    /\ Lays(e) /\ e.type = "KEY" /\ priv.layout_switch = "MOUSE"
    /\ IF e.code \in DOMAIN Direction
       THEN LET axis == Direction[e.code][1]
            IN  /\ priv' = [priv EXCEPT !.accel[axis] = Accelerated(@, e.value)]
                /\ Passes(e, RelEv(axis, Direction[e.code][2] * priv'.accel[axis]))
       ELSE /\ UNCHANGED priv
            /\ Passes(e, IF e.code = KEY_SPACE
                         THEN [e EXCEPT !.code = BTN_LEFT] ELSE e)

HalfQwerty(e) ==
    \/ Toggle(e) \/ ToggleEnds(e) \/ Disabled(e)
    \/ Modifier(e) \/ Modified(e)
    \/ PassedOn(e) \/ LayoutRightHalf(e) \/ LayoutSpecial(e) \/ LayoutMouse(e)
=============================================================================
