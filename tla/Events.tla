------------------------------- MODULE Events -------------------------------
(***************************************************************************)
(* struct input_event and the codes of linux/input.h the filters know.     *)
(***************************************************************************)
EXTENDS Integers

REL_X == 0
REL_Y == 1
ABS_X == 0
ABS_Y == 1
ABS_PRESSURE == 24
KEY_CAPSLOCK == 58
BTN_LEFT == 272

KeyEv(code, value) == [type |-> "KEY", code |-> code, value |-> value]
RelEv(code, value) == [type |-> "REL", code |-> code, value |-> value]
AbsEv(code, value) == [type |-> "ABS", code |-> code, value |-> value]
SynEv(value) == [type |-> "SYN", code |-> 0, value |-> value]

\* A key event with the given value: 0 for a release, 1 a press, 2 a repeat.
IsKey(e, value) == e.type = "KEY" /\ e.value = value

\* A SYN_REPORT of value 0; the kernel's own key repeats end with value 1.
IsSync(e) == e.type = "SYN" /\ e.value = 0
=============================================================================
