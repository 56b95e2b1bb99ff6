--------------------------- MODULE MCFilterLine ---------------------------
(***************************************************************************)
(* FilterLine for TLC: every filter alone and every two filters in either  *)
(* order, on a device with three keys and a pressure.  Two key_lock and    *)
(* three pressure_to_key filters share a key, also with the device and     *)
(* with btn2rel, or do not; one btn2rel has its button configured, the     *)
(* other, like src/src/tests/btn2rel.json, has not.                        *)
(***************************************************************************)
EXTENDS FilterLine

KEY_Q == 16
KEY_W == 17
KEY_UP == 103

MCKey == {KEY_Q, KEY_W, KEY_UP}

Filters ==
    {[kind |-> "key_lock", key |-> k] : k \in {KEY_Q, KEY_W}}
    \cup {[kind |-> "no_repeat"]}
    \cup {[kind |-> "btn2rel", key_up |-> KEY_UP, key_left |-> KEY_W, left_btn |-> b] :
              b \in {0, KEY_Q}}
    \cup {[kind |-> "pressure_to_key", key |-> KEY_Q, treshold |-> t] : t \in {1, -2}}
    \cup {[kind |-> "pressure_to_key", key |-> BTN_LEFT, treshold |-> 1]}

MCChains ==
    {<<f>> : f \in Filters} \cup {<<f, g>> : f \in Filters, g \in Filters}
=============================================================================
