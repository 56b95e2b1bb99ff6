------------------------- MODULE MCConfiguredFilter -------------------------
(***************************************************************************)
(* ConfiguredFilter for TLC, with the real tables: a key_map of one entry  *)
(* for every name of the table, to that name and from it, and of two       *)
(* entries; half_qwerty with caps lock and two of the keys it knows, so    *)
(* that each of its layouts can be chosen; the filters that need no names, *)
(* and those that are refused.                                             *)
(***************************************************************************)
EXTENDS ConfiguredFilter

Table == INSTANCE KeyTable

MCKeyCount == Table!table_count
MCKeyNames == Table!table_names
MCKeyValues == Table!table_values

Conf(kind, names, keys) ==
    [kind |-> kind, names |-> names, json |-> {}, keys |-> keys, touch |-> FALSE]

\* A name of the table by its place there, and one that it has not.
Name(i) == MCKeyNames[i]
Unknown == 101

Places == 0..MCKeyCount - 1
Code(i) == MCKeyValues[i]

\* Key_A 30, Key_B 48, Key_Enter 28, Key_Leftbrace 26.
A == 78
B == 88
Enter == 158
Leftbrace == 273

KeyMaps ==
    {Conf("key_map", <<Name(i), Name(A)>>, {Code(i)}) : i \in Places}
    \cup {Conf("key_map", <<Name(A), Name(i)>>, {Code(A)}) : i \in Places}
    \cup {Conf("key_map", <<Name(A), Name(B), Name(i), Name(j)>>,
               {Code(A), Code(i), Code(Enter)}) :
              i \in {A, B, Enter, Leftbrace}, j \in {A, Leftbrace}}
    \cup {Conf("key_map", << >>, {30}), Conf("key_map", <<Name(A), Unknown>>, {30})}

HalfQwertys ==
    {Conf("half_qwerty", << >>, {KEY_CAPSLOCK} \cup keys) :
        keys \in {{KEY_F, KEY_LEFTSHIFT}, {KEY_D, KEY_SPACE}, {KEY_D, KEY_F},
                  {KEY_F, KEY_E}}}

With(json, c) == [c EXCEPT !.json = json]

Others ==
    {[Conf("abs2rel", << >>, {330}) EXCEPT !.touch = TRUE],     \* BTN_TOUCH
     With({"file"}, Conf("dump", << >>, {30})),
     With({"trigger_key", "xmod"}, Conf("rel2scroll", <<Name(A)>>, {30})),
     With({"trigger_key"}, Conf("rel2scroll", <<Unknown>>, {30})),
     With({"pipe"}, Conf("to_pipe", << >>, {30})),
     With({"pipe", "type"}, Conf("filter_to_pipe", << >>, {30}))}
    \cup {With({"speed"}, Conf(kind, << >>, {30})) :
              kind \in {"abs2rel", "dump", "to_pipe", "filter_to_pipe", "rel2scroll",
                        "half_qwerty", "rotate"}}

MCConfs == KeyMaps \cup HalfQwertys \cup Others
=============================================================================
