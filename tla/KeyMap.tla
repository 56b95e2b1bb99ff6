------------------------------- MODULE KeyMap -------------------------------
(***************************************************************************)
(* src/src/filters/key_map.c: a list of keys, and a bit map to tell keys   *)
(* that are not in the list without searching it.                          *)
(***************************************************************************)
EXTENDS OneFilter

\* The bits of key%8: the code takes the number for the bit itself.
Bits(key) == {b \in 0..2 : ((key % 8) \div 2^b) % 2 = 1}

\* MAP_SIZE()
MapSize(key) == key \div 8 + (IF key % 8 = 0 THEN 0 ELSE 1)

\* map_alloc(): the bytes of the map, as sets of bits.
MapAlloc(keys) ==
    [byte \in {n \in 0..127 : \E k \in keys : n < MapSize(k)} |->
        UNION {Bits(k) : k \in {x \in keys : x \div 8 = byte}}]

\* bit_map_get()
BitMapGet(map, key) ==
    key \div 8 \in DOMAIN map /\ map[key \div 8] \cap Bits(key) # {}

\* evf_key_map_alloc(), for the keys from_json() has looked up in turn.
KeyMapAlloc(codes) ==
    [map |-> MapAlloc({codes[i] : i \in {j \in DOMAIN codes : j % 2 = 1}}),
     keys |-> [i \in 1..Len(codes) \div 2 |->
                  [key_from |-> codes[2 * i - 1], key_to |-> codes[2 * i]]]]

\* map_key(): the first entry of the key counts; a key that has none becomes 0.
MapKey(keys, code) ==
    LET found == SelectSeq(keys, LAMBDA k : k.key_from = code)
    IN  IF found = << >> THEN 0 ELSE Head(found).key_to

\* key_map_process()
MapEvent(e) ==
    /\ UNCHANGED priv
    /\ Passes(e, IF e.type = "KEY" /\ BitMapGet(priv.map, e.code)
                 THEN [e EXCEPT !.code = MapKey(priv.keys, @)] ELSE e)
=============================================================================
