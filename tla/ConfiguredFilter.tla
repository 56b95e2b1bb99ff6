-------------------------- MODULE ConfiguredFilter --------------------------
(***************************************************************************)
(* A filter from its configuration to its end, as src/src/tests/test.c     *)
(* runs it: the loader has it made by from_json(), which looks up the      *)
(* names of keys in the configuration, the events of a device go through   *)
(* it, and it is freed.                                                    *)
(***************************************************************************)
EXTENDS KeyParser, HalfQwerty, KeyMap, Abs2Rel

CONSTANT Confs
    \* the configurations: kind of filter, names of keys in the order they are
    \* looked up, the settings that json-c finds (for key_map its names are the
    \* settings), and, of the device, its keys and whether it can be touched

ASSUME ConfsAssumption == \A c \in Confs : c.names \in Seq(Int)

VARIABLES
    pc,         \* "from_json", "refused", "run", "freed", or "undefined": the
                \* program has followed a pointer that was not set
    codes       \* the codes looked up so far

vars == <<conf, pc, codes, priv, device, consumer, parser>>

\* filters_ops[], the loader's table.
FiltersOps ==
    {"key_lock", "no_repeat", "btn2rel", "abs2rel", "barrier", "dump", "kalman",
     "key_map", "to_pipe", "filter_to_pipe", "from_pipe", "rel2scroll", "half_qwerty"}

\* Filters whose operations are not set: left zero, left as malloc() gave them,
\* or those of another filter, for which type and code are a pointer.
NullOps == {"rel2scroll"}
WildOps == {"to_pipe"}
WrongOps == {"filter_to_pipe"}
WithoutOps == NullOps \cup WildOps \cup WrongOps

Init ==
    /\ conf \in Confs
    /\ pc = "from_json"
    /\ codes = << >>
    /\ priv = << >>
    /\ ParserInit
    /\ LineInit

-----------------------------------------------------------------------------
(* from_json()                                                             *)

Loads ==
    /\ pc = "from_json"
    /\ UNCHANGED <<conf, device, consumer>>

NotFound == \E i \in DOMAIN codes : codes[i] = -1

\* What each from_json() refuses.  key_map looks at what it got when it has both
\* names of an entry.
KeyMapRefuses == NotFound /\ Len(codes) % 2 = 0
HalfQwertyRefuses == conf.json # {}
Abs2RelRefuses == conf.json # {}
DumpRefuses == ~(conf.json \subseteq {"file", "prefix"})
ToPipeRefuses == conf.json # {"pipe"}
FilterToPipeRefuses == conf.json \notin {{"pipe"}, {"pipe", "type"}}
Rel2ScrollRefuses ==
    \/ ~(conf.json \subseteq {"trigger_key", "xmod", "ymod"})
    \/ "trigger_key" \notin conf.json
    \/ NotFound

\* filter_from_json() knows the filter, which knows what it finds.
Refused ==
    \/ conf.kind \notin FiltersOps
    \/ conf.kind = "key_map" /\ KeyMapRefuses
    \/ conf.kind = "half_qwerty" /\ HalfQwertyRefuses
    \/ conf.kind = "abs2rel" /\ Abs2RelRefuses
    \/ conf.kind = "dump" /\ DumpRefuses
    \/ conf.kind = "to_pipe" /\ ToPipeRefuses
    \/ conf.kind = "filter_to_pipe" /\ FilterToPipeRefuses
    \/ conf.kind = "rel2scroll" /\ Rel2ScrollRefuses

Refuse ==
    /\ Loads
    /\ Refused
    /\ pc' = "refused"
    /\ UNCHANGED <<codes, priv, parser>>

Ask ==
    /\ Loads
    /\ ~Refused
    /\ Len(codes) < Len(conf.names)
    /\ Getkey(conf.names[Len(codes) + 1])
    /\ UNCHANGED <<pc, codes, priv>>

Search ==
    /\ Loads
    /\ Found \/ Narrow
    /\ UNCHANGED <<pc, codes, priv>>

Answer ==
    /\ Loads
    /\ Taken
    /\ codes' = Append(codes, key)
    /\ UNCHANGED <<pc, priv>>

\* The filter is allocated, with what evf_filter_alloc() has zeroed set.
Alloc ==
    /\ Loads
    /\ ~Refused
    /\ Len(codes) = Len(conf.names)
    /\ search = "none"
    /\ pc' = "run"
    /\ priv' = CASE conf.kind = "half_qwerty" -> HalfQwertyAlloc
                 [] conf.kind = "key_map" -> KeyMapAlloc(codes)
                 [] conf.kind = "abs2rel" -> Abs2RelAlloc
                 [] OTHER -> << >>
    /\ UNCHANGED <<codes, parser>>

\* There is no memory for it, or dump cannot open its file.  map_alloc() of
\* key_map does not look whether it got its memory.
AllocFails ==
    /\ Loads
    /\ ~Refused
    /\ Len(codes) = Len(conf.names)
    /\ search = "none"
    /\ pc' \in {"refused"} \cup (IF conf.kind = "key_map" THEN {"undefined"} ELSE {})
    /\ UNCHANGED <<codes, priv, parser>>

-----------------------------------------------------------------------------
(* The events of the device, and the end.                                  *)

\* dump_process() prints the event.
DumpEvent(e) == UNCHANGED priv /\ Passes(e, e)

Handles(e) ==
    \/ conf.kind = "half_qwerty" /\ HalfQwerty(e)
    \/ conf.kind = "key_map" /\ MapEvent(e)
    \/ conf.kind = "abs2rel" /\ ConvertEvent(e)
    \/ conf.kind = "dump" /\ DumpEvent(e)

Process(e) ==
    /\ pc = "run"
    /\ IF conf.kind \in WithoutOps
       THEN pc' = "undefined" /\ UNCHANGED <<priv, consumer>>
       ELSE Handles(e) /\ UNCHANGED pc
    /\ UNCHANGED <<conf, codes, parser>>

ReadKey == \E k \in conf.keys, value \in 0..2 : Key(k, value) /\ Process(KeyEv(k, value))
ReadPosition ==
    \E a \in Axes, p \in 0..MaxPosition : Touch(a, p) /\ Process(AbsEv(a, p))
ReadPressure == \E p \in 0..1 : Pressure(p) /\ Process(AbsEv(ABS_PRESSURE, p))
ReadSync == Sync /\ Process(SynEv(0))

\* evf_filter_free()
Free ==
    /\ pc = "run"
    /\ pc' = (IF conf.kind \in WithoutOps THEN "undefined" ELSE "freed")
    /\ priv' = << >>
    /\ UNCHANGED <<conf, codes, device, consumer, parser>>

Next ==
    \/ Refuse \/ Ask \/ Search \/ Answer \/ Alloc \/ AllocFails
    \/ ReadKey \/ ReadPosition \/ ReadPressure \/ ReadSync
    \/ Free

Spec == Init /\ [][Next]_vars

-----------------------------------------------------------------------------
(* Properties.                                                             *)

Runs(kind) == pc = "run" /\ conf.kind = kind

TypeOK ==
    /\ conf \in Confs
    /\ pc \in {"from_json", "refused", "run", "freed", "undefined"}
    /\ codes \in Seq(Nat \cup {-1})
    /\ Len(codes) <= Len(conf.names)
    /\ ParserTypeOK
    /\ search # "none" => pc = "from_json" /\ Len(codes) < Len(conf.names)
    /\ down \subseteq conf.keys
    /\ held_long => KEY_CAPSLOCK \in down
    /\ frame \in 0..MaxFrame
    /\ mixed \subseteq conf.keys \ {KEY_CAPSLOCK}
    /\ open \in BOOLEAN
    /\ Runs("half_qwerty") =>
           /\ priv.layout_switch \in {"LEFT_HALF", "RIGHT_HALF", "SPECIAL", "MOUSE"}
           /\ priv.caps_mod \in (conf.keys \ {KEY_CAPSLOCK}) \cup {0}
           /\ priv.accel \in [Axes -> 1..MaxAccel]
           /\ priv.enabled_changed => KEY_CAPSLOCK \in down

\* What the consumer holds down for a key goes up with the key, whatever the
\* filter made of its press: long presses of caps lock and the burst that
\* enables half_qwerty included.  Only when half_qwerty changed the meaning of
\* a key that was down may it not.
KeysReleased == \A p \in told : p[1] \in down \/ p[1] \in mixed

\* When a frame of the device has ended, so has the consumer's, unless
\* half_qwerty eats everything, or abs2rel has made another code of SYN_REPORT.
FramesEnd ==
    frame = 0 /\ open /\ pc = "run" =>
        \/ Runs("half_qwerty") /\ priv.enabled /\ priv.caps_on
        \/ Runs("abs2rel") /\ priv.state[ABS_Y] = 2

\* Every move abs2rel sends is the way between two positions of one touch, and
\* never the jump from where the last one ended.
NoJump ==
    \A m \in moved :
        LET s == samples[m.axis]
        IN  Len(s) = 2 /\ m.value = s[2] - s[1]

\* A key_map filter remaps keys (src/src/filters/key_map.c:156): those of its
\* configuration, to the keys it names.
RemapsKeys ==
    Runs("key_map") =>
        \A p \in told :
            LET entries == SelectSeq(priv.keys, LAMBDA k : k.key_from = p[1])
            IN  p[2] = IF entries = << >> THEN p[1] ELSE Head(entries).key_to
=============================================================================
