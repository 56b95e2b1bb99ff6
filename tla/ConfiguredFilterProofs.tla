----------------------- MODULE ConfiguredFilterProofs -----------------------
(***************************************************************************)
(* Proofs about ConfiguredFilter, for every table of keys and all          *)
(* configurations.                                                         *)
(***************************************************************************)
EXTENDS ConfiguredFilter, KeyParserProofs, SequenceTheorems, TLAPS

-----------------------------------------------------------------------------
(* The inductive invariant.                                                *)

\* What a layout of half_qwerty makes of the key k: nothing that stays down of
\* the keys that move the pointer, and of shift where it chooses the cursor keys.
Laid(layout, shift_on, k) ==
    CASE layout = "RIGHT_HALF" -> {RightHalf(k)}
      [] layout = "SPECIAL" ->
             IF k = KEY_LEFTSHIFT THEN {}
             ELSE IF k \notin DOMAIN Special THEN {k}
             ELSE {Special[k][IF shift_on THEN 2 ELSE 1]}
      [] layout = "MOUSE" ->
             IF k \in DOMAIN Direction THEN {}
             ELSE IF k = KEY_SPACE THEN {BTN_LEFT} ELSE {k}
      [] OTHER -> {k}

\* The codes that the consumer may hold down for the key k when it goes up.
Meanings(k) ==
    IF conf.kind = "key_map"
    THEN {IF BitMapGet(priv.map, k) THEN MapKey(priv.keys, k) ELSE k}
    ELSE IF conf.kind = "half_qwerty" /\ priv.enabled
    THEN Laid(priv.layout_switch, priv.shift_on, k)
    ELSE {k}

HalfQwertyType ==
    /\ priv = [enabled |-> priv.enabled, enabled_changed |-> priv.enabled_changed,
               layout_switch |-> priv.layout_switch, caps_mod |-> priv.caps_mod,
               caps_on |-> priv.caps_on, shift_on |-> priv.shift_on,
               accel |-> priv.accel]
    /\ priv.enabled \in BOOLEAN
    /\ priv.enabled_changed \in BOOLEAN
    /\ priv.caps_on \in BOOLEAN
    /\ priv.layout_switch \in {"LEFT_HALF", "RIGHT_HALF", "SPECIAL", "MOUSE"}

NothingTold ==
    pc = "from_json" \/ (pc = "run" /\ conf.kind \in WithoutOps) => told = {}

\* The present meaning of a key is the one of its press, or it is in mixed.
MeaningKept ==
    pc = "run" => \A p \in told : p[1] \in mixed \/ p[2] \in Meanings(p[1])

\* The consumer has been told that caps lock is up before the filter eats it.
CapsUp ==
    Runs("half_qwerty") =>
        /\ priv.enabled_changed => KEY_CAPSLOCK \in down
        /\ priv.enabled \/ priv.enabled_changed => \A p \in told : p[1] # KEY_CAPSLOCK

\* While everything is eaten no key has the meaning of its press.
AllMixed ==
    Runs("half_qwerty") /\ priv.enabled /\ priv.caps_on =>
        \A p \in told : p[1] \in mixed

KeysInv ==
    /\ KeysReleased
    /\ NothingTold
    /\ MeaningKept
    /\ CapsUp
    /\ AllMixed
    /\ KEY_CAPSLOCK \notin mixed
    /\ Runs("half_qwerty") => HalfQwertyType

-----------------------------------------------------------------------------
(* What the consumer holds down, after each kind of step.                  *)

\* The pairs of the consumer are of keys that are down with their present meaning,
\* or of mixed ones.
TellsMeanings == \A p \in told : p[1] \in mixed \/ p[2] \in Meanings(p[1])

\* The code of a key has been replaced by its meaning.
LEMMA KeyPassed ==
    ASSUME KeysReleased, TellsMeanings,
           NEW k, NEW value \in 0..2, NEW c, Key(k, value),
           Passes(KeyEv(k, value), [KeyEv(k, value) EXCEPT !.code = c]),
           Meanings(k) = {c},
           \A j : Meanings(j)' = Meanings(j)
    PROVE  KeysReleased' /\ TellsMeanings'
  <1>1. /\ told' = Holds(Before(KeyEv(k, value)), k, [KeyEv(k, value) EXCEPT !.code = c])
        /\ mixed' = IF value = 1 THEN mixed \ {k} ELSE mixed
    BY DEF Passes, Gets, Same, KeyEv, IsKey
  <1>2. Before(KeyEv(k, value)) =
            IF value = 1 /\ k \in mixed THEN {p \in told : p[1] # k} ELSE told
    BY DEF Before, KeyEv, IsKey
  <1>3. \A pairs : Holds(pairs, k, [KeyEv(k, value) EXCEPT !.code = c]) =
            IF value = 1 THEN pairs \cup {<<k, c>>}
            ELSE IF value = 0 THEN {p \in pairs : p[2] # c} ELSE pairs
    BY DEF Holds, KeyEv, IsKey
  <1>4. /\ (k \in down) = (value # 1)
        /\ down' = IF value = 0 THEN down \ {k} ELSE down \cup {k}
    BY DEF Key
  <1> SUFFICES ASSUME NEW p \in told'
               PROVE  /\ p[1] \in down' \/ p[1] \in mixed'
                      /\ p[1] \in mixed' \/ p[2] \in Meanings(p[1])
    BY DEF KeysReleased, TellsMeanings
  <1>5. CASE value = 1
    <2>1. CASE p = <<k, c>>
      BY <2>1, <1>4, <1>5
    <2>2. CASE p \in told /\ p[1] # k
      BY <2>2, <1>1, <1>4, <1>5 DEF KeysReleased, TellsMeanings
    <2> QED BY <2>1, <2>2, <1>1, <1>2, <1>3, <1>4, <1>5 DEF KeysReleased
  <1>6. CASE value = 0
    <2>1. p \in told /\ p[2] # c
      BY <1>1, <1>2, <1>3, <1>6
    <2> QED BY <2>1, <1>1, <1>4, <1>6 DEF KeysReleased, TellsMeanings
  <1>7. CASE value = 2
    BY <1>1, <1>2, <1>3, <1>4, <1>7 DEF KeysReleased, TellsMeanings
  <1> QED BY <1>5, <1>6, <1>7

\* The consumer is told nothing of the key, and what it holds down for it, if
\* anything, is of another meaning.
LEMMA KeyHidden ==
    ASSUME KeysReleased, TellsMeanings,
           NEW k, NEW value \in 0..2, Key(k, value),
           told' = Before(KeyEv(k, value)), Same(KeyEv(k, value)),
           \A p \in told : p[1] = k => k \in mixed,
           \A j : Meanings(j)' = Meanings(j)
    PROVE  KeysReleased' /\ TellsMeanings'
  <1>1. mixed' = IF value = 1 THEN mixed \ {k} ELSE mixed
    BY DEF Same, KeyEv, IsKey
  <1>2. told' = IF value = 1 /\ k \in mixed THEN {p \in told : p[1] # k} ELSE told
    BY DEF Before, KeyEv, IsKey
  <1>3. down' = IF value = 0 THEN down \ {k} ELSE down \cup {k}
    BY DEF Key
  <1> QED BY <1>1, <1>2, <1>3 DEF KeysReleased, TellsMeanings

\* The keys have got other meanings: those that are down are mixed.
LEMMA KeysMixed ==
    ASSUME KeysReleased, NEW k, NEW value \in 0..2, Key(k, value), Other,
           told' \subseteq told,
           \A p \in told' : /\ p[1] # KEY_CAPSLOCK
                            /\ p[1] = k /\ value = 0 => k \in mixed
    PROVE  KeysReleased' /\ \A p \in told' : p[1] \in mixed'
  <1>1. down' = IF value = 0 THEN down \ {k} ELSE down \cup {k}
    BY DEF Key
  <1> QED BY <1>1 DEF KeysReleased, Other

\* Events of other types tell the consumer of no key.
LEMMA NoKey ==
    ASSUME KeysReleased, TellsMeanings, NEW e, NEW out,
           e.type # "KEY", out.type # "KEY", UNCHANGED down,
           Passes(e, out) \/ Eats(e),
           \A j : Meanings(j)' = Meanings(j)
    PROVE  KeysReleased' /\ TellsMeanings' /\ UNCHANGED <<told, mixed>>
  <1>1. told' = told /\ mixed' = mixed
    BY DEF Passes, Gets, Eats, GetsNothing, Same, Before, Holds, IsKey
  <1> QED BY <1>1 DEF KeysReleased, TellsMeanings

-----------------------------------------------------------------------------
(* half_qwerty.                                                            *)

\* Meanings stay when nothing they depend on changes.
LEMMA SameMeanings ==
    ASSUME conf' = conf,
           \/ priv' = priv
           \/ /\ conf.kind = "half_qwerty"
              /\ priv'.enabled = priv.enabled
              /\ priv'.layout_switch = priv.layout_switch
              /\ priv'.shift_on = priv.shift_on
           \/ conf.kind \notin {"half_qwerty", "key_map"}
    PROVE  \A j : Meanings(j)' = Meanings(j)
  <1>1. CASE priv' = priv
    BY <1>1 DEF Meanings
  <1>2. CASE /\ conf.kind = "half_qwerty"
             /\ priv'.enabled = priv.enabled
             /\ priv'.layout_switch = priv.layout_switch
             /\ priv'.shift_on = priv.shift_on
    BY <1>2 DEF Meanings
  <1>3. CASE conf.kind \notin {"half_qwerty", "key_map"}
    BY <1>3 DEF Meanings
  <1> QED BY <1>1, <1>2, <1>3

\* A key event is the one of its own code.
LEMMA OwnCode == ASSUME NEW k, NEW value
                 PROVE  [KeyEv(k, value) EXCEPT !.code = k] = KeyEv(k, value)
  BY DEF KeyEv

\* The parts of KeysInv that half_qwerty alone has to keep.
HalfQwertyKeysInv ==
    /\ priv.enabled_changed => KEY_CAPSLOCK \in down
    /\ priv.enabled \/ priv.enabled_changed => \A p \in told : p[1] # KEY_CAPSLOCK
    /\ priv.enabled /\ priv.caps_on => \A p \in told : p[1] \in mixed
    /\ KEY_CAPSLOCK \notin mixed
    /\ HalfQwertyType

\* A key that half_qwerty passes on, with its meaning, while caps lock is no
\* modifier.
LEMMA PassedKeeps ==
    ASSUME KeysReleased, TellsMeanings, HalfQwertyKeysInv,
           NEW k, NEW value \in 0..2, NEW c, Key(k, value),
           Passes(KeyEv(k, value), [KeyEv(k, value) EXCEPT !.code = c]),
           Meanings(k) = {c}, UNCHANGED <<conf, priv>>,
           ~(priv.enabled /\ priv.caps_on),
           k = KEY_CAPSLOCK => ~priv.enabled /\ ~(priv.enabled_changed /\ value = 0)
    PROVE  KeysReleased' /\ TellsMeanings' /\ HalfQwertyKeysInv'
  <1>1. \A j : Meanings(j)' = Meanings(j)
    BY SameMeanings
  <1>2. KeysReleased' /\ TellsMeanings'
    BY <1>1, KeyPassed
  <1>3. /\ mixed' \subseteq mixed
        /\ down' = IF value = 0 THEN down \ {k} ELSE down \cup {k}
        /\ (k \in down) = (value # 1)
        /\ told' \subseteq told \cup (IF value = 1 THEN {<<k, c>>} ELSE {})
    BY DEF Passes, Gets, Same, Holds, Before, Key, KeyEv, IsKey
  <1>4. priv.enabled_changed => KEY_CAPSLOCK \in down'
    BY <1>3 DEF HalfQwertyKeysInv
  <1>5. priv.enabled \/ priv.enabled_changed => \A p \in told' : p[1] # KEY_CAPSLOCK
    BY <1>3 DEF HalfQwertyKeysInv
  <1> QED BY <1>2, <1>3, <1>4, <1>5 DEF HalfQwertyKeysInv, HalfQwertyType

\* What half_qwerty keeps when the keys that are down become mixed ones.
LEMMA MixedKeeps ==
    ASSUME KeysReleased, HalfQwertyKeysInv,
           NEW k, NEW value \in 0..2, Key(k, value), Other, told' \subseteq told,
           \A p \in told' : /\ p[1] # KEY_CAPSLOCK
                            /\ p[1] = k /\ value = 0 => k \in mixed,
           HalfQwertyType',
           priv'.enabled_changed => KEY_CAPSLOCK \in down'
    PROVE  KeysReleased' /\ TellsMeanings' /\ HalfQwertyKeysInv'
  <1>1. KeysReleased' /\ \A p \in told' : p[1] \in mixed'
    BY KeysMixed
  <1>2. KEY_CAPSLOCK \notin mixed'
    BY DEF Other, HalfQwertyKeysInv
  <1> QED BY <1>1, <1>2 DEF HalfQwertyKeysInv, TellsMeanings

\* Caps lock has been down for long.
LEMMA ToggleKeeps ==
    ASSUME KeysReleased, TellsMeanings, HalfQwertyKeysInv, conf.kind = "half_qwerty",
           NEW k, NEW value \in 0..2, Key(k, value), Toggle(KeyEv(k, value))
    PROVE  KeysReleased' /\ TellsMeanings' /\ HalfQwertyKeysInv'
  <1>1. k = KEY_CAPSLOCK /\ value = 2
    BY DEF Toggle, Toggles, Caps, KeyEv
  <1>2. /\ Other
        /\ priv' = [priv EXCEPT !.enabled = ~@, !.enabled_changed = TRUE]
    BY DEF Toggle
  <1>3. HalfQwertyType'
    BY <1>2 DEF HalfQwertyKeysInv, HalfQwertyType
  <1>4. KEY_CAPSLOCK \in down'
    BY <1>1 DEF Key
  <1>5. told' \subseteq told /\ \A p \in told' : p[1] # KEY_CAPSLOCK
    <2>1. CASE priv.enabled
      <3>1. told' = told
        BY <2>1, <1>1 DEF Toggle, GetsNothing, Before, IsKey, KeyEv
      <3> QED BY <3>1, <2>1 DEF HalfQwertyKeysInv
    <2>2. CASE ~priv.enabled
      <3>1. \A pairs, c : Holds(pairs, c, KeyEv(c, 0)) = {p \in pairs : p[2] # c}
        BY DEF Holds, IsKey, KeyEv
      <3>2. \A pairs, c : Holds(pairs, c, KeyEv(c, 1)) = pairs \cup {<<c, c>>}
        BY DEF Holds, IsKey, KeyEv
      <3>3. told' = Holds(Holds(Holds(told, k, KeyEv(k, 0)), k, KeyEv(k, 1)),
                          k, KeyEv(k, 0))
        BY <2>2, <1>1 DEF Toggle, KeyEv
      <3>4. told' = {p \in told : p[2] # k}
        BY <3>1, <3>2, <3>3
      <3>5. \A p \in told : p[1] = KEY_CAPSLOCK => p[2] = KEY_CAPSLOCK
        BY <2>2 DEF TellsMeanings, Meanings, HalfQwertyKeysInv
      <3> QED BY <3>4, <3>5, <1>1
    <2> QED BY <2>1, <2>2
  <1> QED BY <1>1, <1>2, <1>3, <1>4, <1>5, MixedKeeps

\* Caps lock goes up after that.
LEMMA ToggleEndsKeeps ==
    ASSUME KeysReleased, TellsMeanings, HalfQwertyKeysInv, UNCHANGED conf,
           conf.kind = "half_qwerty",
           NEW k, NEW value \in 0..2, Key(k, value), ToggleEnds(KeyEv(k, value))
    PROVE  KeysReleased' /\ TellsMeanings' /\ HalfQwertyKeysInv'
  <1>1. k = KEY_CAPSLOCK /\ value = 0 /\ priv.enabled_changed
    BY DEF ToggleEnds, Ends, Caps, KeyEv
  <1>2. /\ told' = Before(KeyEv(k, value)) /\ Same(KeyEv(k, value))
        /\ priv' = [priv EXCEPT !.enabled_changed = FALSE]
    BY DEF ToggleEnds, Eats, GetsNothing
  <1>3. HalfQwertyType' /\ ~priv'.enabled_changed
    BY <1>2 DEF HalfQwertyKeysInv, HalfQwertyType
  <1>4. /\ priv'.enabled = priv.enabled
        /\ priv'.caps_on = priv.caps_on
        /\ priv'.layout_switch = priv.layout_switch
        /\ priv'.shift_on = priv.shift_on
    BY <1>2 DEF HalfQwertyKeysInv, HalfQwertyType
  <1>5. \A j : Meanings(j)' = Meanings(j)
    BY <1>4, SameMeanings
  <1>6. \A p \in told : p[1] # k
    BY <1>1 DEF HalfQwertyKeysInv
  <1>7. KeysReleased' /\ TellsMeanings'
    BY <1>2, <1>5, <1>6, KeyHidden
  <1>8. told' = told /\ mixed' = mixed
    BY <1>1, <1>2 DEF Before, Same, IsKey, KeyEv
  <1> QED BY <1>3, <1>4, <1>7, <1>8 DEF HalfQwertyKeysInv

\* Caps lock as the modifier.
LEMMA ModifierKeeps ==
    ASSUME KeysReleased, TellsMeanings, HalfQwertyKeysInv, conf.kind = "half_qwerty",
           NEW k, NEW value \in 0..2, Key(k, value), Modifier(KeyEv(k, value))
    PROVE  KeysReleased' /\ TellsMeanings' /\ HalfQwertyKeysInv'
  <1>1. /\ k = KEY_CAPSLOCK /\ priv.enabled /\ Other
        /\ value = 0 => ~priv.enabled_changed
        /\ told' = Before(KeyEv(k, value))
    BY DEF Modifier, Ends, Caps, KeyEv, GetsNothing
  <1>2. /\ value = 1 => priv' = [priv EXCEPT !.caps_on = TRUE]
        /\ value = 2 => priv' = priv
        /\ value = 0 => priv' = [priv EXCEPT !.caps_on = FALSE, !.caps_mod = 0,
                                            !.layout_switch = Chosen]
    BY DEF Modifier, KeyEv
  <1>3. Chosen \in {"LEFT_HALF", "RIGHT_HALF", "SPECIAL", "MOUSE"}
    BY DEF Chosen
  <1>4. HalfQwertyType' /\ priv'.enabled_changed = priv.enabled_changed
    <2>0. HalfQwertyType
      BY DEF HalfQwertyKeysInv
    <2>1. CASE value = 0
      BY <2>0, <2>1, <1>2, <1>3 DEF HalfQwertyType
    <2>2. CASE value = 1
      BY <2>0, <2>2, <1>2 DEF HalfQwertyType
    <2>3. CASE value = 2
      BY <2>0, <2>3, <1>2 DEF HalfQwertyType
    <2> QED BY <2>1, <2>2, <2>3
  <1>5. priv'.enabled_changed => KEY_CAPSLOCK \in down'
    BY <1>1, <1>4 DEF HalfQwertyKeysInv, Key
  <1>6. told' = told
    BY <1>1 DEF Before, IsKey, KeyEv, HalfQwertyKeysInv
  <1>7. \A p \in told' : p[1] # KEY_CAPSLOCK
    BY <1>1, <1>6 DEF HalfQwertyKeysInv
  <1> QED BY <1>1, <1>4, <1>5, <1>6, <1>7, MixedKeeps

\* A key while caps lock is down.
LEMMA ModifiedKeeps ==
    ASSUME KeysReleased, TellsMeanings, HalfQwertyKeysInv, UNCHANGED conf,
           conf.kind = "half_qwerty",
           NEW k, NEW value \in 0..2, Key(k, value), Modified(KeyEv(k, value))
    PROVE  KeysReleased' /\ TellsMeanings' /\ HalfQwertyKeysInv'
  <1>1. /\ priv.enabled /\ priv.caps_on /\ k # KEY_CAPSLOCK
        /\ told' = Before(KeyEv(k, value)) /\ Same(KeyEv(k, value))
        /\ priv' = IF value = 1 THEN [priv EXCEPT !.caps_mod = k] ELSE priv
    BY DEF Modified, Caps, IsKey, KeyEv, Eats, GetsNothing
  <1>2. /\ HalfQwertyType'
        /\ priv'.enabled = priv.enabled
        /\ priv'.enabled_changed = priv.enabled_changed
        /\ priv'.layout_switch = priv.layout_switch
        /\ priv'.shift_on = priv.shift_on
    BY <1>1 DEF HalfQwertyKeysInv, HalfQwertyType
  <1>3. \A j : Meanings(j)' = Meanings(j)
    BY <1>2, SameMeanings
  <1>4. \A p \in told : p[1] \in mixed
    BY <1>1 DEF HalfQwertyKeysInv
  <1>5. KeysReleased' /\ TellsMeanings'
    BY <1>1, <1>3, <1>4, KeyHidden
  <1>6. /\ told' = IF value = 1 /\ k \in mixed THEN {p \in told : p[1] # k} ELSE told
        /\ mixed' = IF value = 1 THEN mixed \ {k} ELSE mixed
        /\ down' = IF value = 0 THEN down \ {k} ELSE down \cup {k}
    BY <1>1 DEF Before, Same, IsKey, KeyEv, Key
  <1>7. \A p \in told' : p[1] \in mixed' /\ p[1] # KEY_CAPSLOCK
    BY <1>1, <1>4, <1>6 DEF HalfQwertyKeysInv
  <1>8. priv'.enabled_changed => KEY_CAPSLOCK \in down'
    BY <1>1, <1>2, <1>6 DEF HalfQwertyKeysInv
  <1>9. KEY_CAPSLOCK \notin mixed'
    BY <1>6 DEF HalfQwertyKeysInv
  <1> QED BY <1>2, <1>5, <1>7, <1>8, <1>9 DEF HalfQwertyKeysInv

\* A key while the filter is not enabled.
LEMMA DisabledKeeps ==
    ASSUME KeysReleased, TellsMeanings, HalfQwertyKeysInv, UNCHANGED conf,
           conf.kind = "half_qwerty",
           NEW k, NEW value \in 0..2, Key(k, value), Disabled(KeyEv(k, value))
    PROVE  KeysReleased' /\ TellsMeanings' /\ HalfQwertyKeysInv'
  <1>1. /\ ~priv.enabled /\ UNCHANGED priv
        /\ Passes(KeyEv(k, value), KeyEv(k, value))
        /\ k = KEY_CAPSLOCK => ~(priv.enabled_changed /\ value = 0)
    BY DEF Disabled, Ends, Caps, KeyEv
  <1>2. Meanings(k) = {k}
    BY <1>1 DEF Meanings
  <1>3. Passes(KeyEv(k, value), [KeyEv(k, value) EXCEPT !.code = k])
    BY <1>1, OwnCode
  <1> QED BY <1>1, <1>2, <1>3, PassedKeeps

\* A key of the left half, or mirrored from it.
LEMMA HalvesKeep ==
    ASSUME KeysReleased, TellsMeanings, HalfQwertyKeysInv, UNCHANGED conf,
           conf.kind = "half_qwerty",
           NEW k, NEW value \in 0..2, Key(k, value),
           PassedOn(KeyEv(k, value)) \/ LayoutRightHalf(KeyEv(k, value))
    PROVE  KeysReleased' /\ TellsMeanings' /\ HalfQwertyKeysInv'
  <1>1. /\ priv.enabled /\ ~priv.caps_on /\ k # KEY_CAPSLOCK /\ UNCHANGED priv
    BY DEF PassedOn, LayoutRightHalf, Lays, Caps, KeyEv
  <1>2. CASE PassedOn(KeyEv(k, value))
    <2>1. priv.layout_switch = "LEFT_HALF" /\ Passes(KeyEv(k, value), KeyEv(k, value))
      BY <1>2 DEF PassedOn, KeyEv
    <2>2. Meanings(k) = {k}
      BY <2>1 DEF Meanings, Laid
    <2>3. Passes(KeyEv(k, value), [KeyEv(k, value) EXCEPT !.code = k])
      BY <2>1, OwnCode
    <2> QED BY <1>1, <2>2, <2>3, PassedKeeps
  <1>3. CASE LayoutRightHalf(KeyEv(k, value))
    <2>1. /\ priv.layout_switch = "RIGHT_HALF"
          /\ Passes(KeyEv(k, value), [KeyEv(k, value) EXCEPT !.code = RightHalf(@)])
      BY <1>3 DEF LayoutRightHalf
    <2>2. Meanings(k) = {RightHalf(k)}
      BY <1>1, <2>1 DEF Meanings, Laid
    <2>3. [KeyEv(k, value) EXCEPT !.code = RightHalf(@)]
              = [KeyEv(k, value) EXCEPT !.code = RightHalf(k)]
      BY DEF KeyEv
    <2> QED BY <1>1, <2>1, <2>2, <2>3, PassedKeeps
  <1> QED BY <1>2, <1>3

\* A key of the cursor keys, or shift among them.
LEMMA SpecialKeeps ==
    ASSUME KeysReleased, TellsMeanings, HalfQwertyKeysInv, UNCHANGED conf,
           conf.kind = "half_qwerty",
           NEW k, NEW value \in 0..2, Key(k, value), LayoutSpecial(KeyEv(k, value))
    PROVE  KeysReleased' /\ TellsMeanings' /\ HalfQwertyKeysInv'
  <1>1. /\ priv.enabled /\ ~priv.caps_on /\ k # KEY_CAPSLOCK
        /\ priv.layout_switch = "SPECIAL"
    BY DEF LayoutSpecial, Lays, Caps, KeyEv
  <1>2. Meanings(k) = IF k = KEY_LEFTSHIFT THEN {}
                      ELSE IF k \notin DOMAIN Special THEN {k}
                      ELSE {Special[k][IF priv.shift_on THEN 2 ELSE 1]}
    BY <1>1 DEF Meanings, Laid
  <1>3. CASE k = KEY_LEFTSHIFT
    <2>1. /\ priv' = [priv EXCEPT !.shift_on = (value # 0)]
          /\ told' = Before(KeyEv(k, value)) /\ Other
      BY <1>3 DEF LayoutSpecial, GetsNothing, KeyEv
    <2>2. HalfQwertyType' /\ priv'.enabled_changed = priv.enabled_changed
      BY <2>1 DEF HalfQwertyKeysInv, HalfQwertyType
    <2>3. told' \subseteq told
      BY <2>1 DEF Before
    <2>4. \A p \in told' : p[1] # KEY_CAPSLOCK /\ (p[1] = k => k \in mixed)
      BY <2>3, <1>1, <1>2, <1>3 DEF HalfQwertyKeysInv, TellsMeanings
    <2>5. priv'.enabled_changed => KEY_CAPSLOCK \in down'
      BY <2>2, <1>1 DEF HalfQwertyKeysInv, Key
    <2> QED BY <2>1, <2>2, <2>3, <2>4, <2>5, MixedKeeps
  <1>4. CASE k # KEY_LEFTSHIFT
    <2> DEFINE c == IF k \notin DOMAIN Special THEN k
                    ELSE Special[k][IF priv.shift_on THEN 2 ELSE 1]
    <2>1. UNCHANGED priv
      BY <1>4 DEF LayoutSpecial, KeyEv
    <2>2. Passes(KeyEv(k, value), [KeyEv(k, value) EXCEPT !.code = c])
      <3>1. CASE k \notin DOMAIN Special
        <4>1. Passes(KeyEv(k, value), KeyEv(k, value))
          BY <3>1, <1>4 DEF LayoutSpecial, KeyEv
        <4> QED BY <4>1, <3>1, OwnCode
      <3>2. CASE k \in DOMAIN Special
        <4>1. Passes(KeyEv(k, value),
                     [KeyEv(k, value) EXCEPT !.code =
                         Special[@][IF priv.shift_on THEN 2 ELSE 1]])
          BY <3>2, <1>4 DEF LayoutSpecial, KeyEv
        <4>2. [KeyEv(k, value) EXCEPT !.code =
                  Special[@][IF priv.shift_on THEN 2 ELSE 1]]
                  = [KeyEv(k, value) EXCEPT !.code = c]
          BY <3>2 DEF KeyEv
        <4> QED BY <4>1, <4>2
      <3> QED BY <3>1, <3>2
    <2>3. Meanings(k) = {c}
      BY <1>2, <1>4
    <2> HIDE DEF c
    <2> QED BY <1>1, <2>1, <2>2, <2>3, PassedKeeps
  <1> QED BY <1>3, <1>4

\* A key of the mouse.
LEMMA MouseKeeps ==
    ASSUME KeysReleased, TellsMeanings, HalfQwertyKeysInv, UNCHANGED conf,
           conf.kind = "half_qwerty",
           NEW k, NEW value \in 0..2, Key(k, value), LayoutMouse(KeyEv(k, value))
    PROVE  KeysReleased' /\ TellsMeanings' /\ HalfQwertyKeysInv'
  <1>1. /\ priv.enabled /\ ~priv.caps_on /\ k # KEY_CAPSLOCK
        /\ priv.layout_switch = "MOUSE"
    BY DEF LayoutMouse, Lays, Caps, KeyEv
  <1>2. Meanings(k) = IF k \in DOMAIN Direction THEN {}
                      ELSE IF k = KEY_SPACE THEN {BTN_LEFT} ELSE {k}
    BY <1>1 DEF Meanings, Laid
  <1>3. CASE k \in DOMAIN Direction
    <2> DEFINE axis == Direction[k][1]
               out == RelEv(axis, Direction[k][2] * priv'.accel[axis])
    <2>1. /\ priv' = [priv EXCEPT !.accel[axis] = Accelerated(@, value)]
          /\ Passes(KeyEv(k, value), out)
      BY <1>3 DEF LayoutMouse, KeyEv
    <2>2. out.type = "REL"
      BY DEF RelEv
    <2> HIDE DEF axis, out
    <2>3. told' = Before(KeyEv(k, value)) /\ Same(KeyEv(k, value))
      BY <2>1, <2>2 DEF Passes, Gets, Holds, IsKey
    <2>4. /\ HalfQwertyType'
          /\ priv'.enabled = priv.enabled
          /\ priv'.enabled_changed = priv.enabled_changed
          /\ priv'.caps_on = priv.caps_on
          /\ priv'.layout_switch = priv.layout_switch
          /\ priv'.shift_on = priv.shift_on
      BY <2>1 DEF HalfQwertyKeysInv, HalfQwertyType
    <2>5. \A j : Meanings(j)' = Meanings(j)
      BY <2>4, SameMeanings
    <2>6. \A p \in told : p[1] = k => k \in mixed
      BY <1>2, <1>3 DEF TellsMeanings
    <2>7. KeysReleased' /\ TellsMeanings'
      BY <2>3, <2>5, <2>6, KeyHidden
    <2>8. told' \subseteq told /\ mixed' \subseteq mixed
      BY <2>3 DEF Before, Same
    <2>9. priv'.enabled_changed => KEY_CAPSLOCK \in down'
      BY <2>4, <1>1 DEF HalfQwertyKeysInv, Key
    <2> QED BY <1>1, <2>4, <2>7, <2>8, <2>9 DEF HalfQwertyKeysInv
  <1>4. CASE k \notin DOMAIN Direction
    <2> DEFINE c == IF k = KEY_SPACE THEN BTN_LEFT ELSE k
    <2>1. UNCHANGED priv
      BY <1>4 DEF LayoutMouse, KeyEv
    <2>2. Passes(KeyEv(k, value), [KeyEv(k, value) EXCEPT !.code = c])
      <3>1. CASE k = KEY_SPACE
        BY <1>4, <3>1 DEF LayoutMouse, KeyEv
      <3>2. CASE k # KEY_SPACE
        <4>1. Passes(KeyEv(k, value), KeyEv(k, value))
          BY <3>2, <1>4 DEF LayoutMouse, KeyEv
        <4> QED BY <4>1, <3>2, OwnCode
      <3> QED BY <3>1, <3>2
    <2>3. Meanings(k) = {c}
      BY <1>2, <1>4
    <2> HIDE DEF c
    <2> QED BY <1>1, <2>1, <2>2, <2>3, PassedKeeps
  <1> QED BY <1>3, <1>4

\* Every way of half_qwerty_process() keeps it.
LEMMA HalfQwertyKeeps ==
    ASSUME KeysReleased, TellsMeanings, HalfQwertyKeysInv, UNCHANGED conf,
           conf.kind = "half_qwerty",
           NEW k, NEW value \in 0..2, Key(k, value), HalfQwerty(KeyEv(k, value))
    PROVE  KeysReleased' /\ TellsMeanings' /\ HalfQwertyKeysInv'
  BY ToggleKeeps, ToggleEndsKeeps, ModifierKeeps, ModifiedKeeps, DisabledKeeps,
     HalvesKeep, SpecialKeeps, MouseKeeps
  DEF HalfQwerty

-----------------------------------------------------------------------------
(* Every step.                                                             *)

\* While a filter runs, KeysInv is what half_qwerty keeps, or that and nothing
\* more of another filter.
LEMMA Running ==
    ASSUME pc = "run"
    PROVE  KeysInv <=>
               /\ KeysReleased /\ TellsMeanings /\ KEY_CAPSLOCK \notin mixed
               /\ conf.kind \in WithoutOps => told = {}
               /\ conf.kind = "half_qwerty" => HalfQwertyKeysInv
  BY DEF KeysInv, NothingTold, MeaningKept, CapsUp, AllMixed, TellsMeanings,
         HalfQwertyKeysInv, Runs

\* The same of the next state.
LEMMA StillRunning ==
    ASSUME pc' = "run", KeysReleased', TellsMeanings', KEY_CAPSLOCK \notin mixed',
           conf'.kind \in WithoutOps => told' = {},
           conf'.kind = "half_qwerty" => HalfQwertyKeysInv'
    PROVE  KeysInv'
  BY DEF KeysInv, NothingTold, MeaningKept, CapsUp, AllMixed, TellsMeanings,
         HalfQwertyKeysInv, Runs

\* The first event of a filter without operations is the last step of all.
LEMMA WithoutOpsKeeps ==
    ASSUME KeysInv, NEW e, Process(e), conf.kind \in WithoutOps
    PROVE  KeysInv'
  <1>1. /\ pc = "run" /\ pc' = "undefined" /\ told' = told /\ mixed' = mixed
        /\ told = {} /\ KEY_CAPSLOCK \notin mixed
    BY Running DEF Process, consumer
  <1> QED BY <1>1 DEF KeysInv, KeysReleased, NothingTold, MeaningKept, CapsUp, AllMixed,
                      Runs

\* Every filter keeps it when it handles a key.
LEMMA KeyKeeps ==
    ASSUME KeysInv, NEW k, NEW value \in 0..2, Key(k, value), Process(KeyEv(k, value)),
           conf.kind \notin WithoutOps
    PROVE  KeysInv'
  <1>0. /\ pc = "run" /\ pc' = "run" /\ conf' = conf /\ Handles(KeyEv(k, value))
        /\ KeysReleased /\ TellsMeanings /\ KEY_CAPSLOCK \notin mixed
        /\ conf.kind = "half_qwerty" => HalfQwertyKeysInv
    BY Running DEF Process
  <1>1. CASE conf.kind = "half_qwerty" /\ HalfQwerty(KeyEv(k, value))
    <2>1. KeysReleased' /\ TellsMeanings' /\ HalfQwertyKeysInv'
      BY <1>0, <1>1, HalfQwertyKeeps
    <2>2. KEY_CAPSLOCK \notin mixed'
      BY <2>1 DEF HalfQwertyKeysInv
    <2> QED BY <1>0, <2>1, <2>2, StillRunning
  <1>2. ASSUME NEW c, conf.kind # "half_qwerty", Meanings(k) = {c},
               \A j : Meanings(j)' = Meanings(j),
               Passes(KeyEv(k, value), [KeyEv(k, value) EXCEPT !.code = c])
        PROVE  KeysInv'
    <2>1. KeysReleased' /\ TellsMeanings'
      BY <1>0, <1>2, KeyPassed
    <2>2. KEY_CAPSLOCK \notin mixed'
      BY <1>0, <1>2 DEF Passes, Same
    <2> QED BY <1>0, <1>2, <2>1, <2>2, StillRunning
  <1>3. CASE conf.kind = "key_map" /\ MapEvent(KeyEv(k, value))
    <2> DEFINE c == IF BitMapGet(priv.map, k) THEN MapKey(priv.keys, k) ELSE k
    <2>1. UNCHANGED priv
      BY <1>3 DEF MapEvent
    <2>2. Passes(KeyEv(k, value), [KeyEv(k, value) EXCEPT !.code = c])
      <3>1. CASE BitMapGet(priv.map, k)
        <4>1. Passes(KeyEv(k, value), [KeyEv(k, value) EXCEPT !.code = MapKey(priv.keys, @)])
          BY <1>3, <3>1 DEF MapEvent, KeyEv
        <4>2. [KeyEv(k, value) EXCEPT !.code = MapKey(priv.keys, @)]
                  = [KeyEv(k, value) EXCEPT !.code = c]
          BY <3>1 DEF KeyEv
        <4> QED BY <4>1, <4>2
      <3>2. CASE ~BitMapGet(priv.map, k)
        <4>1. Passes(KeyEv(k, value), KeyEv(k, value))
          BY <1>3, <3>2 DEF MapEvent, KeyEv
        <4> QED BY <4>1, <3>2, OwnCode
      <3> QED BY <3>1, <3>2
    <2>3. Meanings(k) = {c}
      BY <1>3 DEF Meanings
    <2> HIDE DEF c
    <2>4. \A j : Meanings(j)' = Meanings(j)
      BY <1>0, <2>1, SameMeanings
    <2> QED BY <1>2, <1>3, <2>2, <2>3, <2>4
  <1>4. CASE conf.kind \in {"abs2rel", "dump"}
    <2>1. Passes(KeyEv(k, value), KeyEv(k, value))
      BY <1>0, <1>4 DEF Handles, ConvertEvent, Flush, Position, PenUp, Unchanged,
                        DumpEvent, KeyEv
    <2>2. Passes(KeyEv(k, value), [KeyEv(k, value) EXCEPT !.code = k])
      BY <2>1, OwnCode
    <2>3. Meanings(k) = {k} /\ \A j : Meanings(j)' = Meanings(j)
      BY <1>0, <1>4, SameMeanings DEF Meanings
    <2> QED BY <1>2, <1>4, <2>2, <2>3
  <1> QED BY <1>0, <1>1, <1>3, <1>4 DEF Handles

\* Every filter keeps it when it handles another event.
LEMMA EventKeeps ==
    ASSUME KeysInv, NEW e, e.type \in {"ABS", "SYN"}, UNCHANGED down, Process(e),
           conf.kind \notin WithoutOps
    PROVE  KeysInv'
  <1>0. /\ pc = "run" /\ pc' = "run" /\ conf' = conf /\ Handles(e)
        /\ KeysReleased /\ TellsMeanings /\ KEY_CAPSLOCK \notin mixed
        /\ conf.kind = "half_qwerty" => HalfQwertyKeysInv
    BY Running DEF Process
  <1>1. told' = told /\ mixed' = mixed
    <2>1. /\ Passes(e, e) => told' = told /\ mixed' = mixed
          /\ Eats(e) => told' = told /\ mixed' = mixed
      BY DEF Passes, Eats, Gets, GetsNothing, Same, Before, Holds, IsKey
    <2>2. CASE conf.kind = "half_qwerty" /\ HalfQwerty(e)
      BY <2>1, <2>2 DEF HalfQwerty, Toggle, Toggles, ToggleEnds, Ends, Disabled, Modifier,
                        Modified, PassedOn, LayoutRightHalf, LayoutSpecial, LayoutMouse, Caps
    <2>3. CASE conf.kind = "key_map" /\ MapEvent(e)
      BY <2>1, <2>3 DEF MapEvent
    <2>4. CASE conf.kind = "abs2rel" /\ ConvertEvent(e)
      BY <2>1, <2>4 DEF ConvertEvent, Flush, Position, PenUp, Unchanged, Same, IsKey
    <2>5. CASE conf.kind = "dump" /\ DumpEvent(e)
      BY <2>1, <2>5 DEF DumpEvent
    <2> QED BY <1>0, <2>2, <2>3, <2>4, <2>5 DEF Handles
  <1>2. conf.kind \in {"half_qwerty", "key_map"} => priv' = priv
    BY <1>0 DEF Handles, HalfQwerty, Toggle, Toggles, ToggleEnds, Ends, Disabled, Modifier,
                Modified, PassedOn, LayoutRightHalf, LayoutSpecial, LayoutMouse, Caps,
                IsKey, MapEvent
  <1>3. \A j : Meanings(j)' = Meanings(j)
    BY <1>0, <1>2, SameMeanings
  <1>4. KeysReleased' /\ TellsMeanings'
    BY <1>0, <1>1, <1>3 DEF KeysReleased, TellsMeanings
  <1>5. conf.kind = "half_qwerty" => HalfQwertyKeysInv'
    BY <1>0, <1>1, <1>2 DEF HalfQwertyKeysInv, HalfQwertyType
  <1> QED BY <1>0, <1>1, <1>4, <1>5, StillRunning

\* Before it runs, and after, nothing changes what the consumer holds down.
LEMMA KeysStep ==
    ASSUME KeysInv, [Next]_vars
    PROVE  KeysInv'
  <1>1. CASE Refuse \/ Ask \/ Search \/ Answer \/ AllocFails
    <2>1. /\ told = {} /\ told' = told /\ mixed' = mixed /\ pc' # "run"
          /\ KEY_CAPSLOCK \notin mixed
      BY <1>1 DEF Refuse, Ask, Search, Answer, AllocFails, Loads, consumer, KeysInv,
                  NothingTold
    <2> QED BY <2>1 DEF KeysInv, KeysReleased, NothingTold, MeaningKept, CapsUp, AllMixed,
                        Runs
  <1>2. CASE Alloc
    <2>1. /\ told = {} /\ told' = told /\ mixed' = mixed /\ conf' = conf
          /\ KEY_CAPSLOCK \notin mixed
          /\ conf.kind = "half_qwerty" => priv' = HalfQwertyAlloc
      BY <1>2 DEF Alloc, Loads, consumer, KeysInv, NothingTold
    <2>2. ASSUME conf.kind = "half_qwerty"
          PROVE  HalfQwertyType' /\ ~priv'.enabled_changed
      <3> DEFINE accel == [a \in Axes |-> 1]
      <3>1. priv' = [enabled |-> FALSE, enabled_changed |-> FALSE,
                     layout_switch |-> "LEFT_HALF", caps_mod |-> 0, caps_on |-> FALSE,
                     shift_on |-> FALSE, accel |-> accel]
        BY <2>1, <2>2 DEF HalfQwertyAlloc
      <3> HIDE DEF accel
      <3> QED BY <3>1 DEF HalfQwertyType
    <2> QED BY <2>1, <2>2 DEF KeysInv, KeysReleased, NothingTold, MeaningKept, CapsUp,
                              AllMixed, Runs
  <1>3. CASE ReadKey
    <2>1. PICK k \in conf.keys, value \in 0..2 : Key(k, value) /\ Process(KeyEv(k, value))
      BY <1>3 DEF ReadKey
    <2> QED BY <2>1, KeyKeeps, WithoutOpsKeeps
  <1>4. ASSUME NEW e, e.type \in {"ABS", "SYN"}, UNCHANGED down, Process(e)
        PROVE  KeysInv'
    BY <1>4, EventKeeps, WithoutOpsKeeps
  <1>5. CASE ReadPosition \/ ReadPressure \/ ReadSync
    <2>1. /\ \A a, p : AbsEv(a, p).type = "ABS"
          /\ SynEv(0).type = "SYN"
      BY DEF AbsEv, SynEv
    <2>2. CASE ReadPosition
      <3>1. PICK a \in Axes, p \in 0..MaxPosition : Touch(a, p) /\ Process(AbsEv(a, p))
        BY <2>2 DEF ReadPosition
      <3>2. UNCHANGED down
        BY <3>1 DEF Touch
      <3> QED BY <3>1, <3>2, <2>1, <1>4
    <2>3. CASE ReadPressure
      <3>1. PICK p \in 0..1 : Pressure(p) /\ Process(AbsEv(ABS_PRESSURE, p))
        BY <2>3 DEF ReadPressure
      <3>2. UNCHANGED down
        BY <3>1 DEF Pressure
      <3> QED BY <3>1, <3>2, <2>1, <1>4
    <2>4. CASE ReadSync
      BY <2>4, <2>1, <1>4 DEF ReadSync, Sync
    <2> QED BY <1>5, <2>2, <2>3, <2>4
  <1>6. CASE Free
    <2>1. /\ pc = "run" /\ pc' \in {"undefined", "freed"}
          /\ told' = told /\ mixed' = mixed /\ down' = down
      BY <1>6 DEF Free, consumer, device
    <2> QED BY <2>1 DEF KeysInv, KeysReleased, NothingTold, MeaningKept, CapsUp, AllMixed,
                        Runs
  <1>7. CASE UNCHANGED vars
    <2>1. UNCHANGED <<conf, pc, priv, down, told, mixed>>
      BY <1>7 DEF vars, device, consumer
    <2>2. \A j : Meanings(j)' = Meanings(j)
      BY <2>1, SameMeanings
    <2> QED BY <2>1, <2>2 DEF KeysInv, KeysReleased, NothingTold, MeaningKept, CapsUp, AllMixed,
                        HalfQwertyType, Runs
  <1> QED BY <1>1, <1>2, <1>3, <1>5, <1>6, <1>7 DEF Next

\* Whatever the filter, its configuration and the table of keys, what the consumer
\* holds down for a key goes up with the key, unless half_qwerty has changed the
\* meaning of the key meanwhile.
THEOREM KeysGoUp == Spec => []KeysReleased
  <1>1. Init => KeysInv
    BY DEF Init, LineInit, KeysInv, KeysReleased, NothingTold, MeaningKept, CapsUp, AllMixed,
           Runs
  <1>2. KeysInv /\ [Next]_vars => KeysInv'
    BY KeysStep
  <1>3. KeysInv => KeysReleased
    BY DEF KeysInv
  <1> QED BY <1>1, <1>2, <1>3, PTL DEF Spec

-----------------------------------------------------------------------------
(* Frames.                                                                 *)

\* The consumer has no frame before the filter runs, and none from a filter that
\* has no operations.
FramesInv ==
    /\ FramesEnd
    /\ pc = "from_json" \/ (pc = "run" /\ conf.kind \in WithoutOps) => ~open
    /\ frame \in Nat

\* A frame of the device ends.
LEMMA SyncStep ==
    ASSUME FramesInv, Sync, Process(SynEv(0))
    PROVE  FramesInv'
  <1>0. frame' = 0 /\ pc = "run" /\ conf' = conf
    BY DEF Sync, Process
  <1>1. CASE conf.kind \in WithoutOps
    BY <1>0, <1>1 DEF Process, FramesInv, FramesEnd, Runs
  <1>2. CASE conf.kind \notin WithoutOps
    <2>0. Handles(SynEv(0)) /\ pc' = "run"
      BY <1>0, <1>2 DEF Process
    <2>1. \A out : Passes(SynEv(0), out) /\ out.type = "SYN" => ~open'
      BY DEF Passes, Gets
    <2>2. SynEv(0).type = "SYN"
      BY DEF SynEv
    <2>3. CASE conf.kind = "half_qwerty" /\ HalfQwerty(SynEv(0))
      <3>1. CASE Modified(SynEv(0))
        <4>1. priv.enabled /\ priv.caps_on /\ priv' = priv
          BY <2>2, <3>1 DEF Modified, IsKey
        <4> QED BY <4>1, <1>0, <2>0, <2>3, <1>2 DEF FramesInv, FramesEnd, Runs
      <3>2. CASE ~Modified(SynEv(0))
        <4>1. Passes(SynEv(0), SynEv(0))
          BY <2>2, <2>3, <3>2 DEF HalfQwerty, Toggle, Toggles, ToggleEnds, Ends, Disabled,
                Modifier, PassedOn, LayoutRightHalf, LayoutSpecial, LayoutMouse, Caps
        <4> QED BY <4>1, <2>1, <2>2, <1>0, <2>0 DEF FramesInv, FramesEnd
      <3> QED BY <3>1, <3>2
    <2>4. CASE conf.kind = "key_map" /\ MapEvent(SynEv(0))
      <3>1. Passes(SynEv(0), SynEv(0))
        BY <2>2, <2>4 DEF MapEvent
      <3> QED BY <3>1, <2>1, <2>2, <1>0, <2>0 DEF FramesInv, FramesEnd
    <2>5. CASE conf.kind = "abs2rel" /\ ConvertEvent(SynEv(0))
      <3>1. priv' = priv /\ (open' => priv.state[ABS_Y] = 2)
        BY <2>2, <2>5 DEF ConvertEvent, Flush, Position, PenUp, Unchanged
      <3> QED BY <3>1, <2>5, <1>0, <1>2, <2>0 DEF FramesInv, FramesEnd, Runs
    <2>6. CASE conf.kind = "dump" /\ DumpEvent(SynEv(0))
      BY <2>6, <2>1, <2>2, <1>0, <2>0 DEF DumpEvent, FramesInv, FramesEnd
    <2> QED BY <2>0, <2>3, <2>4, <2>5, <2>6 DEF Handles
  <1> QED BY <1>1, <1>2

\* Other events of the device make a frame that has not ended.
LEMMA FramesStep ==
    ASSUME FramesInv, [Next]_vars
    PROVE  FramesInv'
  <1>1. CASE Refuse \/ Ask \/ Search \/ Answer \/ Alloc \/ AllocFails
    <2>1. ~open /\ open' = open /\ frame' = frame
      BY <1>1 DEF Refuse, Ask, Search, Answer, Alloc, AllocFails, Loads, device, consumer,
                  FramesInv
    <2> QED BY <2>1 DEF FramesInv, FramesEnd
  <1>2. ASSUME NEW e, Process(e), frame' = frame + 1
        PROVE  FramesInv'
    <2>1. /\ pc = "run" /\ conf' = conf
          /\ conf.kind \in WithoutOps => pc' = "undefined" /\ open' = open
          /\ conf.kind \notin WithoutOps => pc' = "run"
      BY <1>2 DEF Process, consumer
    <2> QED BY <1>2, <2>1 DEF FramesInv, FramesEnd
  <1>3. CASE ReadKey
    BY <1>2, <1>3 DEF ReadKey, Key
  <1>4. CASE ReadPosition
    BY <1>2, <1>4 DEF ReadPosition, Touch
  <1>5. CASE ReadPressure
    BY <1>2, <1>5 DEF ReadPressure, Pressure
  <1>6. CASE ReadSync
    BY <1>6, SyncStep DEF ReadSync
  <1>7. CASE Free
    <2>1. pc' \in {"undefined", "freed"} /\ frame' = frame
      BY <1>7 DEF Free, device
    <2> QED BY <2>1 DEF FramesInv, FramesEnd
  <1>8. CASE UNCHANGED vars
    BY <1>8 DEF vars, device, consumer, FramesInv, FramesEnd, Runs
  <1> QED BY <1>1, <1>3, <1>4, <1>5, <1>6, <1>7, <1>8 DEF Next

\* When the device has ended a frame the consumer's has ended too, unless the filter
\* eats everything or abs2rel has spoilt the SYN_REPORT.
THEOREM FramesAreEnded == Spec => []FramesEnd
  <1>1. Init => FramesInv
    BY DEF Init, LineInit, FramesInv, FramesEnd
  <1>2. FramesInv /\ [Next]_vars => FramesInv'
    BY FramesStep
  <1>3. FramesInv => FramesEnd
    BY DEF FramesInv
  <1> QED BY <1>1, <1>2, <1>3, PTL DEF Spec

-----------------------------------------------------------------------------
(* Moves.                                                                  *)

Abs2RelType ==
    /\ priv = [state |-> priv.state, rel |-> priv.rel, last_abs |-> priv.last_abs]
    /\ priv.state \in [Axes -> 0..2]
    /\ priv.rel \in [Axes -> Int]
    /\ priv.last_abs \in [Axes -> Int]

\* What abs2rel remembers of an axis is the last position, and the way to it from
\* the one before, of this touch.
Remembers(a) ==
    LET s == samples[a]
        n == priv.state[a]
    IN  /\ Len(s) = n
        /\ n # 0 => priv.last_abs[a] = s[n]
        /\ n = 2 => priv.rel[a] = s[2] - s[1]

MovesInv ==
    /\ NoJump
    /\ pc = "from_json" \/ conf.kind # "abs2rel" => moved = {}
    /\ pc = "from_json" => samples = [a \in Axes |-> << >>]
    /\ samples \in [Axes -> Seq(Int)]
    /\ Runs("abs2rel") => Abs2RelType /\ \A a \in Axes : Remembers(a)

\* The last two of a sequence of positions, after one more.
LEMMA OneMore ==
    ASSUME NEW s \in Seq(Int), Len(s) \in 0..2, NEW p \in Int,
           NEW t, t = Append(IF Len(s) = 2 THEN Tail(s) ELSE s, p)
    PROVE  /\ t \in Seq(Int)
           /\ Len(t) = IF Len(s) < 2 THEN Len(s) + 1 ELSE 2
           /\ t[Len(t)] = p
           /\ Len(t) = 2 => t[1] = s[Len(s)]
  <1> DEFINE r == IF Len(s) = 2 THEN Tail(s) ELSE s
  <1>1. Len(s) \in Nat
    BY LenProperties
  <1>2. /\ r \in Seq(Int) /\ Len(r) = IF Len(s) < 2 THEN Len(s) ELSE 1
        /\ Len(r) = 1 => r[1] = s[Len(s)]
    <2>1. CASE Len(s) = 2
      <3>1. s # << >> /\ r = Tail(s)
        BY <2>1, EmptySeq
      <3> HIDE DEF r
      <3>2. /\ Tail(s) \in Seq(Int) /\ Len(Tail(s)) = Len(s) - 1
            /\ \A i \in 1..Len(Tail(s)) : Tail(s)[i] = s[i + 1]
        BY <3>1, HeadTailProperties
      <3> QED BY <2>1, <3>1, <3>2
    <2>2. CASE Len(s) # 2
      <3>1. r = s
        BY <2>2
      <3> HIDE DEF r
      <3>2. Len(s) < 2
        BY <2>2, Z3
      <3>3. Len(r) = 1 => r[1] = s[Len(s)]
        BY <3>1
      <3> QED BY <3>1, <3>2, <3>3
    <2> QED BY <2>1, <2>2
  <1> HIDE DEF r
  <1>3. t = Append(r, p)
    BY DEF r
  <1>4. /\ t \in Seq(Int) /\ Len(t) = Len(r) + 1 /\ t[Len(r) + 1] = p
        /\ \A i \in 1..Len(r) : t[i] = r[i]
    BY <1>2, <1>3, AppendProperties
  <1> QED BY <1>1, <1>2, <1>4

\* Only abs2rel makes moves.
LEMMA OthersDoNotMove ==
    ASSUME MovesInv, NEW e, Process(e), conf.kind # "abs2rel"
    PROVE  moved' = {} /\ conf' = conf
  <1>1. CASE conf.kind \in WithoutOps
    BY <1>1 DEF Process, MovesInv, consumer
  <1>2. CASE conf.kind \notin WithoutOps
    <2>1. Handles(e)
      BY <1>2 DEF Process
    <2> QED BY <2>1 DEF Handles, HalfQwerty, Toggle, ToggleEnds, Disabled, Modifier,
               Modified, PassedOn, LayoutRightHalf, LayoutSpecial, LayoutMouse, MapEvent,
               DumpEvent, Passes, Eats, Gets, GetsNothing, Process
  <1> QED BY <1>1, <1>2 DEF Process

\* What abs2rel makes of an event, one way for each type and code.
LEMMA Abs2RelWay ==
    ASSUME NEW e, Process(e), conf.kind = "abs2rel"
    PROVE  /\ ConvertEvent(e) /\ pc = "run" /\ pc' = "run" /\ conf' = conf
           /\ e.type \notin {"SYN", "ABS"} => UNCHANGED priv /\ moved' = {}
  <1>1. ConvertEvent(e) /\ pc = "run" /\ pc' = "run" /\ conf' = conf
    BY DEF Process, Handles, WithoutOps, NullOps, WildOps, WrongOps
  <1> QED BY <1>1 DEF ConvertEvent, Flush, Position, PenUp, Unchanged, Passes, Gets

\* The device is touched at p.
LEMMA TouchStep ==
    ASSUME MovesInv, NEW a \in Axes, NEW p \in Int, Touch(a, p), Process(AbsEv(a, p)),
           conf.kind = "abs2rel"
    PROVE  MovesInv'
  <1>0. /\ Position(AbsEv(a, p)) /\ pc = "run" /\ pc' = "run" /\ conf' = conf
    BY Abs2RelWay DEF ConvertEvent, Flush, PenUp, Unchanged, AbsEv, Axes, ABS_X, ABS_Y,
                      ABS_PRESSURE
  <1>1. /\ priv' = [state |-> [priv.state EXCEPT ![a] = IF @ < 2 THEN @ + 1 ELSE 2],
                    rel |-> [priv.rel EXCEPT ![a] = p - priv.last_abs[a]],
                    last_abs |-> [priv.last_abs EXCEPT ![a] = p]]
        /\ moved' = {}
    BY <1>0 DEF Position, AbsEv, Eats, GetsNothing
  <1> DEFINE t == Append(IF Len(samples[a]) = 2 THEN Tail(samples[a]) ELSE samples[a], p)
  <1>2. samples' = [samples EXCEPT ![a] = t]
    BY DEF Touch
  <1>3. /\ Abs2RelType /\ \A b \in Axes : Remembers(b)
        /\ samples \in [Axes -> Seq(Int)]
    BY <1>0 DEF MovesInv, Runs
  <1>4. /\ Len(samples[a]) = priv.state[a] /\ priv.state[a] \in 0..2
        /\ priv.state[a] # 0 => priv.last_abs[a] = samples[a][priv.state[a]]
        /\ priv.last_abs[a] \in Int
    BY <1>3 DEF Remembers, Abs2RelType
  <1>5. /\ t \in Seq(Int)
        /\ Len(t) = IF Len(samples[a]) < 2 THEN Len(samples[a]) + 1 ELSE 2
        /\ t[Len(t)] = p
        /\ Len(t) = 2 => t[1] = samples[a][Len(samples[a])]
    BY <1>3, <1>4, OneMore
  <1> HIDE DEF t
  <1>6. /\ samples' \in [Axes -> Seq(Int)]
        /\ samples'[a] = t /\ \A b \in Axes \ {a} : samples'[b] = samples[b]
    BY <1>2, <1>3, <1>5
  <1>7. /\ priv'.state = [priv.state EXCEPT ![a] = IF @ < 2 THEN @ + 1 ELSE 2]
        /\ priv'.rel = [priv.rel EXCEPT ![a] = p - priv.last_abs[a]]
        /\ priv'.last_abs = [priv.last_abs EXCEPT ![a] = p]
        /\ priv' = [state |-> priv'.state, rel |-> priv'.rel, last_abs |-> priv'.last_abs]
    BY <1>1
  <1>8. Abs2RelType'
    BY <1>3, <1>4, <1>7 DEF Abs2RelType
  <1>9. ASSUME NEW b \in Axes
        PROVE  Remembers(b)'
    <2>1. CASE b = a
      <3>1. /\ priv'.state[a] = Len(t)
            /\ priv'.last_abs[a] = p
            /\ priv'.rel[a] = p - priv.last_abs[a]
        BY <1>3, <1>4, <1>5, <1>7 DEF Abs2RelType
      <3>2. ASSUME Len(t) = 2 PROVE priv.last_abs[a] = t[1]
        <4>1. priv.state[a] # 0
          <5>1. priv.state[a] = 0 => Len(samples[a]) = 0
            BY <1>4
          <5>2. Len(samples[a]) = 0 => Len(t) = 1
            BY <1>5
          <5> QED BY <3>2, <5>1, <5>2
        <4>2. t[1] = samples[a][priv.state[a]]
          BY <3>2, <1>4, <1>5
        <4> QED BY <4>1, <4>2, <1>4
      <3> QED BY <2>1, <3>1, <3>2, <1>5, <1>6 DEF Remembers
    <2>2. CASE b # a
      <3>1. /\ priv'.state[b] = priv.state[b]
            /\ priv'.last_abs[b] = priv.last_abs[b]
            /\ priv'.rel[b] = priv.rel[b]
        BY <2>2, <1>3, <1>7 DEF Abs2RelType
      <3> QED BY <2>2, <3>1, <1>3, <1>6 DEF Remembers
    <2> QED BY <2>1, <2>2
  <1> QED BY <1>0, <1>1, <1>6, <1>8, <1>9 DEF MovesInv, NoJump, Runs

\* The pressure is p; when it is 0 the touch is forgotten.
LEMMA PressureStep ==
    ASSUME MovesInv, NEW p, Pressure(p), Process(AbsEv(ABS_PRESSURE, p)),
           conf.kind = "abs2rel"
    PROVE  MovesInv'
  <1>0. PenUp(AbsEv(ABS_PRESSURE, p)) /\ pc = "run" /\ pc' = "run" /\ conf' = conf
    BY Abs2RelWay DEF ConvertEvent, Flush, Position, Unchanged, AbsEv, Axes, ABS_X, ABS_Y,
                      ABS_PRESSURE
  <1>1. /\ priv' = IF p = 0 THEN [priv EXCEPT !.state = [a \in Axes |-> 0]] ELSE priv
        /\ samples' = IF p = 0 THEN [a \in Axes |-> << >>] ELSE samples
        /\ moved' = {}
    BY <1>0 DEF PenUp, Pressure, AbsEv, Eats, GetsNothing
  <1>2. /\ Abs2RelType /\ \A a \in Axes : Remembers(a)
        /\ samples \in [Axes -> Seq(Int)]
    BY <1>0 DEF MovesInv, Runs
  <1>3. CASE p = 0
    <2> DEFINE none == [a \in Axes |-> 0]
    <2>1. none \in [Axes -> 0..2] /\ \A a \in Axes : none[a] = 0
      OBVIOUS
    <2>2. priv' = [priv EXCEPT !.state = none]
      BY <1>1, <1>3
    <2> HIDE DEF none
    <2>3. Abs2RelType' /\ priv'.state = none
      BY <2>1, <2>2, <1>2 DEF Abs2RelType
    <2>4. /\ samples' \in [Axes -> Seq(Int)]
          /\ \A a \in Axes : samples'[a] = << >>
      BY <1>1, <1>3
    <2>5. \A a \in Axes : Remembers(a)'
      BY <2>1, <2>3, <2>4 DEF Remembers
    <2> QED BY <1>0, <1>1, <2>3, <2>4, <2>5 DEF MovesInv, NoJump, Runs
  <1>4. CASE p # 0
    BY <1>0, <1>1, <1>2, <1>4 DEF MovesInv, NoJump, Runs, Abs2RelType, Remembers
  <1> QED BY <1>3, <1>4

\* A SYN_REPORT sends what is remembered.
LEMMA FlushStep ==
    ASSUME MovesInv, Sync, Process(SynEv(0)), conf.kind = "abs2rel"
    PROVE  MovesInv'
  <1>0. Flush(SynEv(0)) /\ pc = "run" /\ pc' = "run" /\ conf' = conf
    BY Abs2RelWay DEF ConvertEvent, Position, PenUp, Unchanged, SynEv
  <1>1. /\ UNCHANGED <<priv, samples>>
        /\ moved' = {[axis |-> a, value |-> priv.rel[a]] :
                        a \in {x \in Axes : priv.state[x] = 2}}
    BY <1>0 DEF Flush, Sync
  <1>2. Abs2RelType /\ \A a \in Axes : Remembers(a)
    BY <1>0 DEF MovesInv, Runs
  <1>3. NoJump'
    <2> SUFFICES ASSUME NEW m \in moved'
                 PROVE  /\ Len(samples'[m.axis]) = 2
                        /\ m.value = samples'[m.axis][2] - samples'[m.axis][1]
      BY DEF NoJump
    <2>1. PICK a \in Axes : priv.state[a] = 2 /\ m = [axis |-> a, value |-> priv.rel[a]]
      BY <1>1
    <2> QED BY <2>1, <1>1, <1>2 DEF Remembers
  <1> QED BY <1>0, <1>1, <1>2, <1>3 DEF MovesInv, Runs, Abs2RelType, Remembers

\* Every step keeps what is remembered in line with the touch.
LEMMA MovesStep ==
    ASSUME MovesInv, [Next]_vars
    PROVE  MovesInv'
  <1>1. CASE Refuse \/ Ask \/ Search \/ Answer \/ AllocFails
    <2>1. /\ pc = "from_json" /\ pc' # "run" /\ moved' = moved /\ samples' = samples
          /\ conf' = conf
      BY <1>1 DEF Refuse, Ask, Search, Answer, AllocFails, Loads, device, consumer
    <2>2. moved = {}
      BY <2>1 DEF MovesInv
    <2> QED BY <2>1, <2>2 DEF MovesInv, NoJump, Runs
  <1>2. CASE Alloc
    <2>1. /\ pc = "from_json" /\ pc' = "run" /\ moved' = {} /\ conf' = conf
          /\ samples' = samples /\ samples = [a \in Axes |-> << >>]
          /\ samples \in [Axes -> Seq(Int)]
          /\ conf.kind = "abs2rel" => priv' = Abs2RelAlloc
      BY <1>2 DEF Alloc, Loads, device, consumer, MovesInv
    <2>2. ASSUME conf.kind = "abs2rel"
          PROVE  Abs2RelType' /\ \A a \in Axes : Remembers(a)'
      <3> DEFINE none == [a \in Axes |-> 0]
      <3>1. priv' = [state |-> none, rel |-> none, last_abs |-> none]
        BY <2>1, <2>2 DEF Abs2RelAlloc
      <3>2. none \in [Axes -> 0..2] /\ none \in [Axes -> Int] /\ \A a \in Axes : none[a] = 0
        OBVIOUS
      <3> HIDE DEF none
      <3>3. \A a \in Axes : samples'[a] = << >>
        BY <2>1
      <3>4. Abs2RelType'
        BY <3>1, <3>2 DEF Abs2RelType
      <3>5. priv'.state = none
        BY <3>1
      <3> QED BY <3>2, <3>3, <3>4, <3>5 DEF Remembers
    <2> QED BY <2>1, <2>2 DEF MovesInv, NoJump, Runs
  <1>3. ASSUME NEW e, Process(e), conf.kind # "abs2rel", samples' \in [Axes -> Seq(Int)]
        PROVE  MovesInv'
    <2>1. moved' = {} /\ conf' = conf /\ pc' # "from_json"
      BY <1>3, OthersDoNotMove DEF Process
    <2> QED BY <1>3, <2>1 DEF MovesInv, NoJump, Runs
  <1>4. samples \in [Axes -> Seq(Int)]
    BY DEF MovesInv
  <1>5. CASE ReadKey
    <2>1. PICK k \in conf.keys, value \in 0..2 : Key(k, value) /\ Process(KeyEv(k, value))
      BY <1>5 DEF ReadKey
    <2>2. samples' = samples
      BY <2>1 DEF Key
    <2>3. CASE conf.kind = "abs2rel"
      <3>1. /\ UNCHANGED priv /\ moved' = {} /\ pc = "run" /\ pc' = "run" /\ conf' = conf
        BY <2>1, <2>3, Abs2RelWay DEF KeyEv
      <3> QED BY <3>1, <2>2, <2>3 DEF MovesInv, NoJump, Runs, Abs2RelType, Remembers
    <2> QED BY <2>1, <2>2, <2>3, <1>3, <1>4
  <1>6. CASE ReadPosition
    <2>1. PICK a \in Axes, p \in 0..MaxPosition : Touch(a, p) /\ Process(AbsEv(a, p))
      BY <1>6 DEF ReadPosition
    <2>2. p \in Int
      BY BoundsAssumption
    <2>3. CASE conf.kind # "abs2rel"
      <3> DEFINE t == Append(IF Len(samples[a]) = 2 THEN Tail(samples[a]) ELSE samples[a], p)
      <3>1. samples' = [samples EXCEPT ![a] = t]
        BY <2>1 DEF Touch
      <3>2. t \in Seq(Int)
        <4>1. samples[a] \in Seq(Int)
          BY <1>4
        <4>2. ASSUME Len(samples[a]) = 2 PROVE Tail(samples[a]) \in Seq(Int)
          <5>1. samples[a] # << >>
            BY <4>2, EmptySeq
          <5> QED BY <4>1, <5>1, HeadTailProperties
        <4> QED BY <4>1, <4>2, <2>2, AppendProperties
      <3> HIDE DEF t
      <3> QED BY <1>3, <1>4, <2>1, <2>3, <3>1, <3>2
    <2> QED BY <2>1, <2>2, <2>3, TouchStep
  <1>7. CASE ReadPressure
    <2>1. PICK p \in 0..1 : Pressure(p) /\ Process(AbsEv(ABS_PRESSURE, p))
      BY <1>7 DEF ReadPressure
    <2>2. samples' \in [Axes -> Seq(Int)]
      BY <2>1, <1>4, EmptySeq DEF Pressure
    <2> QED BY <2>1, <2>2, <1>3, PressureStep
  <1>8. CASE ReadSync
    <2>1. Sync /\ Process(SynEv(0)) /\ samples' = samples
      BY <1>8 DEF ReadSync, Sync
    <2> QED BY <2>1, <1>3, <1>4, FlushStep
  <1>9. CASE Free
    <2>1. /\ pc' \in {"undefined", "freed"} /\ moved' = moved /\ samples' = samples
          /\ conf' = conf
      BY <1>9 DEF Free, device, consumer
    <2> QED BY <2>1 DEF MovesInv, NoJump, Runs
  <1>10. CASE UNCHANGED vars
    BY <1>10 DEF vars, device, consumer, MovesInv, NoJump, Runs, Abs2RelType, Remembers
  <1> QED BY <1>1, <1>2, <1>5, <1>6, <1>7, <1>8, <1>9, <1>10 DEF Next

\* Whatever the device's positions and touches, a move of the pointer is the way
\* between the last two positions of one touch.
THEOREM MovesWithinTouch == Spec => []NoJump
  <1>1. Init => MovesInv
    <2> SUFFICES ASSUME Init PROVE MovesInv
      OBVIOUS
    <2>1. /\ moved = {} /\ pc = "from_json" /\ samples = [a \in Axes |-> << >>]
      BY DEF Init, LineInit
    <2>2. samples \in [Axes -> Seq(Int)]
      BY <2>1, EmptySeq
    <2> QED BY <2>1, <2>2 DEF MovesInv, NoJump, Runs
  <1>2. MovesInv /\ [Next]_vars => MovesInv'
    BY MovesStep
  <1>3. MovesInv => NoJump
    BY DEF MovesInv
  <1> QED BY <1>1, <1>2, <1>3, PTL DEF Spec

-----------------------------------------------------------------------------
(* Types, and the search for the keys of a configuration.                  *)

DeviceType ==
    /\ down \subseteq conf.keys
    /\ held_long => KEY_CAPSLOCK \in down
    /\ frame \in 0..MaxFrame

ConsumerType ==
    /\ mixed \subseteq conf.keys \ {KEY_CAPSLOCK}
    /\ open \in BOOLEAN

\* What half_qwerty keeps besides what KeysInv says of it.
ModifierType ==
    /\ priv.caps_mod \in (conf.keys \ {KEY_CAPSLOCK}) \cup {0}
    /\ priv.accel \in [Axes -> 1..MaxAccel]

\* What is found so far is enough to go on while a search is under way.
LoadType ==
    /\ conf \in Confs
    /\ pc \in {"from_json", "refused", "run", "freed", "undefined"}
    /\ codes \in Seq(Nat \cup {-1})
    /\ Len(codes) <= Len(conf.names)
    /\ search # "none" => pc = "from_json" /\ Len(codes) < Len(conf.names) /\ ~Refused
    /\ ParserTypeOK
    /\ PlaceKept

TypesInv ==
    /\ LoadType
    /\ DeviceType
    /\ ConsumerType
    /\ Runs("half_qwerty") => ModifierType
    /\ KeysInv

\* The search is the one of KeyParser, for names of the configuration.
LEMMA SearchSteps ==
    ASSUME LoadType, [Next]_vars
    PROVE  [ParserNext]_parser
  <1>1. CASE Ask
    <2>1. /\ Getkey(conf.names[Len(codes) + 1])
          /\ Len(codes) < Len(conf.names) /\ conf \in Confs /\ codes \in Seq(Nat \cup {-1})
      BY <1>1 DEF Ask, LoadType
    <2>2. conf.names \in Seq(Int) /\ Len(codes) \in Nat /\ Len(conf.names) \in Nat
      BY <2>1, ConfsAssumption, LenProperties
    <2>3. Len(codes) + 1 \in 1..Len(conf.names)
      BY <2>1, <2>2
    <2>4. conf.names[Len(codes) + 1] \in Int
      BY <2>2, <2>3, ElementOfSeq
    <2> QED BY <2>1, <2>4 DEF ParserNext
  <1>2. CASE ~Ask
    BY <1>2 DEF Next, vars, Refuse, Search, Answer, Alloc, AllocFails, ReadKey, ReadPosition,
                ReadPressure, ReadSync, Process, Free, ParserNext
  <1> QED BY <1>1, <1>2

\* The codes found are those of the table, and no more than the names.
LEMMA LoadStep ==
    ASSUME LoadType, [Next]_vars
    PROVE  LoadType'
  <1>1. ParserTypeOK' /\ PlaceKept'
    BY SearchSteps, ParserTypeStep, PlaceStep DEF LoadType
  <1>2. UNCHANGED <<conf, codes>> => (Refused' <=> Refused)
    BY DEF Refused, KeyMapRefuses, NotFound, HalfQwertyRefuses, Abs2RelRefuses, DumpRefuses,
           ToPipeRefuses, FilterToPipeRefuses, Rel2ScrollRefuses
  <1>3. CASE Answer
    <2>1. /\ search = "returned" /\ search' = "none" /\ codes' = Append(codes, key)
          /\ UNCHANGED <<conf, pc>>
      BY <1>3 DEF Answer, Taken, Loads
    <2>2. /\ codes \in Seq(Nat \cup {-1}) /\ key \in Nat \cup {-1}
          /\ Len(codes) < Len(conf.names)
      BY <2>1 DEF LoadType, ParserTypeOK
    <2>3. codes' \in Seq(Nat \cup {-1}) /\ Len(codes') = Len(codes) + 1
      BY <2>1, <2>2, AppendProperties
    <2>4. Len(codes) \in Nat /\ Len(conf.names) \in Nat
      BY <2>2, ConfsAssumption, LenProperties DEF LoadType
    <2> QED BY <1>1, <2>1, <2>2, <2>3, <2>4 DEF LoadType
  <1>4. CASE Refuse
    <2>1. search = "none" /\ search' = "none" /\ pc' = "refused" /\ UNCHANGED <<conf, codes>>
      BY <1>4 DEF Refuse, Loads, LoadType, parser
    <2> QED BY <1>1, <2>1 DEF LoadType
  <1>5. CASE Ask \/ Search
    <2>1. /\ pc = "from_json" /\ pc' = pc /\ UNCHANGED <<conf, codes>>
          /\ Len(codes) < Len(conf.names) /\ ~Refused
      BY <1>5 DEF Ask, Search, Found, Narrow, Loads, LoadType
    <2> QED BY <1>1, <1>2, <2>1 DEF LoadType
  <1>6. CASE Alloc \/ AllocFails
    <2>1. /\ search = "none" /\ search' = "none" /\ UNCHANGED <<conf, codes>>
          /\ pc' \in {"run", "refused", "undefined"}
      BY <1>6 DEF Alloc, AllocFails, Loads, parser
    <2> QED BY <1>1, <2>1 DEF LoadType
  <1>7. ASSUME NEW e, Process(e) PROVE LoadType'
    <2>1. /\ search = "none" /\ search' = "none" /\ UNCHANGED <<conf, codes>>
          /\ pc' \in {"run", "undefined"}
      BY <1>7 DEF Process, LoadType, parser
    <2> QED BY <1>1, <2>1 DEF LoadType
  <1>8. CASE Free
    <2>1. /\ search = "none" /\ search' = "none" /\ UNCHANGED <<conf, codes>>
          /\ pc' \in {"freed", "undefined"}
      BY <1>8 DEF Free, LoadType, parser
    <2> QED BY <1>1, <2>1 DEF LoadType
  <1>9. CASE UNCHANGED vars
    BY <1>1, <1>2, <1>9 DEF vars, parser, LoadType
  <1> QED BY <1>3, <1>4, <1>5, <1>6, <1>7, <1>8, <1>9 DEF Next, ReadKey, ReadPosition,
             ReadPressure, ReadSync

\* Keys and frames of the device.
LEMMA DeviceStep ==
    ASSUME DeviceType, [Next]_vars
    PROVE  DeviceType'
  <1>1. CASE ReadKey
    <2>1. PICK k \in conf.keys, value \in 0..2 : Key(k, value) /\ Process(KeyEv(k, value))
      BY <1>1 DEF ReadKey
    <2>2. conf' = conf
      BY <2>1 DEF Process
    <2>3. /\ down' = IF value = 0 THEN down \ {k} ELSE down \cup {k}
          /\ frame < MaxFrame /\ frame' = frame + 1
          /\ k # KEY_CAPSLOCK => (held_long' => held_long)
          /\ k = KEY_CAPSLOCK /\ value # 2 => ~held_long'
      BY <2>1 DEF Key
    <2>4. held_long' => KEY_CAPSLOCK \in down'
      BY <2>3 DEF DeviceType
    <2>5. frame' \in 0..MaxFrame
      BY <2>3, BoundsAssumption DEF DeviceType
    <2> QED BY <2>2, <2>3, <2>4, <2>5 DEF DeviceType
  <1>2. CASE ReadPosition \/ ReadPressure \/ ReadSync
    <2>1. /\ UNCHANGED <<conf, down, held_long>>
          /\ frame' = 0 \/ (frame < MaxFrame /\ frame' = frame + 1)
      BY <1>2 DEF ReadPosition, ReadPressure, ReadSync, Touch, Pressure, Sync, Process
    <2>2. frame' \in 0..MaxFrame
      BY <2>1, BoundsAssumption DEF DeviceType
    <2> QED BY <2>1, <2>2 DEF DeviceType
  <1>3. CASE UNCHANGED <<conf, device>>
    BY <1>3 DEF device, DeviceType
  <1> QED BY <1>1, <1>2, <1>3 DEF Next, vars, Refuse, Ask, Search, Answer, Alloc, AllocFails,
             Loads, Free

\* What is recorded of the consumer.
LEMMA ConsumerStep ==
    ASSUME ConsumerType, DeviceType, [Next]_vars
    PROVE  ConsumerType'
  <1>1. ASSUME NEW e, Process(e), down' \subseteq conf.keys
        PROVE  ConsumerType'
    <2>0. conf' = conf
      BY <1>1 DEF Process
    <2>1. /\ Other => mixed' \subseteq conf.keys \ {KEY_CAPSLOCK}
          /\ Same(e) => mixed' \subseteq conf.keys \ {KEY_CAPSLOCK}
      BY <1>1 DEF Other, Same, ConsumerType
    <2>2. /\ GetsNothing(e) => open' \in BOOLEAN
          /\ Eats(e) => ConsumerType'
          /\ \A out : Passes(e, out) => ConsumerType'
      BY <2>0, <2>1 DEF Passes, Eats, Gets, GetsNothing, ConsumerType
    <2>3. CASE conf.kind \in WithoutOps
      BY <1>1, <2>3 DEF Process, consumer, ConsumerType
    <2>4. CASE HalfQwerty(e)
      <3>1. CASE Toggle(e)
        BY <3>1, <2>0, <2>1, <2>2 DEF Toggle, ConsumerType
      <3>2. CASE ToggleEnds(e) \/ Disabled(e) \/ Modified(e) \/ PassedOn(e)
                   \/ LayoutRightHalf(e) \/ LayoutMouse(e)
        BY <3>2, <2>2 DEF ToggleEnds, Disabled, Modified, PassedOn, LayoutRightHalf, LayoutMouse
      <3>3. CASE Modifier(e)
        BY <3>3, <2>0, <2>1, <2>2 DEF Modifier, ConsumerType
      <3>4. CASE LayoutSpecial(e)
        BY <3>4, <2>0, <2>1, <2>2 DEF LayoutSpecial, ConsumerType
      <3> QED BY <2>4, <3>1, <3>2, <3>3, <3>4 DEF HalfQwerty
    <2>5. CASE MapEvent(e) \/ DumpEvent(e)
      BY <2>5, <2>2 DEF MapEvent, DumpEvent
    <2>6. CASE ConvertEvent(e)
      BY <2>6, <2>0, <2>1, <2>2 DEF ConvertEvent, Flush, Position, PenUp, Unchanged,
                                   ConsumerType
    <2> QED BY <1>1, <2>3, <2>4, <2>5, <2>6 DEF Process, Handles
  <1>2. CASE ReadKey \/ ReadPosition \/ ReadPressure \/ ReadSync
    <2>1. \E e : Process(e)
      BY <1>2 DEF ReadKey, ReadPosition, ReadPressure, ReadSync
    <2>2. conf' = conf
      BY <2>1 DEF Process
    <2>3. down' \subseteq conf.keys
      BY <2>2, DeviceStep DEF DeviceType
    <2> QED BY <2>1, <2>3, <1>1
  <1>3. CASE UNCHANGED <<conf, consumer>>
    BY <1>3 DEF consumer, ConsumerType
  <1> QED BY <1>2, <1>3 DEF Next, vars, Refuse, Ask, Search, Answer, Alloc, AllocFails,
             Loads, Free

\* The modifier and the acceleration of half_qwerty, when it handles a key.
LEMMA ModifierStep ==
    ASSUME ModifierType, HalfQwertyType, NEW k \in conf.keys, NEW value \in 0..2,
           HalfQwerty(KeyEv(k, value)), UNCHANGED conf
    PROVE  ModifierType'
  <1>0. /\ KeyEv(k, value).code = k /\ KeyEv(k, value).value = value
        /\ KeyEv(k, value).type = "KEY"
    BY DEF KeyEv
  <1>1. CASE Toggle(KeyEv(k, value)) \/ ToggleEnds(KeyEv(k, value))
             \/ LayoutSpecial(KeyEv(k, value))
    <2>1. priv'.caps_mod = priv.caps_mod /\ priv'.accel = priv.accel
      <3>1. CASE Toggle(KeyEv(k, value))
        BY <3>1 DEF Toggle, HalfQwertyType
      <3>2. CASE ToggleEnds(KeyEv(k, value))
        BY <3>2 DEF ToggleEnds, HalfQwertyType
      <3>3. CASE LayoutSpecial(KeyEv(k, value))
        <4>1. priv' = [priv EXCEPT !.shift_on = (value # 0)] \/ priv' = priv
          BY <3>3, <1>0 DEF LayoutSpecial
        <4> QED BY <4>1 DEF HalfQwertyType
      <3> QED BY <1>1, <3>1, <3>2, <3>3
    <2> QED BY <2>1 DEF ModifierType
  <1>2. CASE Modifier(KeyEv(k, value))
    <2>1. \/ priv' = [priv EXCEPT !.caps_on = TRUE]
          \/ priv' = priv
          \/ priv' = [priv EXCEPT !.caps_on = FALSE, !.caps_mod = 0, !.layout_switch = Chosen]
      BY <1>2, <1>0 DEF Modifier
    <2>2. priv'.caps_mod \in {priv.caps_mod, 0} /\ priv'.accel = priv.accel
      BY <2>1 DEF HalfQwertyType
    <2> QED BY <2>2 DEF ModifierType
  <1>3. CASE Modified(KeyEv(k, value))
    <2>1. /\ k # KEY_CAPSLOCK
          /\ priv' = [priv EXCEPT !.caps_mod = k] \/ priv' = priv
      BY <1>3, <1>0 DEF Modified, Caps
    <2>2. priv'.caps_mod \in {priv.caps_mod, k} /\ priv'.accel = priv.accel
      BY <2>1 DEF HalfQwertyType
    <2> QED BY <2>1, <2>2 DEF ModifierType
  <1>4. CASE LayoutMouse(KeyEv(k, value))
    <2>1. CASE k \in DOMAIN Direction
      <3> DEFINE axis == Direction[k][1]
      <3>1. priv' = [priv EXCEPT !.accel[axis] = Accelerated(@, value)]
        BY <1>4, <1>0, <2>1 DEF LayoutMouse
      <3> HIDE DEF axis
      <3>2. /\ priv'.caps_mod = priv.caps_mod
            /\ priv'.accel = [priv.accel EXCEPT ![axis] = Accelerated(@, value)]
        BY <3>1 DEF HalfQwertyType
      <3>3. \A n \in 1..MaxAccel : Accelerated(n, value) \in 1..MaxAccel
        <4> SUFFICES ASSUME NEW n \in 1..MaxAccel
                     PROVE  Accelerated(n, value) \in 1..MaxAccel
          OBVIOUS
        <4>1. n \in Int /\ 1 <= n /\ n <= MaxAccel
          BY AccelAssumption
        <4>2. Accelerated(n, value) \in {1, MaxAccel, n} \/
                  (n < MaxAccel /\ Accelerated(n, value) = n + 1)
          BY DEF Accelerated
        <4> QED BY <4>1, <4>2, AccelAssumption
      <3> HIDE DEF axis
      <3>4. priv.accel \in [Axes -> 1..MaxAccel]
        BY DEF ModifierType
      <3>5. priv'.accel \in [Axes -> 1..MaxAccel]
        <4>1. CASE axis \in Axes
          <5>1. Accelerated(priv.accel[axis], value) \in 1..MaxAccel
            BY <4>1, <3>3, <3>4
          <5> QED BY <5>1, <3>2, <3>4
        <4>2. CASE axis \notin Axes
          BY <4>2, <3>2, <3>4
        <4> QED BY <4>1, <4>2
      <3> QED BY <3>2, <3>5 DEF ModifierType
    <2>2. CASE k \notin DOMAIN Direction
      <3>1. priv' = priv
        BY <1>4, <1>0, <2>2 DEF LayoutMouse
      <3> QED BY <3>1 DEF ModifierType
    <2> QED BY <2>1, <2>2
  <1>5. CASE Disabled(KeyEv(k, value)) \/ PassedOn(KeyEv(k, value))
             \/ LayoutRightHalf(KeyEv(k, value))
    BY <1>5 DEF Disabled, PassedOn, LayoutRightHalf, ModifierType
  <1> QED BY <1>1, <1>2, <1>3, <1>4, <1>5 DEF HalfQwerty

\* Every step keeps the types.
LEMMA TypesStep ==
    ASSUME TypesInv, [Next]_vars
    PROVE  TypesInv'
  <1>1. LoadType' /\ DeviceType' /\ ConsumerType' /\ KeysInv'
    BY LoadStep, DeviceStep, ConsumerStep, KeysStep DEF TypesInv
  <1>2. ASSUME Runs("half_qwerty")' PROVE ModifierType'
    <2>1. CASE Alloc
      <3>1. conf' = conf /\ priv' = HalfQwertyAlloc
        BY <2>1, <1>2 DEF Alloc, Loads, Runs
      <3> DEFINE accel == [a \in Axes |-> 1]
      <3>2. priv'.caps_mod = 0 /\ priv'.accel = accel
        BY <3>1 DEF HalfQwertyAlloc
      <3>3. accel \in [Axes -> 1..MaxAccel]
        BY AccelAssumption
      <3> HIDE DEF accel
      <3> QED BY <3>2, <3>3 DEF ModifierType
    <2>2. ASSUME NEW e, Process(e)
          PROVE  /\ ModifierType /\ HalfQwertyType /\ HalfQwerty(e) /\ conf' = conf
      <3>1. pc = "run" /\ conf' = conf /\ conf.kind = "half_qwerty"
        BY <2>2, <1>2 DEF Process, Runs
      <3>2. HalfQwerty(e)
        BY <2>2, <3>1 DEF Process, Handles, WithoutOps, NullOps, WildOps, WrongOps
      <3> QED BY <3>1, <3>2 DEF TypesInv, KeysInv, Runs
    <2>3. CASE ReadKey
      <3>1. PICK k \in conf.keys, value \in 0..2 : Process(KeyEv(k, value))
        BY <2>3 DEF ReadKey
      <3> QED BY <3>1, <2>2, ModifierStep
    <2>4. ASSUME NEW e, Process(e), e.type \in {"ABS", "SYN"}
          PROVE  ModifierType'
      <3>1. /\ ModifierType /\ HalfQwerty(e) /\ conf' = conf
        BY <2>2, <2>4
      <3>2. priv' = priv
        BY <3>1, <2>4 DEF HalfQwerty, Toggle, Toggles, ToggleEnds, Ends, Disabled, Modifier,
                Modified, PassedOn, LayoutRightHalf, LayoutSpecial, LayoutMouse, Caps, IsKey
      <3> QED BY <3>1, <3>2 DEF ModifierType
    <2>5. CASE ReadPosition
      <3>1. PICK a \in Axes, p \in 0..MaxPosition : Process(AbsEv(a, p))
        BY <2>5 DEF ReadPosition
      <3> QED BY <3>1, <2>4 DEF AbsEv
    <2>6. CASE ReadPressure
      <3>1. PICK p \in 0..1 : Process(AbsEv(ABS_PRESSURE, p))
        BY <2>6 DEF ReadPressure
      <3> QED BY <3>1, <2>4 DEF AbsEv
    <2>7. CASE ReadSync
      BY <2>7, <2>4 DEF ReadSync, SynEv
    <2>8. CASE UNCHANGED vars
      BY <2>8, <1>2 DEF vars, Runs, TypesInv, ModifierType
    <2>9. CASE Refuse \/ Ask \/ Search \/ Answer \/ AllocFails \/ Free
      BY <2>9, <1>2 DEF Refuse, Ask, Search, Answer, AllocFails, Loads, Free, Runs
    <2> QED BY <2>1, <2>3, <2>5, <2>6, <2>7, <2>8, <2>9 DEF Next
  <1> QED BY <1>1, <1>2 DEF TypesInv

\* What the invariant says at the start.
LEMMA TypesAtStart == Init => TypesInv
  <1> SUFFICES ASSUME Init PROVE TypesInv
    OBVIOUS
  <1>1. pc = "from_json" /\ conf \in Confs /\ search = "none" /\ codes = << >>
    BY DEF Init, ParserInit
  <1>2. ParserTypeOK /\ PlaceKept
    BY KeysAssumption DEF Init, ParserInit, ParserTypeOK, PlaceKept
  <1>3. codes \in Seq(Nat \cup {-1}) /\ Len(codes) = 0 /\ Len(conf.names) \in Nat
    BY <1>1, EmptySeq, ConfsAssumption, LenProperties
  <1>4. LoadType
    BY <1>1, <1>2, <1>3 DEF LoadType
  <1>5. DeviceType
    <2>1. held_long => KEY_CAPSLOCK \in down
      BY Zenon DEF Init, LineInit
    <2>2. down \subseteq conf.keys /\ frame = 0
      BY DEF Init, LineInit
    <2> QED BY <2>1, <2>2, BoundsAssumption DEF DeviceType
  <1>6. ConsumerType
    BY DEF Init, LineInit, ConsumerType
  <1>7. KeysInv
    BY DEF Init, LineInit, KeysInv, KeysReleased, NothingTold, MeaningKept, CapsUp, AllMixed,
           Runs
  <1> QED BY <1>1, <1>4, <1>5, <1>6, <1>7 DEF TypesInv, Runs

\* The invariant holds.
LEMMA TypesAlways == Spec => []TypesInv
  <1>1. TypesInv /\ [Next]_vars => TypesInv'
    BY TypesStep
  <1> QED BY <1>1, TypesAtStart, PTL DEF Spec

\* The filter, its device and the loading of its configuration keep their types,
\* whatever the configurations and the table.
THEOREM FilterTypes == Spec => []TypeOK
  <1>1. TypesInv => TypeOK
    BY DEF TypesInv, LoadType, DeviceType, ConsumerType, ModifierType, KeysInv, CapsUp,
           HalfQwertyType, TypeOK, Runs
  <1> QED BY <1>1, TypesAlways, PTL

\* A configuration gets the key it names, if the name is in its place in the table.
THEOREM ConfiguredKeysFound == Spec => []PivotFound
  <1>1. TypesInv => PivotFound
    BY DEF TypesInv, LoadType, PlaceKept, PivotFound
  <1> QED BY <1>1, TypesAlways, PTL
=============================================================================
