-------------------------- MODULE KeyParserProofs --------------------------
(***************************************************************************)
(* Proofs about KeyParser, for every table of keys.                        *)
(***************************************************************************)
EXTENDS KeyParser, TLAPS

\* The middle lies between the bounds, and below the upper one unless they meet.
LEMMA Middle ==
    ASSUME NEW a \in Nat, NEW b \in Nat, a <= b
    PROVE  /\ (a + b) \div 2 \in a..b
           /\ a < b => (a + b) \div 2 < b
  BY SMT

-----------------------------------------------------------------------------
(* Types, and that no comparison is made outside the table.                *)

\* The bounds stay in the table as the search starts, narrows and ends.
LEMMA ParserTypeStep ==
    ASSUME ParserTypeOK, [ParserNext]_parser
    PROVE  ParserTypeOK'
  <1>0. USE KeysAssumption DEF ParserTypeOK
  <1>1. mid \in left..right /\ (left < right => mid < right)
    BY Middle DEF mid
  <1>2. mid \in Index
    BY <1>1 DEF Index
  <1>3. ASSUME NEW n \in Int, Getkey(n) PROVE ParserTypeOK'
    BY <1>3 DEF Getkey
  <1>4. CASE Found
    <2>1. key_values[mid] \in Nat
      BY <1>2 DEF Index
    <2> QED BY <1>4, <2>1 DEF Found
  <1>5. CASE Narrow
    BY <1>5, <1>1, <1>2 DEF Narrow, Index
  <1>6. CASE Taken
    BY <1>6 DEF Taken
  <1>7. CASE UNCHANGED parser
    BY <1>7 DEF parser
  <1> QED BY <1>3, <1>4, <1>5, <1>6, <1>7 DEF ParserNext

\* The search keeps its types, whatever the table: it compares with names of the
\* table only.
THEOREM ParserTypes == ParserSpec => []ParserTypeOK
  <1>1. ParserInit => ParserTypeOK
    BY KeysAssumption DEF ParserInit, ParserTypeOK
  <1>2. ParserTypeOK /\ [ParserNext]_parser => ParserTypeOK'
    BY ParserTypeStep
  <1> QED BY <1>1, <1>2, PTL DEF ParserSpec

-----------------------------------------------------------------------------
(* A name in its place is found.                                           *)

\* While the search for such a name goes on, its place is between the bounds.
PlaceKept ==
    \A i \in Index :
        name = key_names[i] /\ Pivot(i) =>
            /\ search = "loop" => left <= i /\ i < right
            /\ search = "returned" => key = key_values[i]

\* Every comparison leaves the place of a name in its place between the bounds,
\* and the last one meets it.
LEMMA PlaceStep ==
    ASSUME ParserTypeOK, PlaceKept, [ParserNext]_parser
    PROVE  PlaceKept'
  <1> SUFFICES ASSUME NEW i \in Index, name' = key_names[i], Pivot(i)
               PROVE  /\ search' = "loop" => left' <= i /\ i < right'
                      /\ search' = "returned" => key' = key_values[i]
    BY DEF PlaceKept, Pivot, Index
  <1>0. /\ mid \in left..right
        /\ left < right => mid < right
        /\ mid \in Index
        /\ key_names[mid] \in Int
        /\ key_names[i] \in Int
    BY KeysAssumption, Middle DEF mid, ParserTypeOK, Index
  <1>1. ASSUME NEW n \in Int, Getkey(n)
        PROVE  /\ search' = "loop" => left' <= i /\ i < right'
               /\ search' = "returned" => key' = key_values[i]
    BY <1>1, KeysAssumption DEF Getkey, Index
  <1>2. /\ key_names[mid] = key_names[i] => mid = i
        /\ key_names[i] > key_names[mid] => mid < i
        /\ key_names[i] < key_names[mid] => i < mid
    <2>1. CASE mid < i
      BY <2>1, <1>0 DEF Pivot, Index
    <2>2. CASE i < mid
      BY <2>2, <1>0, KeysAssumption DEF Pivot, Index
    <2>3. CASE i = mid
      BY <2>3, <1>0
    <2> QED BY <2>1, <2>2, <2>3, <1>0, KeysAssumption DEF Index
  <1>3. CASE Found
    BY <1>3, <1>2 DEF Found
  <1>4. CASE Narrow
    <2>1. search = "loop" /\ name = key_names[i]
      BY <1>4 DEF Narrow
    <2>2. left <= i /\ i < right
      BY <2>1 DEF PlaceKept
    <2>3. CASE name > key_names[mid]
      <3>1. left' = mid /\ right' = right /\ mid < i
        BY <2>3, <2>1, <1>2, <1>4 DEF Narrow
      <3>2. mid # left
        BY <3>1, <2>2, <1>0, KeysAssumption DEF mid, ParserTypeOK, Index
      <3> QED BY <3>1, <3>2, <2>2, <1>4, <1>0, KeysAssumption DEF Narrow, Index, ParserTypeOK
    <2>4. CASE ~(name > key_names[mid])
      <3>1. left' = left /\ right' = mid /\ i < mid
        BY <2>4, <2>1, <1>2, <1>0, <1>4 DEF Narrow
      <3>2. mid # right
        BY <2>2, <1>0, KeysAssumption DEF ParserTypeOK, Index
      <3> QED BY <3>1, <3>2, <2>2, <1>4, <1>0, KeysAssumption DEF Narrow, Index, ParserTypeOK
    <2> QED BY <2>3, <2>4
  <1>5. CASE Taken
    BY <1>5 DEF Taken
  <1>6. CASE UNCHANGED parser
    BY <1>6 DEF parser, PlaceKept
  <1> QED BY <1>1, <1>3, <1>4, <1>5, <1>6 DEF ParserNext

\* Whatever the table, a name that all smaller names precede and all greater
\* ones follow is found.
THEOREM PivotsFound == ParserSpec => []PivotFound
  <1>1. ParserInit => PlaceKept
    BY DEF ParserInit, PlaceKept
  <1>2. ParserTypeOK /\ PlaceKept /\ [ParserNext]_parser => PlaceKept'
    BY PlaceStep
  <1>3. PlaceKept => PivotFound
    BY DEF PlaceKept, PivotFound
  <1> QED BY <1>1, <1>2, <1>3, ParserTypes, PTL DEF ParserSpec

-----------------------------------------------------------------------------
(* The search ends.                                                        *)

\* A comparison after which the search goes on has brought the bounds closer.
THEOREM SearchShrinks == ParserSpec => SearchNarrows
  <1>1. ASSUME ParserTypeOK, [ParserNext]_parser, search = "loop", search' = "loop",
               parser' # parser
        PROVE  right' - left' < right - left
    <2>1. Narrow
      BY <1>1 DEF ParserNext, Getkey, Found, Taken, parser
    <2>2. mid \in left..right /\ left \in Int /\ right \in Int
      BY <1>1, Middle, KeysAssumption DEF mid, ParserTypeOK
    <2> QED BY <2>1, <2>2, <1>1 DEF Narrow
  <1>2. ParserTypeOK /\ [ParserNext]_parser
            => [search = "loop" /\ search' = "loop" => right' - left' < right - left]_parser
    BY <1>1
  <1> QED BY <1>2, ParserTypes, PTL DEF ParserSpec, SearchNarrows
=============================================================================
