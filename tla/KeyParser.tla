----------------------------- MODULE KeyParser -----------------------------
(***************************************************************************)
(* src/src/keyparser/key_parser.c: the search for a key by its name, one   *)
(* comparison a step.                                                      *)
(*                                                                         *)
(* A name is the number of its place in the order of strcasecmp(), so that *)
(* names that differ in case only are one.                                 *)
(***************************************************************************)
EXTENDS Integers

CONSTANTS key_count, key_names, key_values

ASSUME KeysAssumption ==
    /\ key_count \in Nat \ {0}
    /\ key_names \in [0..key_count - 1 -> Int]
    /\ key_values \in [0..key_count - 1 -> Nat]

VARIABLES
    name,           \* what is looked for
    left, right,    \* the bounds of the search
    search,         \* "none", "loop", or "returned" with a result nobody took
    key             \* the result, -1 when there is none

parser == <<name, left, right, search, key>>

Index == 0..key_count - 1

ParserInit ==
    /\ name = 0
    /\ left = 0
    /\ right = key_count
    /\ search = "none"
    /\ key = -1

-----------------------------------------------------------------------------
\* keyparser_getkey() is called.
Getkey(n) ==
    /\ search = "none"
    /\ name' = n
    /\ left' = 0
    /\ right' = key_count
    /\ search' = "loop"
    /\ key' = -1

mid == (left + right) \div 2

Found ==
    /\ search = "loop"
    /\ name = key_names[mid]
    /\ key' = key_values[mid]
    /\ search' = "returned"
    /\ UNCHANGED <<name, left, right>>

NarrowPast ==       \* mutant: the upper bound is inclusive
    /\ search = "loop"
    /\ name # key_names[mid]
    /\ left' = (IF name > key_names[mid] THEN mid ELSE left)
    /\ right' = (IF name > key_names[mid] THEN right ELSE mid - 1)
    /\ search' = (IF left' # left \/ right' # right THEN "loop" ELSE "returned")
    /\ UNCHANGED <<name, key>>

\* The loop goes on while a bound has moved.
Narrow ==
    /\ search = "loop"
    /\ name # key_names[mid]
    /\ left' = (IF name > key_names[mid] THEN mid ELSE left)
    /\ right' = (IF name > key_names[mid] THEN right ELSE mid)
    /\ search' = (IF left' # left \/ right' # right THEN "loop" ELSE "returned")
    /\ UNCHANGED <<name, key>>

\* The caller has the result.
Taken ==
    /\ search = "returned"
    /\ search' = "none"
    /\ UNCHANGED <<name, left, right, key>>

ParserNext == (\E n \in Int : Getkey(n)) \/ Found \/ Narrow \/ Taken

ParserSpec == ParserInit /\ [][ParserNext]_parser

-----------------------------------------------------------------------------
(* Properties.                                                             *)

ParserTypeOK ==
    /\ name \in Int
    /\ left \in 0..key_count - 1
    /\ right \in left..key_count
    /\ search \in {"none", "loop", "returned"}
    /\ key \in Nat \cup {-1}

\* A name in its place in the order, whatever the disorder elsewhere.
Pivot(i) ==
    /\ \A j \in 0..i - 1 : key_names[j] < key_names[i]
    /\ \A j \in i + 1..key_count - 1 : key_names[j] > key_names[i]

\* keyparser_getkey() finds every name that stands between all smaller and all
\* greater ones; the table need not be sorted elsewhere, and is not.
PivotFound ==
    \A i \in Index :
        search = "returned" /\ name = key_names[i] /\ Pivot(i) => key = key_values[i]

\* Every comparison but the last narrows the search: it ends.
SearchNarrows ==
    [][search = "loop" /\ search' = "loop" => right' - left' < right - left]_parser
=============================================================================
