------------------------------ MODULE Abs2Rel ------------------------------
(***************************************************************************)
(* src/src/filters/abs2rel.c: the positions of a touchscreen become moves. *)
(* The moves are sent with the type of the SYN_REPORT they are made from.  *)
(***************************************************************************)
EXTENDS OneFilter

Abs2RelAlloc ==
    [state |-> [a \in Axes |-> 0], rel |-> [a \in Axes |-> 0],
     last_abs |-> [a \in Axes |-> 0]]

\* A SYN_REPORT flushes the moves of the axes that have had two positions, and
\* is sent twice.  Its code is that of the last move: behind a move along Y it
\* is no SYN_REPORT any more.
Flush(e) ==
    /\ e.type = "SYN"
    /\ UNCHANGED <<priv, told>>
    /\ moved' = {[axis |-> a, value |-> priv.rel[a]] :
                    a \in {x \in Axes : priv.state[x] = 2}}
    /\ open' = (open /\ priv.state[ABS_X] # 2 /\ priv.state[ABS_Y] = 2)
    /\ Same(e)

Position(e) ==
    /\ e.type = "ABS" /\ e.code \in Axes
    /\ priv' = [state |-> [priv.state EXCEPT ![e.code] = IF @ < 2 THEN @ + 1 ELSE 2],
                rel |-> [priv.rel EXCEPT ![e.code] = e.value - priv.last_abs[e.code]],
                last_abs |-> [priv.last_abs EXCEPT ![e.code] = e.value]]
    /\ Eats(e)

PenUpForX(e) ==     \* mutant: Y is not reset
    /\ e.type = "ABS" /\ e.code = ABS_PRESSURE
    /\ priv' = (IF e.value = 0 THEN [priv EXCEPT !.state[ABS_X] = 0] ELSE priv)
    /\ Eats(e)

PenUp(e) ==
    /\ e.type = "ABS" /\ e.code = ABS_PRESSURE
    /\ priv' = (IF e.value = 0 THEN [priv EXCEPT !.state = [a \in Axes |-> 0]] ELSE priv)
    /\ Eats(e)

Unchanged(e) ==
    /\ e.type \notin {"SYN", "ABS"}
    /\ UNCHANGED priv
    /\ Passes(e, e)

ConvertEvent(e) == Flush(e) \/ Position(e) \/ PenUp(e) \/ Unchanged(e)
=============================================================================
