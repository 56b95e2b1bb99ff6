------------------------------- MODULE Pipes -------------------------------
(***************************************************************************)
(* The registry of pipes, src/src/evf_pipe.c: each function as the         *)
(* registry r it leaves behind.                                            *)
(***************************************************************************)
EXTENDS Integers, Sequences, SequencesExt

CONSTANTS
    Name,       \* names of pipes
    Pipe,       \* struct evf_pipe at their addresses; 0 is NULL
    MaxSinks    \* EVF_PIPE_OUTPUTS_MAX

ASSUME PipesAssumption == Name # {} /\ 0 \notin Pipe /\ MaxSinks \in Nat \ {0}

\* The list that starts at pipes, and the pipes that are allocated, in the list
\* or not.
NoPipes ==
    [list  |-> << >>,
     heap  |-> {},
     name  |-> [p \in Pipe |-> CHOOSE n \in Name : TRUE],
     ref   |-> [p \in Pipe |-> 0],
     sinks |-> [p \in Pipe |-> << >>]]

\* pipe_lookup(): the place in the list, or 0.
Lookup(r, n) == SelectInSeq(r.list, LAMBDA p : r.name[p] = n)

\* What evf_pipe_get() returns: a pipe of the list, one from malloc(), or NULL
\* when there is no memory left.
Got(r, n) ==
    IF Lookup(r, n) # 0 THEN r.list[Lookup(r, n)]
    ELSE IF Pipe \subseteq r.heap THEN 0
    ELSE CHOOSE p \in Pipe : p \notin r.heap

\* evf_pipe_get(), with pipe_alloc(): a new pipe is the first of the list.
Get(r, n) ==
    LET p == Got(r, n)
    IN  IF p = 0 THEN r
        ELSE IF p \in r.heap
        THEN [r EXCEPT !.ref[p] = @ + 1]
        ELSE [r EXCEPT !.list = <<p>> \o @, !.heap = @ \cup {p}, !.name[p] = n,
                       !.ref[p] = 1, !.sinks[p] = << >>]

\* pipe_free() looks for the pipe before p.  There is none before the first: it
\* stays.  When it is the first, it is dropped from the list together with p.  A
\* pipe that was dropped is not found any more and its memory is lost, which is
\* the same to everybody as if it was freed.
PipeFree(r, p) ==
    LET k == SelectInSeq(r.list, LAMBDA q : q = p)
    IN  IF k = 0 THEN [r EXCEPT !.heap = @ \ {p}]
        ELSE IF k = 1 THEN r
        ELSE [r EXCEPT !.heap = @ \ {p},
                       !.list = SubSeq(@, 1, IF k = 2 THEN 0 ELSE k - 1)
                                  \o SubSeq(@, k + 1, Len(@))]

PutEarly(r, p) ==       \* mutant: freed with the last but one reference
    LET s == [r EXCEPT !.ref[p] = @ - 1]
    IN  IF s.ref[p] <= 1 THEN PipeFree(s, p) ELSE s

\* evf_pipe_put()
Put(r, p) ==
    LET s == [r EXCEPT !.ref[p] = @ - 1]
    IN  IF s.ref[p] <= 0 THEN PipeFree(s, p) ELSE s

\* evf_pipe_add_sink(), which fails when the pipe is full.
Full(r, p) == Len(r.sinks[p]) >= MaxSinks
AddSink(r, p, f) == [r EXCEPT !.sinks[p] = Append(@, f)]

RemSinkShort(r, p, f) ==        \* mutant: the last sink is forgotten
    [r EXCEPT !.sinks[p] = Front(@)]

\* evf_pipe_rem_sink(): the last sink takes the place of f.
RemSink(r, p, f) ==
    LET s == r.sinks[p]
        k == SelectLastInSeq(s, LAMBDA g : g = f)
    IN  IF k = 0 THEN r
        ELSE [r EXCEPT !.sinks[p] = Front(ReplaceAt(s, k, Last(s)))]
=============================================================================
