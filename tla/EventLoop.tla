----------------------------- MODULE EventLoop -----------------------------
(***************************************************************************)
(* What a user of src/src/evf_io_queue.h is promised, without lists, bits  *)
(* or passes: a set of registered sources, callbacks that run one at a     *)
(* time, and a callback for every source that stays registered and has     *)
(* data.  IoQueue implements it.                                           *)
(***************************************************************************)
CONSTANT Source

VARIABLES
    members,    \* the registered sources
    pending,    \* the sources with data
    running     \* the source whose callback runs: one or none

vars == <<members, pending, running>>

Init ==
    /\ members = {}
    /\ pending = {}
    /\ running = {}

Register(s) ==
    /\ members' = members \cup {s}
    /\ UNCHANGED <<pending, running>>

\* A source leaves, or all of them do; the one whose callback runs stays.
Unregister ==
    /\ running \subseteq members'
    /\ members' \subseteq members
    /\ pending' \subseteq pending
    /\ UNCHANGED running

\* Data comes at any time, for several sources at once.
Arrive(some) ==
    /\ pending' = pending \cup some
    /\ UNCHANGED <<members, running>>

\* Data goes when the callback of the source reads it, or when a source that
\* is not registered is closed.
Vanish(s) ==
    /\ s \in running \cup (Source \ members)
    /\ pending' = pending \ {s}
    /\ UNCHANGED <<members, running>>

Start(s) ==
    /\ running = {}
    /\ s \in members
    /\ running' = {s}
    /\ UNCHANGED <<members, pending>>

\* The callback returns, keeps its source or gives it up.
Stop ==
    /\ running # {}
    /\ running' = {}
    /\ \/ UNCHANGED <<members, pending>>
       \/ /\ members' = members \ running
          /\ pending' \in {pending, pending \ running}

Next ==
    \/ \E s \in Source : Register(s) \/ Vanish(s) \/ Start(s)
    \/ \E some \in SUBSET Source : Arrive(some)
    \/ Unregister
    \/ Stop

Spec == Init /\ [][Next]_vars

\* A source with data is served: its callback starts, or it is unregistered.
\* A source that comes and goes for ever need not be.
Served ==
    \A s \in Source :
        s \in members \cap pending ~> s \in running \/ s \notin members

FairSpec == Spec /\ WF_vars(Stop) /\ Served
=============================================================================
