----------------------------- MODULE MCBarrier -----------------------------
(***************************************************************************)
(* Barrier for TLC: two lines, two kinds of events, frames of up to three  *)
(* events and room for two, so that queues are empty, full and too small.  *)
(***************************************************************************)
EXTENDS Barrier
=============================================================================
