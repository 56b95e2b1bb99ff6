------------------------------- MODULE MCEvfd -------------------------------
(***************************************************************************)
(* Evfd for TLC: two devices.  Descriptor 4 is the first one free after    *)
(* the standard ones and the directory that walk() leaves open.            *)
(***************************************************************************)
EXTENDS Evfd

MCFd == 4..10
=============================================================================
