----------------------------- MODULE MCIoQueue -----------------------------
(***************************************************************************)
(* IoQueue for TLC: three descriptors, the return values the repository's  *)
(* callbacks use (evfd.c, examples/hotplug.c, examples/pointer_test.c).    *)
(***************************************************************************)
EXTENDS IoQueue

MCFd == 3..5

MCReturns == {{}, {"REM"}, {"REM", "CLOSE"}, {"REM", "DFREE"}}
=============================================================================
