----------------------------- MODULE MCEvfdLock -----------------------------
(***************************************************************************)
(* EvfdLock for TLC.  Three process ids for two instances, so that ids are *)
(* used again and are taken by unrelated processes; three inodes, one for  *)
(* the name and one for each instance that has an unnamed one open.        *)
(***************************************************************************)
EXTENDS EvfdLock

MCPid   == 1..3
MCInode == 1..3
=============================================================================
