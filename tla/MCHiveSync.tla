----------------------------- MODULE MCHiveSync -----------------------------
(***************************************************************************)
(* Instances of HiveSync for TLC.  The numbers of changes and of blocks    *)
(* are small, but enough for a save of one block of two and of both, and   *)
(* for a second save that meets the remains of the first.                  *)
(***************************************************************************)
EXTENDS HiveSync
=============================================================================
