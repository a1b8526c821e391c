----------------------------- MODULE MCHiveDisk -----------------------------
(***************************************************************************)
(* Instances of HiveDisk for TLC: one in which every cell fits into a bin  *)
(* of one block, and one with a request that needs a bin of two.           *)
(***************************************************************************)
EXTENDS HiveDisk
=============================================================================
