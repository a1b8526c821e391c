----------------------------- MODULE MCRegistry -----------------------------
(***************************************************************************)
(* Instances of Registry for TLC: room for three keys besides the defaults *)
(* and the descriptor; all cells in one block, or each in a block of its   *)
(* own as in a large hive.                                                 *)
(***************************************************************************)
EXTENDS Registry

Stables   == 1 .. 5
Volatiles == 6 .. 7
OneBlock  == [c \in Stables |-> 1]
OwnBlocks == [c \in Stables |-> c]
=============================================================================
