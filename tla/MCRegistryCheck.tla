-------------------------- MODULE MCRegistryCheck --------------------------
(***************************************************************************)
(* An instance of RegistryCheck for TLC: a root key with two subkeys, one  *)
(* of which has a subkey of its own and the other two values.  The subkeys *)
(* of the root stand in one leaf, or in two leaves below a root index; in  *)
(* the second tree one of them has a compressed name.                      *)
(***************************************************************************)
EXTENDS RegistryCheck

MCOutside == 99

Keys(comp) ==
  (1 :> [CM_KEY_NODE(1, FALSE, HCELL_NIL) EXCEPT !.SubKeyCount = 2, !.SubKeyList = 5]) @@
  (2 :> [CM_KEY_NODE(1, FALSE, 1) EXCEPT !.SubKeyCount = 1, !.SubKeyList = 8, !.Volatiles = 1]) @@
  (3 :> [CM_KEY_NODE(2, comp, 1) EXCEPT !.ValueCount = 2, !.ValueList = 9]) @@
  (4 :> [CM_KEY_NODE(1, FALSE, 2) EXCEPT !.Class = 12, !.ClassLength = 1])

Others ==
  (8 :> CM_KEY_INDEX("li", <<4>>)) @@
  (9 :> CM_KEY_INDEX("list", <<10, 11>>)) @@
  (10 :> CM_KEY_VALUE("some", 13)) @@ (11 :> CM_KEY_VALUE("small", HCELL_NIL)) @@
  (12 :> [Signature |-> "data"]) @@ (13 :> [Signature |-> "data"])

OneLeaf == Keys(FALSE) @@ Others @@ (5 :> CM_KEY_INDEX("li", <<2, 3>>))

TwoLeaves == Keys(TRUE) @@ Others @@ (5 :> CM_KEY_INDEX("ri", <<6, 7>>)) @@
             (6 :> CM_KEY_INDEX("li", <<2>>)) @@ (7 :> CM_KEY_INDEX("li", <<3>>))

MCTrees == {OneLeaf, TwoLeaves}
MCNames == 1 .. 3

\* One bin of a block with two cells, and one of two blocks with three.
SmallBin == [Size |-> 1, FileOffset |-> 0, Cells |-> 0 :> -1 @@ 1 :> 2 @@ 2 :> 0]
LargeBin == [Size |-> 2, FileOffset |-> 1,
             Cells |-> 0 :> 1 @@ 1 :> -3 @@ 2 :> 7 @@ 3 :> 0 @@ 4 :> -2 @@ 5 :> 9]
MCBlockList == 0 :> SmallBin @@ 1 :> LargeBin @@ 2 :> LargeBin

MCFlags == {{"VALIDATE_HIVE", "PURGE_VOLATILES"}, {"VALIDATE_HIVE", "FIX_HIVE"}}
=============================================================================
