----------------------------- MODULE MCValueCells -----------------------------
(* Three names for the values of each key; data of 0, 4, 8 and 20 bytes. *)
EXTENDS ValueCells, TLC

SymmetricNames == Permutations(Names)

MCLengthOf == [p \in {"empty", "dword", "short", "long"} |->
  CASE p = "empty" -> 0 [] p = "dword" -> 4 [] p = "short" -> 8 [] p = "long" -> 20]
=============================================================================
