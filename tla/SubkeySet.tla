------------------------------ MODULE SubkeySet ------------------------------
(***************************************************************************)
(* What the subkey index of a key promises: the key has a set of subkeys,  *)
(* each with a name that no other subkey has, and each in the stable or in *)
(* the volatile store.  Creating a subkey adds it and nothing else,        *)
(* deleting one removes it and nothing else, and a reload of the hive      *)
(* drops the volatile ones.                                                *)
(***************************************************************************)
EXTENDS Integers

CONSTANTS
  Names,      \* the names a subkey can have
  Storages    \* the stores it can be in

VARIABLE keys    \* the subkeys, pairs <<store, name>>

Named(n) == {k \in keys : k[2] = n}

Init == keys = {}

Create(k) ==
  /\ Named(k[2]) = {}
  /\ keys' = keys \cup {k}

Delete(k) == keys' = keys \ {k}

Reload == keys' = {k \in keys : k[1] = "Stable"}

Next ==
  \/ \E k \in Storages \X Names : Create(k)
  \/ \E k \in keys : Delete(k)
  \/ Reload

Spec == Init /\ [][Next]_keys
==============================================================================
