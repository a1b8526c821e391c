------------------------------ MODULE KeyTree ------------------------------
(***************************************************************************)
(* What the registry promises of its keys, without cells, counts, links or *)
(* files.  While it is up there is a tree of keys, some of them volatile.  *)
(* A tree that was loaded may be saved when the registry is shut down; one *)
(* made in memory reaches the file only by an export.  What is saved is    *)
(* the part of the tree in which no key is, or is below, a volatile key,   *)
(* and a later load starts from exactly that.                              *)
(***************************************************************************)
EXTENDS Naturals, SequencesExt

CONSTANT Defaults  \* the keys that each initialisation adds

VARIABLES
  mode,   \* "down", "loaded", "memory"
  tree,   \* the keys: [path, volatile]
  saved   \* the paths in the file: the root at least, none if there is no file

vars == <<mode, tree, saved>>

Root == [path |-> << >>, volatile |-> FALSE]

Init == mode = "down" /\ tree = {}

\* The defaults that are missing are added; a key keeps what it is.
WithDefaults(t) == t \cup {d \in Defaults : d.path \notin {k.path : k \in t}}

Load ==
  /\ mode = "down" /\ saved # {}
  /\ mode' = "loaded"
  /\ tree' = WithDefaults({[path |-> p, volatile |-> FALSE] : p \in saved})
  /\ UNCHANGED saved

Make ==
  /\ mode = "down"
  /\ mode' = "memory"
  /\ tree' \in {{Root}, WithDefaults({Root})}
  /\ UNCHANGED saved

\* One or more keys, each below the one before, all volatile or none.
Grown(t, grown) ==
  LET new == grown \ t
  IN  /\ t \subseteq grown /\ new # {}
      /\ \E volatile \in BOOLEAN : \A k \in new : k.volatile = volatile
      /\ \A k \in new :
           /\ k.path # << >>
           /\ Front(k.path) \in {n.path : n \in grown}
           /\ k.path \notin {n.path : n \in grown \ {k}}
      /\ \A k, n \in new : IsPrefix(k.path, n.path) \/ IsPrefix(n.path, k.path)

Create ==
  /\ mode # "down" /\ UNCHANGED <<mode, saved>>
  /\ \E t \in {tree}, grown \in {tree'} : Grown(t, grown)

\* A key goes only when it has no subkeys.
Pruned(t, pruned) ==
  \E k \in t \ pruned :
    /\ pruned = t \ {k} /\ k.path # << >>
    /\ \A n \in t : ~IsStrictPrefix(k.path, n.path)

Delete ==
  /\ mode # "down" /\ UNCHANGED <<mode, saved>>
  /\ \E t \in {tree}, pruned \in {tree'} : Pruned(t, pruned)

Lasting(t) ==
  {p \in {k.path : k \in t} : \A k \in t : IsPrefix(k.path, p) => ~k.volatile}

Export == mode # "down" /\ UNCHANGED mode /\ saved' = Lasting(tree) /\ UNCHANGED tree

Shutdown == mode = "loaded" /\ mode' = "down" /\ tree' = {} /\ saved' = Lasting(tree)

Stop == mode # "down" /\ mode' = "down" /\ tree' = {} /\ UNCHANGED saved

Next == Load \/ Make \/ Create \/ Delete \/ Export \/ Shutdown \/ Stop

Spec == Init /\ [][Next]_vars
=============================================================================
