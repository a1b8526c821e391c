------------------------------ MODULE CellHeap ------------------------------
(***************************************************************************)
(* What a cell allocator promises its callers, without bins, headers or    *)
(* free lists: the cells in use are extents of the store that never        *)
(* overlap.  A cell keeps its place and its size until its owner frees or  *)
(* reallocates it.  A reallocation may move the cell, but only to an       *)
(* extent that is disjoint from every cell in use, the old one included,   *)
(* because the contents are copied while both exist.                       *)
(***************************************************************************)
EXTENDS Integers

CONSTANTS
  Offsets,    \* the offsets at which a cell may start
  Sizes       \* the sizes a cell may have

VARIABLE extents    \* the cells in use, pairs <<offset, size>>

Extents == Offsets \X Sizes

Disjoint(e, f) == e[1] + e[2] <= f[1] \/ f[1] + f[2] <= e[1]

Available(e) == \A f \in extents : Disjoint(e, f)

Init == extents = {}

Take(e) ==
  /\ extents' = extents \cup {e}
  /\ Available(e)

Give(e) == extents' = extents \ {e}

Move(e, f) ==
  /\ extents' = (extents \ {e}) \cup {f}
  /\ Available(f)

\* A new extent is quantified over extents', where it must be anyway.
Next ==
  \/ \E f \in extents' \cap Extents : Take(f)
  \/ \E e \in extents : Give(e)
  \/ \E e \in extents, f \in extents' \cap Extents : Move(e, f)

Spec == Init /\ [][Next]_extents

-----------------------------------------------------------------------------

\* Two cells in use never overlap.
NoOverlap == \A e, f \in extents : e # f => Disjoint(e, f)
=============================================================================
