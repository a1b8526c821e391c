------------------------------ MODULE KeyCells ------------------------------
(***************************************************************************)
(* Keys and security descriptors as cells of one hive (core/cmi.cpp,       *)
(* core/cmkeydel.cpp, core/cmse.cpp, core/cminit.cpp): operators on the    *)
(* hive in memory, a record of what each cell holds and of the blocks that *)
(* are marked dirty.                                                       *)
(*                                                                         *)
(* A key node names its parent, its security descriptor and, for each of   *)
(* the two stores, its subkeys: the index that holds them is the subject   *)
(* of SubkeyIndex, here it is a set.  A descriptor counts the keys that    *)
(* use it and stands in a ring with the other descriptors of the hive.     *)
(* Sizes, classes and time stamps are left out, and values are the subject *)
(* of ValueCells.                                                          *)
(***************************************************************************)
EXTENDS Integers, FiniteSets, SequencesExt

CONSTANTS
  StableCells,    \* the cells that the stable store may hold, numbers
  VolatileCells,  \* the cells that the volatile store may hold
  RootCell,       \* the root key of a hive
  BlockOf,        \* the block that holds each stable cell
  HCELL_NIL       \* no cell

ASSUME CellsAssumption ==
  /\ StableCells \cup VolatileCells \subseteq Nat
  /\ IsFiniteSet(StableCells \cup VolatileCells)
  /\ StableCells \cap VolatileCells = {}
  /\ RootCell \in StableCells
  /\ DOMAIN BlockOf = StableCells
  /\ HCELL_NIL \notin StableCells \cup VolatileCells

Cells   == StableCells \cup VolatileCells
Storage == [Stable |-> StableCells, Volatile |-> VolatileCells]

FreeCell == [kind |-> "free"]

CM_KEY_NODE(name, parent, security) ==
  [kind |-> "key", Name |-> name, Parent |-> parent, Security |-> security,
   SubKeys |-> [Stable |-> {}, Volatile |-> {}]]

CM_KEY_SECURITY(count, flink, blink) ==
  [kind |-> "security", ReferenceCount |-> count, Flink |-> flink, Blink |-> blink]

Is(h, c, kind) == c \in Cells /\ h.cell[c].kind = kind

SubKeysOf(h, c) == h.cell[c].SubKeys.Stable \cup h.cell[c].SubKeys.Volatile

KeyCellsOf(h) == {c \in Cells : h.cell[c].kind = "key"}

\* The keys that name the descriptor s as theirs.
Users(h, s) == {c \in KeyCellsOf(h) : h.cell[c].Security = s}

-----------------------------------------------------------------------------
(* The cell allocator, as far as keys are concerned *)

HvMarkCellsDirty(h, cs) == [h EXCEPT !.dirty = @ \cup {BlockOf[c] : c \in cs \cap StableCells}]

FreeIn(h, type) == {c \in Storage[type] : h.cell[c] = FreeCell}

\* Mutant of HvAllocateCell: the storage type is ignored.
HvAllocateCellStable(h, type) ==
  IF FreeIn(h, "Stable") = {} THEN HCELL_NIL ELSE Min(FreeIn(h, "Stable"))

\* The lowest free cell; with none left the allocation fails.
HvAllocateCell(h, type) ==
  IF FreeIn(h, type) = {} THEN HCELL_NIL ELSE Min(FreeIn(h, type))

Put(h, c, content) == HvMarkCellsDirty([h EXCEPT !.cell[c] = content], {c})

HvFreeCell(h, c) == Put(h, c, FreeCell)

-----------------------------------------------------------------------------
(* Creating *)

EmptyHive == [cell |-> [c \in Cells |-> FreeCell], dirty |-> {}]

CmCreateRootNode(h) == Put(h, RootCell, CM_KEY_NODE("", HCELL_NIL, HCELL_NIL))

SecurityKeyAt(h, key, s) ==
  Put([h EXCEPT !.cell[key].Security = s], s, CM_KEY_SECURITY(1, s, s))

CmiCreateSecurityKey(h, key) == SecurityKeyAt(h, key, HvAllocateCell(h, "Stable"))

CmiInitializeHive == CmCreateRootNode(EmptyHive)

\* The count goes up, but the cell of the descriptor is not marked dirty.
Reference(h, s) ==
  IF Is(h, s, "security") THEN [h EXCEPT !.cell[s].ReferenceCount = @ + 1] ELSE h

\* The new key c takes over the descriptor of its parent.
CmiCreateSubKey(h, parent, name, c) ==
  Reference(Put(h, c, CM_KEY_NODE(name, parent, h.cell[parent].Security)),
            h.cell[parent].Security)

CmpAddSubKey(h, parent, type, c) == [h EXCEPT !.cell[parent].SubKeys[type] = @ \cup {c}]

\* Mutant of AddedAt: the cell of a key that could not be entered is kept.
AddedAtKept(h, parent, name, type, fails, c) ==
  IF fails
  THEN [hive |-> CmiCreateSubKey(h, parent, name, c), cell |-> HCELL_NIL]
  ELSE [hive |-> CmpAddSubKey(CmiCreateSubKey(h, parent, name, c), parent, type, c),
        cell |-> c]

(***************************************************************************)
(* CmiAddSubKey, once a cell c has been taken for the key: if entering it  *)
(* in its parent fails, the cell is freed, and nothing else is undone.     *)
(***************************************************************************)
AddedAt(h, parent, name, type, fails, c) ==
  IF fails
  THEN [hive |-> HvFreeCell(CmiCreateSubKey(h, parent, name, c), c), cell |-> HCELL_NIL]
  ELSE [hive |-> CmpAddSubKey(CmiCreateSubKey(h, parent, name, c), parent, type, c),
        cell |-> c]

CmiAddSubKey(h, parent, name, type, fails) ==
  IF FreeIn(h, type) = {}
  THEN [hive |-> h, cell |-> HCELL_NIL]
  ELSE AddedAt(HvMarkCellsDirty(h, {parent}), parent, name, type, fails,
               HvAllocateCell(h, type))

\* The stable list of the key is searched before the volatile one.
CmpFindSubKeyByName(h, key, name) ==
  LET named(cs) == {c \in cs : h.cell[c].Name = name}
      first     == named(h.cell[key].SubKeys.Stable)
      both      == named(SubKeysOf(h, key))
  IN  CASE both = {}  -> HCELL_NIL
        [] first # {} -> Min(first)
        [] OTHER      -> Min(both)

-----------------------------------------------------------------------------
(* Deleting *)

\* What CmpMarkKeyDirty marks: the key, its descriptor and the neighbours of
\* that in the ring, and the parent of the key.
CmpMarkKeyDirty(h, key) ==
  LET s == h.cell[key].Security
  IN  HvMarkCellsDirty(h, {key, h.cell[key].Parent} \cup
        (IF Is(h, s, "security") THEN {s, h.cell[s].Flink, h.cell[s].Blink} ELSE {}))

\* Mutant of CmpRemoveSubKey: the first subkey of the parent is removed.
CmpRemoveSubKeyFirst(h, key) ==
  LET first == Min(SubKeysOf(h, h.cell[key].Parent))
  IN  [h EXCEPT !.cell[h.cell[key].Parent].SubKeys =
         [Stable |-> @.Stable \ {first}, Volatile |-> @.Volatile \ {first}]]

CmpRemoveSubKey(h, key) ==
  [h EXCEPT !.cell[h.cell[key].Parent].SubKeys =
     [Stable |-> @.Stable \ {key}, Volatile |-> @.Volatile \ {key}]]

\* Mutant of CmpRemoveSecurityCellList: only the next descriptor is told.
CmpRemoveSecurityCellListHalf(h, s) ==
  [h EXCEPT !.cell[h.cell[s].Flink].Blink = h.cell[s].Blink]

CmpRemoveSecurityCellList(h, s) ==
  [h EXCEPT !.cell[h.cell[s].Flink].Blink = h.cell[s].Blink,
            !.cell[h.cell[s].Blink].Flink = h.cell[s].Flink]

\* The last user frees the descriptor.  The key forgets it either way.
CmpFreeSecurityDescriptor(h, key) ==
  LET s      == h.cell[key].Security
      forget == [h EXCEPT !.cell[key].Security = HCELL_NIL]
  IN  IF ~Is(h, s, "security")
      THEN h
      ELSE IF h.cell[s].ReferenceCount > 1
           THEN [forget EXCEPT !.cell[s].ReferenceCount = @ - 1]
           ELSE HvFreeCell(CmpRemoveSecurityCellList(forget, s), s)

\* A descriptor that the key still names would be freed with it.
CmpFreeKeyBody(h, key) ==
  HvFreeCell(IF Is(h, h.cell[key].Security, "security")
             THEN HvFreeCell(h, h.cell[key].Security) ELSE h, key)

\* Mutant of CmpFreeKeyByCell: the key stays entered in its parent.
CmpFreeKeyByCellEntered(h, key) ==
  CmpFreeKeyBody(CmpFreeSecurityDescriptor(CmpMarkKeyDirty(h, key), key), key)

CmpFreeKeyByCell(h, key) ==
  CmpFreeKeyBody(CmpFreeSecurityDescriptor(
    CmpRemoveSubKey(CmpMarkKeyDirty(h, key), key), key), key)

-----------------------------------------------------------------------------
(* Reading a hive in *)

\* The keys of a hive read in: from the root down the stable lists.
Below(h, cs) == UNION {h.cell[c].SubKeys.Stable : c \in {d \in cs : Is(h, d, "key")}}

Loadable(h) ==
  LET level[n \in 1 .. Cardinality(StableCells)] ==
        Below(h, IF n = 1 THEN {RootCell} ELSE level[n - 1])
  IN  {RootCell} \cup UNION {level[n] : n \in DOMAIN level}

\* What the check of a loaded hive asks of each of its keys.
CmpValidateKey(h, c) ==
  /\ Is(h, c, "key")
  /\ \A k \in h.cell[c].SubKeys.Stable : Is(h, k, "key") /\ h.cell[k].Parent = c

\* The keys that had volatile subkeys when they were written forget them.
CmpPurgeVolatiles(h) ==
  LET stale == {c \in Loadable(h) : h.cell[c].SubKeys.Volatile # {}}
  IN  HvMarkCellsDirty(
        [h EXCEPT !.cell = [c \in Cells |->
           IF c \in stale THEN [@[c] EXCEPT !.SubKeys.Volatile = {}] ELSE @[c]]],
        stale)

\* The image of a file in memory: its stable cells, and an empty volatile store.
HvInitialize(image) ==
  [cell |-> [c \in Cells |-> IF c \in StableCells THEN image[c] ELSE FreeCell],
   dirty |-> {}]
=============================================================================
