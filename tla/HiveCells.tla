------------------------------ MODULE HiveCells ------------------------------
(***************************************************************************)
(* The cell allocator of a hive (core/hivecell.cpp, core/hivebin.cpp).     *)
(*                                                                         *)
(* A hive keeps two independent stores, Storage[Stable] and                *)
(* Storage[Volatile].  Each is a row of blocks grouped into bins; a bin    *)
(* starts with a header and is cut into cells that follow one another up   *)
(* to its end.  A cell header is a signed size: positive when the cell is  *)
(* free, negative when it is in use.  Free cells hang on 24 lists by size  *)
(* class.  No operation of the allocator touches both stores, so this      *)
(* module describes one of them, the value of the variable "dual" (the     *)
(* code's type DUAL); the constant Storage says which.                     *)
(*                                                                         *)
(* Sizes and offsets are counted in units of 16 bytes, the granularity to  *)
(* which HvAllocateCell rounds; requests are in bytes, as in the code.     *)
(* The operators map one value of "dual" to the next, so that              *)
(* HvReallocateCell is the composition of the two calls it makes.          *)
(***************************************************************************)
EXTENDS Integers, SequencesExt

CONSTANTS
  HBLOCK,       \* units in a block (HBLOCK_SIZE is 256 units of 16 bytes)
  MaxBlocks,    \* bound: the blocks the store can grow to
  Requests,     \* the byte counts that callers ask for
  Storage       \* "Stable" or "Volatile"

ASSUME HBLOCKAssumption == HBLOCK \in Nat /\ HBLOCK > 3
ASSUME MaxBlocksAssumption == MaxBlocks \in Nat \ {0}
ASSUME RequestsAssumption == Requests \subseteq Nat
ASSUME StorageAssumption == Storage \in {"Stable", "Volatile"}

VARIABLE dual

HBIN      == 2                          \* units of a bin header (32 bytes)
HCELL_NIL == -1
Blocks    == 0 .. MaxBlocks - 1
Offsets   == 0 .. MaxBlocks * HBLOCK - 1
Lists     == 0 .. 23

(***************************************************************************)
(* The store: its length in blocks; for each block the first block of its  *)
(* bin; the blocks of the bin that starts at a block (0: none); the cell   *)
(* header at each offset (0: none there); the free lists; and the dirty    *)
(* bits (kept for the stable store only).                                  *)
(***************************************************************************)
DualType ==
  [Length      : 0 .. MaxBlocks,
   BlockList   : [Blocks -> Blocks \cup {HCELL_NIL}],
   BinSize     : [Blocks -> 0 .. MaxBlocks],
   Cell        : [Offsets -> Int],
   FreeDisplay : [Lists -> Seq(Offsets)],
   Dirty       : SUBSET Blocks]

EmptyDual ==
  [Length      |-> 0,
   BlockList   |-> [b \in Blocks |-> HCELL_NIL],
   BinSize     |-> [b \in Blocks |-> 0],
   Cell        |-> [o \in Offsets |-> 0],
   FreeDisplay |-> [k \in Lists |-> << >>],
   Dirty       |-> {}]

HvGetCellBlock(o) == o \div HBLOCK
BinOf(d, o)  == d.BlockList[HvGetCellBlock(o)]
BinEnd(d, b) == (b + d.BinSize[b]) * HBLOCK

\* ROUND_UP(Size + sizeof(HCELL), 16), in units
CellUnits(Size) == (Size + 4 + 15) \div 16

(***************************************************************************)
(* Size class of a cell: one list for each multiple of 8 bytes below 136,  *)
(* one for each power of two up to 1 Kbyte, one for all that is larger.    *)
(***************************************************************************)
HvpComputeFreeListIndex(s) ==
  LET i == 2 * s - 1
  IN  CASE i < 16         -> i
        [] i \in 16 .. 31  -> 20
        [] i \in 32 .. 63  -> 21
        [] i \in 64 .. 127 -> 22
        [] OTHER           -> 23

\* Push the free cell o of s units on the list of its class.
HvpAddFree(fd, o, s) ==
  [fd EXCEPT ![HvpComputeFreeListIndex(s)] = <<o>> \o @]

\* Unlink the free cell o of s units from the list of its class.
HvpRemoveFree(fd, o, s) ==
  LET k == HvpComputeFreeListIndex(s)
  IN  IF \E i \in DOMAIN fd[k] : fd[k][i] = o
      THEN [fd EXCEPT ![k] = RemoveAt(fd[k], CHOOSE i \in DOMAIN fd[k] : fd[k][i] = o)]
      ELSE fd

(***************************************************************************)
(* First fit: the lists from the class of s up, each from its head; NIL    *)
(* when no listed cell has s units.                                        *)
(***************************************************************************)
Fitting(d, k, s) ==
  {i \in DOMAIN d.FreeDisplay[k] : d.Cell[d.FreeDisplay[k][i]] >= s}

\* Mutant of HvpFindFree: only the list of the class of s is searched.
HvpFindFreeInClass(d, s) ==
  LET k == HvpComputeFreeListIndex(s)
  IN  IF Fitting(d, k, s) = {} THEN HCELL_NIL ELSE d.FreeDisplay[k][Min(Fitting(d, k, s))]

HvpFindFree(d, s) ==
  LET ks == {k \in HvpComputeFreeListIndex(s) .. 23 : Fitting(d, k, s) # {}}
  IN  IF ks = {} THEN HCELL_NIL ELSE d.FreeDisplay[Min(ks)][Min(Fitting(d, Min(ks), s))]

\* Mutant of DirtyBits: the last block is included.
DirtyBitsToLast(o) ==
  IF Storage = "Stable"
  THEN HvGetCellBlock(o) .. (16 * o + 16 * HBLOCK - 1) \div (16 * HBLOCK)
  ELSE {}

(***************************************************************************)
(* Dirty bits are set from the block of the cell up to, and without, the   *)
(* block of the byte HBLOCK_SIZE - 1 further on: one bit, or none for a    *)
(* cell that starts exactly on a block boundary.                           *)
(***************************************************************************)
DirtyBits(o) ==
  IF Storage = "Stable"
  THEN HvGetCellBlock(o) .. ((16 * o + 16 * HBLOCK - 1) \div (16 * HBLOCK)) - 1
  ELSE {}

HvMarkCellDirty(d, o) == [d EXCEPT !.Dirty = @ \cup DirtyBits(o)]

\* Blocks of the bin made for a cell of s units.
BinBlocks(s) == (s + HBIN + HBLOCK - 1) \div HBLOCK

\* Mutant of HvpAddBin: the length of the store counts the new block once too often.
HvpAddBinTooLong(d, s) ==
  LET n   == BinBlocks(s)
      b   == d.Length
      new == b .. b + n - 1
  IN  [d EXCEPT
        !.Length    = b + n + 1,
        !.BlockList = [i \in Blocks |-> IF i \in new THEN b ELSE @[i]],
        !.BinSize   = [@ EXCEPT ![b] = n],
        !.Cell      = [@ EXCEPT ![b * HBLOCK + HBIN] = n * HBLOCK - HBIN],
        !.Dirty     = @ \cup (IF Storage = "Stable" THEN new ELSE {})]

(***************************************************************************)
(* A new bin at the end of the store, wholly dirty, with one free cell     *)
(* that is put on no list: the caller uses it at once.                     *)
(***************************************************************************)
HvpAddBin(d, s) ==
  LET n   == BinBlocks(s)
      b   == d.Length
      new == b .. b + n - 1
  IN  [d EXCEPT
        !.Length    = b + n,
        !.BlockList = [i \in Blocks |-> IF i \in new THEN b ELSE @[i]],
        !.BinSize   = [@ EXCEPT ![b] = n],
        !.Cell      = [@ EXCEPT ![b * HBLOCK + HBIN] = n * HBLOCK - HBIN],
        !.Dirty     = @ \cup (IF Storage = "Stable" THEN new ELSE {})]

\* Mutant of Carve: the remainder gets the size of the whole cell.
CarveWhole(d, o, s) ==
  LET size == d.Cell[o]
  IN  IF size > s + 1
      THEN [d EXCEPT
             !.Cell        = [@ EXCEPT ![o] = -s, ![o + s] = size],
             !.FreeDisplay = HvpAddFree(@, o + s, size),
             !.Dirty       = @ \cup DirtyBits(o + s) \cup DirtyBits(o)]
      ELSE [d EXCEPT
             !.Cell        = [@ EXCEPT ![o] = -size],
             !.Dirty       = @ \cup DirtyBits(o)]

(***************************************************************************)
(* Use the free, unlisted cell o for s units.  What is left over becomes a *)
(* free cell of its own when it is more than one unit.                     *)
(***************************************************************************)
Carve(d, o, s) ==
  LET size == d.Cell[o]
  IN  IF size > s + 1
      THEN [d EXCEPT
             !.Cell        = [@ EXCEPT ![o] = -s, ![o + s] = size - s],
             !.FreeDisplay = HvpAddFree(@, o + s, size - s),
             !.Dirty       = @ \cup DirtyBits(o + s) \cup DirtyBits(o)]
      ELSE [d EXCEPT
             !.Cell        = [@ EXCEPT ![o] = -size],
             !.Dirty       = @ \cup DirtyBits(o)]

\* May the allocation of a bin for s units succeed?
Room(d, s) == d.Length + BinBlocks(s) <= MaxBlocks

(***************************************************************************)
(* The cell taken for a request and the store afterwards.  "memory" is     *)
(* FALSE when the allocation of a bin fails, should one be needed.         *)
(***************************************************************************)
HvAllocateCell(d, Size, memory) ==
  LET s   == CellUnits(Size)
      o   == HvpFindFree(d, s)
      new == d.Length * HBLOCK + HBIN
  IN  IF o # HCELL_NIL
      THEN [index |-> o,
            dual  |-> Carve([d EXCEPT !.FreeDisplay =
                                 HvpRemoveFree(@, o, d.Cell[o])], o, s)]
      ELSE IF memory /\ Room(d, s)
      THEN [index |-> new, dual |-> Carve(HvpAddBin(d, s), new, s)]
      ELSE [index |-> HCELL_NIL, dual |-> d]

(***************************************************************************)
(* Free the cell o.  A free right neighbour in the bin is unlinked and     *)
(* swallowed.  Then a free left neighbour swallows the result, and changes *)
(* lists only if that changes its class; without one the cell is listed.   *)
(***************************************************************************)
LeftNeighbours(d, o) ==
  {p \in BinOf(d, o) * HBLOCK + HBIN .. o - 1 : d.Cell[p] > 0 /\ p + d.Cell[p] = o}

MergeRight(d, o) ==
  LET size == -d.Cell[o]
      next == o + size
  IN  IF next < BinEnd(d, BinOf(d, o)) /\ d.Cell[next] > 0
      THEN [d EXCEPT
             !.Cell        = [@ EXCEPT ![o] = size + d.Cell[next], ![next] = 0],
             !.FreeDisplay = HvpRemoveFree(@, next, d.Cell[next])]
      ELSE [d EXCEPT !.Cell = [@ EXCEPT ![o] = size]]

\* Mutant of MergeLeft: the grown cell's block is not marked.
MergeLeftClean(d, p, o) ==
  LET size   == d.Cell[p]
      merged == d.Cell[p] + d.Cell[o]
      same   == HvpComputeFreeListIndex(size) = HvpComputeFreeListIndex(merged)
  IN  [d EXCEPT
        !.Cell        = [@ EXCEPT ![p] = merged, ![o] = 0],
        !.FreeDisplay = IF same THEN @
                        ELSE HvpAddFree(HvpRemoveFree(@, p, size), p, merged)]

\* Mutant of MergeLeft: the cell stays on the list of the class it had.
MergeLeftUnlisted(d, p, o) ==
  [d EXCEPT
    !.Cell  = [@ EXCEPT ![p] = d.Cell[p] + d.Cell[o], ![o] = 0],
    !.Dirty = @ \cup DirtyBits(p)]

MergeLeft(d, p, o) ==
  LET size   == d.Cell[p]
      merged == d.Cell[p] + d.Cell[o]
      same   == HvpComputeFreeListIndex(size) = HvpComputeFreeListIndex(merged)
  IN  [d EXCEPT
        !.Cell        = [@ EXCEPT ![p] = merged, ![o] = 0],
        !.FreeDisplay = IF same THEN @
                        ELSE HvpAddFree(HvpRemoveFree(@, p, size), p, merged),
        !.Dirty       = @ \cup DirtyBits(p)]

\* Mutant of HvFreeCell: the left neighbour is sought only if the right one is in use.
HvFreeCellOneSide(d, o) ==
  LET r == MergeRight(d, o)
  IN  IF LeftNeighbours(r, o) # {} /\ r.Cell[o] = -d.Cell[o]
      THEN MergeLeft(r, CHOOSE p \in LeftNeighbours(r, o) : TRUE, o)
      ELSE [r EXCEPT !.FreeDisplay = HvpAddFree(@, o, r.Cell[o]),
                     !.Dirty       = @ \cup DirtyBits(o)]

HvFreeCell(d, o) ==
  LET r == MergeRight(d, o)
  IN  IF LeftNeighbours(r, o) # {}
      THEN MergeLeft(r, CHOOSE p \in LeftNeighbours(r, o) : TRUE, o)
      ELSE [r EXCEPT !.FreeDisplay = HvpAddFree(@, o, r.Cell[o]),
                     !.Dirty       = @ \cup DirtyBits(o)]

(***************************************************************************)
(* A larger request, or one below half of the cell, moves it to another    *)
(* cell; the old one is freed after the new one has been taken.            *)
(***************************************************************************)
HvGetCellSize(d, o) == -16 * d.Cell[o] - 4

Relocates(d, o, Size) ==
  Size > HvGetCellSize(d, o) \/ Size < HvGetCellSize(d, o) \div 2

\* Mutant of HvReallocateCell: the old cell is freed before the new one is taken.
HvReallocateCellInPlace(d, o, Size, memory) ==
  LET new == HvAllocateCell(HvFreeCell(d, o), Size, memory)
  IN  IF Relocates(d, o, Size) /\ new.index # HCELL_NIL THEN new.dual ELSE d

HvReallocateCell(d, o, Size, memory) ==
  LET new == HvAllocateCell(d, Size, memory)
  IN  IF Relocates(d, o, Size) /\ new.index # HCELL_NIL
      THEN HvFreeCell(new.dual, o)
      ELSE d

-----------------------------------------------------------------------------

AllocatedCells(d) == {o \in Offsets : d.Cell[o] < 0}
FreeCells(d)      == {o \in Offsets : d.Cell[o] > 0}

Init == dual = EmptyDual

AllocateCell(Size, memory) == dual' = HvAllocateCell(dual, Size, memory).dual

ReallocateCell(o, Size, memory) == dual' = HvReallocateCell(dual, o, Size, memory)

FreeCell(o) == dual' = HvFreeCell(dual, o)

MarkCellDirty(o) == dual' = HvMarkCellDirty(dual, o)

Next ==
  \/ \E Size \in Requests, memory \in BOOLEAN : AllocateCell(Size, memory)
  \/ \E o \in AllocatedCells(dual), Size \in Requests, memory \in BOOLEAN :
       ReallocateCell(o, Size, memory)
  \/ \E o \in AllocatedCells(dual) : FreeCell(o)
  \/ \E o \in AllocatedCells(dual) : MarkCellDirty(o)

Spec == Init /\ [][Next]_dual

-----------------------------------------------------------------------------

\* The fields of the store have their types.
TypeOK == dual \in DualType

(***************************************************************************)
(* The bins tile the store: the bin of every block starts at that block or *)
(* before it, covers it, and stays inside the store, and only those bins   *)
(* exist.                                                                  *)
(***************************************************************************)
Bins(d) == {b \in Blocks : d.BinSize[b] > 0}

BinsTile(d) ==
  /\ \A b \in Blocks : b < d.Length =>
       /\ d.BlockList[b] \in Bins(d)
       /\ d.BlockList[b] <= b
       /\ b < d.BlockList[b] + d.BinSize[d.BlockList[b]]
  /\ \A b \in Bins(d) :
       /\ b + d.BinSize[b] <= d.Length
       /\ \A i \in b .. b + d.BinSize[b] - 1 : d.BlockList[i] = b

(***************************************************************************)
(* The cells tile each bin: the first follows the bin header, each is      *)
(* followed by another or by the end of its bin, and none starts inside    *)
(* another.  A walk over the headers of a bin, as HvFreeCell and           *)
(* HvpCreateHiveFreeCellList do, therefore visits every cell and stops at  *)
(* the end of the bin.                                                     *)
(***************************************************************************)
Abs(n) == IF n < 0 THEN -n ELSE n
Cells(d) == {o \in Offsets : d.Cell[o] # 0}
CellEnd(d, o) == o + Abs(d.Cell[o])

CellsTile(d) ==
  /\ \A b \in Bins(d) : d.Cell[b * HBLOCK + HBIN] # 0
  /\ \A o \in Cells(d) :
       /\ HvGetCellBlock(o) < d.Length
       /\ BinOf(d, o) * HBLOCK + HBIN <= o
       /\ CellEnd(d, o) <= BinEnd(d, BinOf(d, o))
       /\ CellEnd(d, o) < BinEnd(d, BinOf(d, o)) => d.Cell[CellEnd(d, o)] # 0
       /\ \A p \in o + 1 .. CellEnd(d, o) - 1 : d.Cell[p] = 0

CellsTileBins == BinsTile(dual) /\ CellsTile(dual)

(***************************************************************************)
(* A list holds exactly the free cells of its class, each once: no free    *)
(* cell is lost, none is handed out twice, none hangs on a stale list      *)
(* after it grew, and HvpRemoveFree always finds what it looks for (its    *)
(* ASSERT(FALSE) is not reached).                                          *)
(***************************************************************************)
ListsExact(d) ==
  \A k \in Lists :
    /\ IsInjective(d.FreeDisplay[k])
    /\ Range(d.FreeDisplay[k]) =
         {o \in FreeCells(d) : HvpComputeFreeListIndex(d.Cell[o]) = k}

FreeListsExact == ListsExact(dual)

(***************************************************************************)
(* Freeing merges completely: no two free cells of a bin are neighbours,   *)
(* whatever the order in which they were freed.                            *)
(***************************************************************************)
Coalesced(d) ==
  \A o \in FreeCells(d) :
    CellEnd(d, o) < BinEnd(d, BinOf(d, o)) => d.Cell[CellEnd(d, o)] < 0

FreeCellsCoalesced == Coalesced(dual)

(***************************************************************************)
(* A request adds a bin, or fails, only if no free cell could have served  *)
(* it: the search by size class misses none.  Said of every request that   *)
(* could come in the present state, of an allocation and of a reallocation *)
(* that has to move its cell; such a reallocation fails when it returns    *)
(* the store as it was.                                                    *)
(***************************************************************************)
Full(d, Size) == \A o \in FreeCells(d) : d.Cell[o] < CellUnits(Size)

GrowsOrFailsOnlyWhenFull ==
  \A Size \in Requests, memory \in BOOLEAN :
    /\ LET new == HvAllocateCell(dual, Size, memory)
       IN  new.index = HCELL_NIL \/ new.dual.Length # dual.Length => Full(dual, Size)
    /\ \A o \in AllocatedCells(dual) : Relocates(dual, o, Size) =>
         LET moved == HvReallocateCell(dual, o, Size, memory)
         IN  moved = dual \/ moved.Length # dual.Length => Full(dual, Size)

(***************************************************************************)
(* The cells in use behave as the abstract heap promises: allocation,      *)
(* splitting, merging and relocation never hand out or clobber a cell that *)
(* somebody uses.                                                          *)
(***************************************************************************)
Heap == INSTANCE CellHeap
          WITH Sizes   <- 1 .. MaxBlocks * HBLOCK,
               extents <- {<<o, -dual.Cell[o]>> : o \in AllocatedCells(dual)}

HeapSpec == Heap!Spec
==============================================================================
