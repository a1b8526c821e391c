------------------------------ MODULE HiveDisk ------------------------------
(***************************************************************************)
(* The stable store of a hive and its copy in the primary file: the dirty  *)
(* bits that the allocator and its callers set (core/hivecell.cpp,         *)
(* core/hivebin.cpp) must lead HvSyncHive (core/hivewrt.cpp) to every      *)
(* block that changed, because the store that the next load builds         *)
(* (core/hiveinit.cpp) is made of the blocks on disk.                      *)
(*                                                                         *)
(* Of the file we need to know only which blocks lack something that a     *)
(* load reads: the headers of the cells, and the contents of the cells in  *)
(* use.  The links of the free lists are not of this kind.  They stand in  *)
(* free cells; HvpFindFree and HvpRemoveFree unlink through another free   *)
(* cell, perhaps of another block, and a load links all free cells, all of *)
(* which sets no dirty bit.  The file may therefore hold other links than  *)
(* the memory, also in a block that is clean.  No load reads them:         *)
(* HvpCreateHiveFreeCellList makes the lists from the headers alone.       *)
(* HiveSync describes how a block gets to the file; here that succeeds.    *)
(***************************************************************************)
EXTENDS HiveCells

ASSUME StableAssumption == Storage = "Stable"

VARIABLE stale    \* the blocks that are not in the file yet, or whose cell headers
                  \* or contents of cells in use are not those in memory

\* The blocks over which s units from the offset o on extend.
Span(o, s) == HvGetCellBlock(o) .. HvGetCellBlock(o + s - 1)

\* The blocks that hold a cell header of d that c does not have.  Links of the free
\* lists, which an operation may change in other blocks as well, are not counted.
NewHeaders(c, d) ==
  {HvGetCellBlock(o) : o \in {p \in Cells(d) : d.Cell[p] # c.Cell[p]}}

Relinked(more) == stale' = stale \cup NewHeaders(dual, dual') \cup more

\* The contents of the cell taken for a request; HvAllocateCell zeroes them.
Taken(new) ==
  IF new.index = HCELL_NIL THEN {}
  ELSE Span(new.index, -new.dual.Cell[new.index])

\* The blocks of a bin that has just been added: none of them is in the file.
Added == dual.Length .. dual'.Length - 1

AllocateAndZero(Size, memory) ==
  /\ AllocateCell(Size, memory)
  /\ Relinked(Added \cup Taken(HvAllocateCell(dual, Size, memory)))

ReallocateAndCopy(o, Size, memory) ==
  /\ ReallocateCell(o, Size, memory)
  /\ Relinked(Added \cup IF Relocates(dual, o, Size)
                         THEN Taken(HvAllocateCell(dual, Size, memory)) ELSE {})

Free(o) == FreeCell(o) /\ Relinked({})

\* A caller writes into its cell and calls HvMarkCellDirty.
WriteCell(o) ==
  /\ MarkCellDirty(o)
  /\ Relinked(Span(o, -dual.Cell[o]))

\* HvSyncHive writes the dirty blocks to the file and clears the bits.
HvSyncHive ==
  /\ dual.Dirty # {}
  /\ stale' = stale \ dual.Dirty
  /\ dual' = [dual EXCEPT !.Dirty = {}]

\* Mutant of HvpCreateHiveFreeCellList: all free cells go on one list.
HvpCreateHiveFreeCellListOne(d) ==
  MapThenFoldSet(LAMBDA o, fd : HvpAddFree(fd, o, HBIN), EmptyDual.FreeDisplay,
                 LAMBDA o : o, LAMBDA S : Max(S), FreeCells(d))

(***************************************************************************)
(* The lists are made anew by a walk over the cells of all bins, which     *)
(* pushes each free cell on the list of its class.                         *)
(***************************************************************************)
HvpCreateHiveFreeCellList(d) ==
  MapThenFoldSet(LAMBDA o, fd : HvpAddFree(fd, o, d.Cell[o]), EmptyDual.FreeDisplay,
                 LAMBDA o : o, LAMBDA S : Max(S), FreeCells(d))

\* The hive is loaded from a file to which all of it has been written.  Making the
\* lists writes a link into every free cell, which counts for nothing in stale.
HvpInitializeFileHive ==
  /\ dual.Dirty = {} /\ stale = {}
  /\ dual' = [dual EXCEPT !.FreeDisplay = HvpCreateHiveFreeCellList(dual)]
  /\ UNCHANGED stale

DiskInit == Init /\ stale = {}

DiskNext ==
  \/ \E Size \in Requests, memory \in BOOLEAN : AllocateAndZero(Size, memory)
  \/ \E o \in AllocatedCells(dual), Size \in Requests, memory \in BOOLEAN :
       ReallocateAndCopy(o, Size, memory)
  \/ \E o \in AllocatedCells(dual) : Free(o)
  \/ \E o \in AllocatedCells(dual) : WriteCell(o)
  \/ HvSyncHive
  \/ HvpInitializeFileHive

DiskSpec == DiskInit /\ [][DiskNext]_<<dual, stale>>

-----------------------------------------------------------------------------

\* The variables have their types.
DiskTypeOK == TypeOK /\ stale \subseteq Blocks

(***************************************************************************)
(* The dirty bitmap tracks the parts of the hive that were modified: a     *)
(* block that is not dirty has in the file the cell headers, and the       *)
(* contents of the cells in use, that it has in memory (though perhaps     *)
(* other links in its free cells, which nobody reads there).  HvSyncHive,  *)
(* which writes dirty blocks only, therefore leaves in the file all that   *)
(* a load makes the store of.                                              *)
(***************************************************************************)
StaleBlocksAreDirty == stale \subseteq dual.Dirty
=============================================================================
