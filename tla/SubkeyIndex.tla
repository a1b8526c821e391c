----------------------------- MODULE SubkeyIndex -----------------------------
(***************************************************************************)
(* The index of the subkeys of one stable key (core/cmindex.cpp), as the   *)
(* creation and deletion of keys (core/cmi.cpp, core/cmkeydel.cpp) and the *)
(* check of a loaded hive (core/cmcheck.cpp) use it.                       *)
(*                                                                         *)
(* The key keeps an index per storage type.  An index is a single leaf     *)
(* that lists the subkeys in the order of their names or, when there are   *)
(* too many, a root that lists leaves.  Leaves come in three forms, which  *)
(* differ in the size of an entry and in their limits.  Lists live in      *)
(* cells that move when they grow, so that every cell index held elsewhere *)
(* has to follow, and every changed cell has to be marked dirty or the     *)
(* change does not reach the file.                                         *)
(*                                                                         *)
(* A cell index is a pair of a storage type and a number.  A subkey is     *)
(* known by its cell, <<storage type, name>>, and names are numbers: of a  *)
(* name the index uses the comparison only.  The hint in a fast leaf is a  *)
(* prefix of the name, compared in the same order, and the hash key in a   *)
(* hash leaf a function of the upcased name; a full comparison follows     *)
(* both where they agree.  Allocations succeed: where one fails,           *)
(* CmpAddSubKey is at an ASSERT that the case is not handled.  Positions   *)
(* in lists count from 0, as in the code.                                  *)
(***************************************************************************)
EXTENDS Integers, FiniteSets, SequencesExt

CONSTANTS
  Names,         \* the names of subkeys, a set of numbers
  Subkeys,       \* which subkeys are created, pairs <<storage type, name>>
  Versions,      \* the versions of hives
  CmpMaxFastIndexPerHblock,    \* the limit of a fast leaf
  CmpMaxIndexPerHblock         \* the limit of a leaf in a root

ASSUME NamesAssumption == Names \subseteq Nat

\* 4 is HSYS_WHISTLER_BETA1, 5 is HSYS_WHISTLER.
ASSUME VersionsAssumption == Versions \subseteq 3 .. 5

\* A leaf that is split has two halves, and a fast leaf can become a plain one.
ASSUME LimitsAssumption ==
  /\ CmpMaxFastIndexPerHblock \in Nat \ {0}
  /\ CmpMaxIndexPerHblock \in Nat \ {0, 1}
  /\ CmpMaxFastIndexPerHblock < CmpMaxIndexPerHblock

VARIABLE hive    \* the version, the index cells, dirty cells, and the key's node

HSTORAGE_TYPE == <<"Stable", "Volatile">>
Storages == Range(HSTORAGE_TYPE)

ASSUME SubkeysAssumption == Subkeys \subseteq Storages \X Names

HCELL_NIL == <<"Nil", 0>>
CMP_VOLATILE_LIST_UNINTIALIZED == <<"Nil", 1>>
ParentKey == <<"Stable", 0>>

HvGetCellType(c) == c[1]
NameOf(key) == key[2]

CM_KEY_INDEX_LEAF == "li"
CM_KEY_FAST_LEAF  == "lf"
CM_KEY_HASH_LEAF  == "lh"
CM_KEY_INDEX_ROOT == "ri"

EntrySize(Signature) ==
  IF Signature \in {CM_KEY_FAST_LEAF, CM_KEY_HASH_LEAF} THEN 8 ELSE 4

ListOffset == 4    \* where the list starts in an index cell

\* How many entries fit into the cell of an index.
Capacity(index) == (index.Size - ListOffset) \div EntrySize(index.Signature)

\* Mutant of Full: the cell grows one entry too late.
FullLate(index) == Len(index.List) > Capacity(index)

\* Is there no room for another entry?
Full(index) == Len(index.List) >= Capacity(index)

-----------------------------------------------------------------------------
(***************************************************************************)
(* Cells.  Allocated cells are dirty, dirt counts in the stable store      *)
(* only, and a cell of n bytes offers what HvGetCellSize returns.          *)
(***************************************************************************)
CellSize(n) == 16 * ((n + 19) \div 16) - 4

HvMarkCellDirty(h, c) ==
  IF HvGetCellType(c) = "Stable" THEN [h EXCEPT !.Dirty = @ \cup {c}] ELSE h

NewCell(h, Type) ==
  <<Type, Min({n \in 1 .. Cardinality(DOMAIN h.Cell) + 1 : <<Type, n>> \notin DOMAIN h.Cell})>>

HvAllocateCell(h, c, Size, Signature, List) ==
  HvMarkCellDirty(
    [h EXCEPT !.Cell = [d \in DOMAIN @ \cup {c} |->
                          IF d = c THEN [Signature |-> Signature, List |-> List,
                                         Size |-> CellSize(Size)]
                          ELSE @[d]]], c)

HvFreeCell(h, c) ==
  [h EXCEPT !.Cell  = Restrict(@, DOMAIN @ \ {c}),
            !.Dirty = @ \ {c}]

\* The list in the cell c is overwritten.
PutList(h, c, List) == [h EXCEPT !.Cell[c].List = List]

\* The cell c moves to the cell new of Size bytes.
HvReallocateCell(h, c, new, Size) ==
  HvFreeCell(HvAllocateCell(h, new, Size, h.Cell[c].Signature, h.Cell[c].List), c)

-----------------------------------------------------------------------------
(***************************************************************************)
(* Searching.  Both searches narrow an interval of positions down to two   *)
(* neighbours, or to one: Cmp[i] is negative, zero or positive when what   *)
(* is sought comes before, is at, or comes after the position i.           *)
(***************************************************************************)
\* One round: the position in the middle becomes an end of the interval, or both.
Round(Cmp, at) ==
  LET i == (at.High - at.Low) \div 2 + at.Low
  IN  [Low  |-> IF Cmp[i] >= 0 THEN i ELSE at.Low,
       High |-> IF Cmp[i] <= 0 THEN i ELSE at.High]

Narrow(Cmp) ==
  LET f[at \in [Low : DOMAIN Cmp, High : DOMAIN Cmp]] ==
        LET next == Round(Cmp, at)
        IN  IF next.High - next.Low <= 1 THEN next ELSE f[next]
  IN  f[[Low |-> 0, High |-> Cardinality(DOMAIN Cmp) - 1]]

\* CmpCompareInIndex and CmpDoCompareKeyName.
CmpCompareInIndex(Name, List, i) == Name - NameOf(List[i + 1])

(***************************************************************************)
(* The position of Name in a leaf, or a neighbour of the place where it    *)
(* would be, and the subkey found.                                         *)
(***************************************************************************)
CmpFindSubKeyInLeaf(List, Name) ==
  IF List = <<>> THEN [Index |-> 0, SubKey |-> HCELL_NIL]
  ELSE LET Cmp == [i \in 0 .. Len(List) - 1 |-> CmpCompareInIndex(Name, List, i)]
           Nearest(at) == IF Cmp[at.Low] <= 0 THEN at.Low ELSE at.High
           i == Nearest(Narrow(Cmp))
       IN  [Index  |-> i,
            SubKey |-> IF Cmp[i] = 0 THEN List[i + 1] ELSE HCELL_NIL]

\* Mutant of CompareWithLeaf: the first name of a leaf counts as before it.
CompareWithLeafOpen(Name, List) ==
  IF CmpCompareInIndex(Name, List, Len(List) - 1) > 0 THEN 1
  ELSE IF CmpCompareInIndex(Name, List, 0) <= 0 THEN -1 ELSE 0

\* Where Name is with respect to the names of a leaf, the last one first.
CompareWithLeaf(Name, List) ==
  IF CmpCompareInIndex(Name, List, Len(List) - 1) > 0 THEN 1
  ELSE IF CmpCompareInIndex(Name, List, 0) < 0 THEN -1 ELSE 0

(***************************************************************************)
(* The leaf of a root that has Name, or has to take it.  A name between    *)
(* two leaves belongs to the right one; a name before the first or after   *)
(* the last leaf yields the position of that leaf and HCELL_NIL.           *)
(***************************************************************************)
CmpFindSubKeyInRoot(h, root, Name) ==
  LET List   == h.Cell[root].List
      Cmp    == [i \in 0 .. Len(List) - 1 |-> CompareWithLeaf(Name, h.Cell[List[i + 1]].List)]
      Between(at) ==
        LET right  == Cmp[at.Low] > 0
            i      == IF right THEN at.High ELSE at.Low
            inside == IF right THEN Cmp[i] <= 0 ELSE Cmp[i] = 0
        IN  [Index |-> i, SubKey |-> IF inside THEN List[i + 1] ELSE HCELL_NIL]
  IN  Between(Narrow(Cmp))

\* The leaf in which to look for Name: that of the root, or the only one.
LeafFor(h, Type, Name) ==
  LET c == h.SubKeyLists[Type]
  IN  IF h.Cell[c].Signature = CM_KEY_INDEX_ROOT
      THEN CmpFindSubKeyInRoot(h, c, Name)
      ELSE [Index |-> 0, SubKey |-> c]

\* The first subkey of that name, in a leaf that is searched from its start.
CmpFindSubKeyByHash(List, Name) ==
  LET at == {i \in DOMAIN List : NameOf(List[i]) = Name}
  IN  IF at = {} THEN HCELL_NIL ELSE List[Min(at)]

\* The subkey called Name in the index of one storage type.
FindInStorage(h, Type, Name) ==
  IF h.SubKeyCounts[Type] = 0 THEN HCELL_NIL
  ELSE LET leaf == LeafFor(h, Type, Name).SubKey
       IN  IF leaf = HCELL_NIL THEN HCELL_NIL
           ELSE IF h.Cell[leaf].Signature = CM_KEY_HASH_LEAF
                THEN CmpFindSubKeyByHash(h.Cell[leaf].List, Name)
                ELSE CmpFindSubKeyInLeaf(h.Cell[leaf].List, Name).SubKey

\* The stable index is searched first.
CmpFindSubKeyByName(h, Name) ==
  LET stable == FindInStorage(h, HSTORAGE_TYPE[1], Name)
  IN  IF stable # HCELL_NIL THEN stable ELSE FindInStorage(h, HSTORAGE_TYPE[2], Name)

\* The subkey with a number in the lists of some leaves: those before its own are
\* skipped.  Behind the last leaf the code is at an ASSERT.
NumberInLeaves(Lists, Number) ==
  LET In[at \in [Leaf : DOMAIN Lists, Number : 0 .. Number]] ==
        IF at.Number < Len(Lists[at.Leaf]) THEN Lists[at.Leaf][at.Number + 1]
        ELSE IF at.Leaf < Len(Lists)
        THEN In[[Leaf |-> at.Leaf + 1, Number |-> at.Number - Len(Lists[at.Leaf])]]
        ELSE HCELL_NIL
  IN  In[[Leaf |-> 1, Number |-> Number]]

CmpDoFindSubKeyByNumber(h, c, Number) ==
  LET List == h.Cell[c].List
  IN  IF h.Cell[c].Signature = CM_KEY_INDEX_ROOT
      THEN NumberInLeaves([i \in DOMAIN List |-> h.Cell[List[i]].List], Number)
      ELSE List[Number + 1]

\* Mutant of CmpFindSubKeyByNumber: a number is used as it is in the volatile index.
CmpFindSubKeyByNumberTwice(h, Number) ==
  LET stable == h.SubKeyCounts["Stable"]
  IN  IF Number < stable
      THEN CmpDoFindSubKeyByNumber(h, h.SubKeyLists["Stable"], Number)
      ELSE IF Number < h.SubKeyCounts["Volatile"]
      THEN CmpDoFindSubKeyByNumber(h, h.SubKeyLists["Volatile"], Number)
      ELSE HCELL_NIL

\* Numbers go on in the volatile index where the stable one ends.
CmpFindSubKeyByNumber(h, Number) ==
  LET stable == h.SubKeyCounts["Stable"]
  IN  IF Number < stable
      THEN CmpDoFindSubKeyByNumber(h, h.SubKeyLists["Stable"], Number)
      ELSE IF Number - stable < h.SubKeyCounts["Volatile"]
      THEN CmpDoFindSubKeyByNumber(h, h.SubKeyLists["Volatile"], Number - stable)
      ELSE HCELL_NIL

-----------------------------------------------------------------------------
(***************************************************************************)
(* Adding a subkey.                                                        *)
(***************************************************************************)
Grown(index) ==
  Max({index.Size + index.Size \div 2, index.Size + EntrySize(index.Signature)})

\* Mutant of InsertionPoint: always at the position found.
InsertionPointBefore(List, Name) == CmpFindSubKeyInLeaf(List, Name).Index

\* The place for Name in a leaf: at the position found, or after it.
InsertionPoint(List, Name) ==
  LET i == CmpFindSubKeyInLeaf(List, Name).Index
  IN  IF i # Len(List) /\ CmpCompareInIndex(Name, List, i) > 0 THEN i + 1 ELSE i

(***************************************************************************)
(* Enter a subkey in the leaf c, which moves to a cell of half as much     *)
(* again when it is full.                                                  *)
(***************************************************************************)
CmpAddToLeaf(h, c, key) ==
  LET index == h.Cell[c]
      full  == Full(index)
      new   == IF full THEN NewCell(h, HvGetCellType(c)) ELSE c
      h1    == HvMarkCellDirty(h, c)
      h2    == IF full THEN HvReallocateCell(h1, c, new, Grown(index)) ELSE h1
      i     == InsertionPoint(index.List, NameOf(key))
  IN  [Cell |-> new,
       hive |-> PutList(h2, new, InsertAt(index.List, i + 1, key))]

\* Mutant of LastHalf: the last entry is left behind.
LastHalfShort(n) == n - n \div 2 - 1

\* How many of n entries go to the new leaf.
LastHalf(n) == n - n \div 2

(***************************************************************************)
(* Split the leaf at a position of the root: its second half moves to a    *)
(* new leaf, which the root, grown by an entry if it is full, lists next.  *)
(***************************************************************************)
CmpSplitLeaf(h, Type, RootSelect) ==
  LET root      == h.SubKeyLists[Type]
      leaf      == h.Cell[root].List[RootSelect + 1]
      List      == h.Cell[leaf].List
      FirstHalf == Len(List) \div 2
      Count     == LastHalf(Len(List))
      Signature == IF h.Version >= 5 THEN CM_KEY_HASH_LEAF ELSE CM_KEY_INDEX_LEAF
      new       == NewCell(h, Type)
      h1        == HvAllocateCell(HvMarkCellDirty(h, leaf), new,
                                  EntrySize(Signature) * Count + ListOffset + 1,
                                  Signature, SubSeq(List, FirstHalf + 1, FirstHalf + Count))
      full      == Full(h.Cell[root])
      newRoot   == IF full THEN NewCell(h1, Type) ELSE root
      h2        == IF full THEN HvReallocateCell(h1, root, newRoot, h.Cell[root].Size + 4)
                   ELSE h1
      h3        == PutList(h2, newRoot, InsertAt(h.Cell[root].List, RootSelect + 2, new))
  IN  [PutList(h3, leaf, SubSeq(List, 1, FirstHalf)) EXCEPT !.SubKeyLists[Type] = newRoot]

(***************************************************************************)
(* The positions in the root of leaves that may take Name, in the order in *)
(* which they are tried, given what CmpFindSubKeyInRoot has found.         *)
(***************************************************************************)
Candidates(h, root, Name, found) ==
  LET i     == found.Index
      above == CmpCompareInIndex(Name, h.Cell[root[i + 1]].List, 0) >= 0
  IN  IF found.SubKey # HCELL_NIL THEN <<i>>
      ELSE IF above THEN IF i + 1 < Len(root) THEN <<i, i + 1>> ELSE <<i>>
      ELSE IF i > 0 THEN <<i - 1>> ELSE <<0>>

\* No position in a root: the index is a single leaf, or no leaf has room.
INVALID_INDEX == -1

\* Mutant of HasRoom: a leaf at its limit is taken.
HasRoomFull(leaf) == Len(leaf.List) <= CmpMaxIndexPerHblock

HasRoom(leaf) == Len(leaf.List) < CmpMaxIndexPerHblock

\* The first of them that is below its limit; INVALID_INDEX if none is.
Selected(h, c, Name) ==
  LET root  == h.Cell[c].List
      tried == Candidates(h, root, Name, CmpFindSubKeyInRoot(h, c, Name))
      fits  == {n \in DOMAIN tried : HasRoom(h.Cell[root[tried[n] + 1]])}
  IN  IF fits = {} THEN INVALID_INDEX ELSE tried[Min(fits)]

Select(h, Type, Name) ==
  [Index |-> Selected(h, h.SubKeyLists[Type], Name), hive |-> h]

(***************************************************************************)
(* Choose the leaf of a root for Name.  When none has room the one found   *)
(* is split, and the loop starts again.  A second round is the last: both  *)
(* halves of a leaf are below the limit.                                   *)
(***************************************************************************)
CmpSelectLeaf(h, Type, Name) ==
  LET c  == h.SubKeyLists[Type]
      h1 == HvMarkCellDirty(h, c)
  IN  IF Selected(h, c, Name) # INVALID_INDEX THEN Select(h1, Type, Name)
      ELSE Select(CmpSplitLeaf(h1, Type, CmpFindSubKeyInRoot(h, c, Name).Index), Type, Name)

\* The form of a first leaf.
NewLeaf(Version) == IF Version >= 5 THEN CM_KEY_HASH_LEAF ELSE CM_KEY_FAST_LEAF

(***************************************************************************)
(* Bring the index into a form that can take one more subkey: a first      *)
(* leaf, a fast leaf turned into a plain one, or a leaf put under a root.  *)
(***************************************************************************)
Prepare(h, Type) ==
  LET c     == h.SubKeyLists[Type]
      index == h.Cell[c]
      new   == NewCell(h, Type)
  IN  CASE h.SubKeyCounts[Type] = 0 ->
             [HvAllocateCell(h, new, 12, NewLeaf(h.Version), <<>>)
                EXCEPT !.SubKeyLists[Type] = new]
        [] /\ h.SubKeyCounts[Type] > 0
           /\ index.Signature = CM_KEY_FAST_LEAF
           /\ Len(index.List) >= CmpMaxFastIndexPerHblock ->
             [HvMarkCellDirty(h, c) EXCEPT !.Cell[c].Signature = CM_KEY_INDEX_LEAF]
        [] /\ h.SubKeyCounts[Type] > 0
           /\ index.Signature \in {CM_KEY_INDEX_LEAF, CM_KEY_HASH_LEAF}
           /\ Len(index.List) >= CmpMaxIndexPerHblock ->
             [HvAllocateCell(h, new, 12, CM_KEY_INDEX_ROOT, <<c>>)
                EXCEPT !.SubKeyLists[Type] = new]
        [] OTHER -> h

\* Mutant of PointTo: a root keeps the cell that its leaf had.
PointToOld(h, Type, i, c) ==
  IF i # INVALID_INDEX THEN h
  ELSE [h EXCEPT !.SubKeyLists[Type] = c]

\* The root, at a position, or the node of the key names the leaf c.
PointTo(h, Type, i, c) ==
  LET root == h.SubKeyLists[Type]
  IN  IF i # INVALID_INDEX THEN PutList(h, root, [h.Cell[root].List EXCEPT ![i + 1] = c])
      ELSE [h EXCEPT !.SubKeyLists[Type] = c]

\* The leaf for Name: below a root it has a position, which may change the root.
ChooseLeaf(h, Type, Name) ==
  IF h.Cell[h.SubKeyLists[Type]].Signature = CM_KEY_INDEX_ROOT
  THEN CmpSelectLeaf(h, Type, Name)
  ELSE [Index |-> INVALID_INDEX, hive |-> h]

\* Add to the leaf that was chosen, and follow it if it has moved.
EnterSubKey(choice, Type, key) ==
  LET h     == choice.hive
      i     == choice.Index
      c     == h.SubKeyLists[Type]
      added == CmpAddToLeaf(h, IF i = INVALID_INDEX THEN c ELSE h.Cell[c].List[i + 1], key)
  IN  PointTo([added.hive EXCEPT !.SubKeyCounts[Type] = @ + 1], Type, i, added.Cell)

CmpAddSubKey(h, key) ==
  LET Type == HvGetCellType(key)
  IN  EnterSubKey(ChooseLeaf(Prepare(h, Type), Type, NameOf(key)), Type, key)

-----------------------------------------------------------------------------
(***************************************************************************)
(* Removing a subkey.                                                      *)
(***************************************************************************)
\* Mutant of MarkInStorage: below a root the leaf is left out.
MarkInStorageRoot(h, Type, Name) ==
  IF h.SubKeyCounts[Type] = 0 THEN [Found |-> FALSE, hive |-> h]
  ELSE LET leaf  == LeafFor(h, Type, Name).SubKey
           found == /\ leaf # HCELL_NIL
                    /\ CmpFindSubKeyInLeaf(h.Cell[leaf].List, Name).SubKey # HCELL_NIL
       IN  [Found |-> found,
            hive  |-> IF found THEN HvMarkCellDirty(h, h.SubKeyLists[Type]) ELSE h]

\* In one storage type, mark the root and the leaf that lead to Name.
MarkInStorage(h, Type, Name) ==
  IF h.SubKeyCounts[Type] = 0 THEN [Found |-> FALSE, hive |-> h]
  ELSE LET c      == h.SubKeyLists[Type]
           leaf   == LeafFor(h, Type, Name).SubKey
           h1     == IF leaf # HCELL_NIL /\ leaf # c THEN HvMarkCellDirty(h, c) ELSE h
           found  == /\ leaf # HCELL_NIL
                     /\ CmpFindSubKeyInLeaf(h.Cell[leaf].List, Name).SubKey # HCELL_NIL
       IN  [Found |-> found, hive |-> IF found THEN HvMarkCellDirty(h1, leaf) ELSE h1]

CmpMarkIndexDirty(h, Name) ==
  LET stable == MarkInStorage(h, HSTORAGE_TYPE[1], Name)
  IN  IF stable.Found THEN stable ELSE MarkInStorage(stable.hive, HSTORAGE_TYPE[2], Name)

\* The part of it that concerns the parent of the key.
CmpMarkKeyDirty(h, key) ==
  LET r == CmpMarkIndexDirty(h, NameOf(key))
  IN  IF r.Found THEN HvMarkCellDirty(r.hive, ParentKey) ELSE r.hive

(***************************************************************************)
(* Take a subkey out of its leaf.  A leaf that becomes empty is freed and  *)
(* leaves the root; so does the root, with its last leaf.  Nothing is      *)
(* marked dirty here.                                                      *)
(***************************************************************************)
CmpRemoveSubKey(h, key) ==
  LET Type   == HvGetCellType(key)
      c      == h.SubKeyLists[Type]
      rooted == h.Cell[c].Signature = CM_KEY_INDEX_ROOT
      at     == LeafFor(h, Type, NameOf(key))
      i      == CmpFindSubKeyInLeaf(h.Cell[at.SubKey].List, NameOf(key)).Index
      h1     == [h EXCEPT !.SubKeyCounts[Type] = @ - 1]
      gone   == HvFreeCell(h1, at.SubKey)
  IN  IF Len(h.Cell[at.SubKey].List) > 1
      THEN PutList(h1, at.SubKey, RemoveAt(h.Cell[at.SubKey].List, i + 1))
      ELSE IF rooted /\ Len(h.Cell[c].List) > 1
      THEN PutList(gone, c, RemoveAt(h.Cell[c].List, at.Index + 1))
      ELSE [IF rooted THEN HvFreeCell(gone, c) ELSE gone
              EXCEPT !.SubKeyLists[Type] = HCELL_NIL]

CmpFreeKeyByCell(h, key) == CmpRemoveSubKey(CmpMarkKeyDirty(h, key), key)

-----------------------------------------------------------------------------
(***************************************************************************)
(* The check of a hive that has been loaded.                               *)
(***************************************************************************)
\* The number of subkeys agrees with the stable index, whose cells exist.
CmpValidateSubKeyList(h) ==
  LET c == h.SubKeyLists["Stable"]
      LeafCount(n, leaf) == n + Len(h.Cell[leaf].List)
  IN  h.SubKeyCounts["Stable"] > 0 =>
        /\ c \in DOMAIN h.Cell
        /\ IF h.Cell[c].Signature = CM_KEY_INDEX_ROOT
           THEN /\ \A i \in DOMAIN h.Cell[c].List :
                     /\ h.Cell[c].List[i] \in DOMAIN h.Cell
                     /\ h.Cell[h.Cell[c].List[i]].Signature # CM_KEY_INDEX_ROOT
                /\ h.SubKeyCounts["Stable"] = FoldLeft(LeafCount, 0, h.Cell[c].List)
           ELSE h.SubKeyCounts["Stable"] = Len(h.Cell[c].List)

(***************************************************************************)
(* Each subkey comes after the one with the number before.  The code takes *)
(* the order of two compressed names on trust; the names here are those    *)
(* for which it looks.                                                     *)
(***************************************************************************)
CmpValidateLexicalOrder(h) ==
  \A n \in 1 .. h.SubKeyCounts["Stable"] - 1 :
    NameOf(CmpFindSubKeyByNumber(h, n - 1)) < NameOf(CmpFindSubKeyByNumber(h, n))

(***************************************************************************)
(* The volatile store is empty after a load; what the node of the key      *)
(* still says of it is purged.                                             *)
(***************************************************************************)
CmpPurgeVolatiles(h) ==
  IF h.SubKeyCounts["Volatile"] = 0 THEN h
  ELSE [HvMarkCellDirty(h, ParentKey) EXCEPT
         !.SubKeyCounts["Volatile"] = 0,
         !.SubKeyLists["Volatile"]  = IF h.Version >= 4 THEN CMP_VOLATILE_LIST_UNINTIALIZED
                                      ELSE HCELL_NIL]

-----------------------------------------------------------------------------
Init ==
  \E v \in Versions :
    hive = [Version      |-> v,
            Cell         |-> <<>>,
            Dirty        |-> {},
            SubKeyCounts |-> [t \in Storages |-> 0],
            SubKeyLists  |-> [t \in Storages |-> HCELL_NIL]]

\* RegpCreateOrOpenKey looks the name up, and CmiAddSubKey adds it.
CmiAddSubKey(key) ==
  /\ CmpFindSubKeyByName(hive, NameOf(key)) = HCELL_NIL
  /\ hive' = CmpAddSubKey(HvMarkCellDirty(hive, ParentKey), key)

\* NTRegDeleteKeyW opens the key and frees it.
NTRegDeleteKeyW(Name) ==
  LET key == CmpFindSubKeyByName(hive, Name)
  IN  /\ key # HCELL_NIL
      /\ hive' = CmpFreeKeyByCell(hive, key)

\* All that is dirty goes to the file.
HvSyncHive ==
  /\ hive.Dirty # {}
  /\ hive' = [hive EXCEPT !.Dirty = {}]

\* The hive is loaded from a file that is up to date, and checked.
LoadHiveDataIntoRegistry ==
  /\ hive.Dirty = {}
  /\ hive' = CmpPurgeVolatiles(
               [hive EXCEPT !.Cell = Restrict(@, {c \in DOMAIN @ : HvGetCellType(c) = "Stable"})])

Next ==
  \/ \E key \in Subkeys : CmiAddSubKey(key)
  \/ \E Name \in Names : NTRegDeleteKeyW(Name)
  \/ HvSyncHive
  \/ LoadHiveDataIntoRegistry

Spec == Init /\ [][Next]_hive

-----------------------------------------------------------------------------
(***************************************************************************)
(* Properties.                                                             *)
(***************************************************************************)
Leaves(h) == {c \in DOMAIN h.Cell : h.Cell[c].Signature # CM_KEY_INDEX_ROOT}
Keys(h)   == UNION {Range(h.Cell[c].List) : c \in Leaves(h)}
KeyCount(h) == h.SubKeyCounts["Stable"] + h.SubKeyCounts["Volatile"]

\* The fields have their types, and no leaf outgrows the limit of its form.
TypeOK ==
  /\ hive.Version \in Versions
  /\ hive.Dirty \subseteq DOMAIN hive.Cell \cup {ParentKey}
  /\ hive.SubKeyCounts \in [Storages -> Nat]
  /\ \A c \in Leaves(hive) :
       /\ hive.Cell[c].Signature \in {CM_KEY_FAST_LEAF, CM_KEY_HASH_LEAF, CM_KEY_INDEX_LEAF}
       /\ Range(hive.Cell[c].List) \subseteq Storages \X Names
       /\ Len(hive.Cell[c].List) <=
            IF hive.Cell[c].Signature = CM_KEY_FAST_LEAF
            THEN CmpMaxFastIndexPerHblock ELSE CmpMaxIndexPerHblock

(***************************************************************************)
(* No list is longer than its cell: CmpAddToLeaf and CmpSplitLeaf, which   *)
(* decide when a cell grows, never write behind its end, also after a fast *)
(* leaf has become a plain one in the same cell and a leaf was split.      *)
(***************************************************************************)
EntriesFit ==
  \A c \in DOMAIN hive.Cell : Len(hive.Cell[c].List) <= Capacity(hive.Cell[c])

(***************************************************************************)
(* Leaves and roots move, appear and vanish, and their cells are named in  *)
(* one place each: following the node of the key and its roots meets every *)
(* index cell of a storage type once, and no cell that is free.  So no     *)
(* cell leaks, and none is used after it was freed.                        *)
(***************************************************************************)
NoCellLost ==
  \A t \in Storages :
    LET c     == hive.SubKeyLists[t]
        cells == {d \in DOMAIN hive.Cell : HvGetCellType(d) = t}
    IN  IF hive.SubKeyCounts[t] = 0 THEN cells = {}
        ELSE /\ c \in cells
             /\ hive.Cell[c].List # <<>>
             /\ IF hive.Cell[c].Signature = CM_KEY_INDEX_ROOT
                THEN /\ IsInjective(hive.Cell[c].List)
                     /\ Range(hive.Cell[c].List) = cells \ {c}
                     /\ \A d \in cells \ {c} : hive.Cell[d].List # <<>>
                ELSE cells = {c}

(***************************************************************************)
(* A subkey is found by its name, and only then: the binary searches over  *)
(* the root and over the leaf, and the search by hash, miss no name and    *)
(* invent none, whatever the leaves went through.                          *)
(***************************************************************************)
FoundByName ==
  \A n \in Names :
    LET key == CmpFindSubKeyByName(hive, n)
    IN  IF \E k \in Keys(hive) : NameOf(k) = n
        THEN key \in Keys(hive) /\ NameOf(key) = n
        ELSE key = HCELL_NIL

(***************************************************************************)
(* Enumerating the subkeys from number 0 until HCELL_NIL, as NTRegEnumKey  *)
(* is used, yields every subkey of both storage types once.                *)
(***************************************************************************)
FoundByNumber ==
  LET key == [n \in 0 .. KeyCount(hive) - 1 |-> CmpFindSubKeyByNumber(hive, n)]
  IN  /\ IsInjective(key)
      /\ Range(key) = Keys(hive)
      /\ CmpFindSubKeyByNumber(hive, KeyCount(hive)) = HCELL_NIL

(***************************************************************************)
(* The check at load accepts every index that the program builds.          *)
(***************************************************************************)
LoadAccepts == CmpValidateSubKeyList(hive) /\ CmpValidateLexicalOrder(hive)

(***************************************************************************)
(* Every stable index cell that is new or changed is marked dirty by the   *)
(* operation that changes it, and so is the node of the key.  Removal      *)
(* relies on CmpMarkIndexDirty, which searches on its own before.          *)
(***************************************************************************)
ChangesAreDirty ==
  [][/\ \A c \in DOMAIN hive'.Cell :
          /\ HvGetCellType(c) = "Stable"
          /\ c \in DOMAIN hive.Cell => hive'.Cell[c] # hive.Cell[c]
          => c \in hive'.Dirty
     /\ \/ hive'.SubKeyCounts # hive.SubKeyCounts
        \/ hive'.SubKeyLists # hive.SubKeyLists
        => ParentKey \in hive'.Dirty]_hive

(***************************************************************************)
(* The entries of the leaves behave as the set of subkeys promises.        *)
(***************************************************************************)
Set == INSTANCE SubkeySet WITH keys <- Keys(hive)

SetSpec == Set!Spec
==============================================================================
