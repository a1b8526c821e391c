----------------------------- MODULE ValueCells -----------------------------
(***************************************************************************)
(* The values of keys as cells (core/cmvalue.cpp, core/reg_valops.cpp,     *)
(* CmiAddValueKey of core/cmi.cpp, CmpFindNameInList of core/cmname.cpp):  *)
(* one key in the stable store and one in the volatile store of a hive.    *)
(*                                                                         *)
(* A key has a list of values in a cell of its own, which moves when it    *)
(* grows and when it gets much shorter.  A value is a cell; up to four     *)
(* bytes of data stand in it, more in a third cell.  Any allocation fails  *)
(* when the store has no free cell left.  A call runs to its end before    *)
(* the next begins.  Values have a name each, compared as a whole, and     *)
(* data of more than CM_KEY_VALUE_BIG bytes is left out.                   *)
(*                                                                         *)
(* Data copied past the end of its cell overruns the cells behind it: what *)
(* happens then is left open, and the behaviour ends there.                *)
(***************************************************************************)
EXTENDS Integers, FiniteSets, SequencesExt

CONSTANTS
  StableKey, VolatileKey,       \* the cells of the two keys
  StableCells, VolatileCells,   \* the other cells of each store
  Names,          \* the names of values
  LengthOf,       \* the payloads, a function to their lengths in bytes
  Empty,          \* the payload of no bytes
  EntrySize,      \* the size of an entry in a list of values, 4 in the code
  Batch,          \* longer lists grow by this many entries at once, 100 in the code
  MaxCalls,       \* bound: calls that change values
  HCELL_NIL,      \* no cell
  None, Void      \* no value, a value without data

Payloads == DOMAIN LengthOf
Cells == StableCells \cup VolatileCells \cup {StableKey, VolatileKey}
Stable == StableCells \cup {StableKey}
Keys == {StableKey, VolatileKey}

ASSUME CellsAssumption ==
  /\ Cells \subseteq Nat /\ HCELL_NIL \notin Cells
  /\ StableCells \cap VolatileCells = {}
  /\ Keys \cap (StableCells \cup VolatileCells) = {} /\ StableKey # VolatileKey

ASSUME SizesAssumption ==
  /\ \A p \in Payloads : LengthOf[p] \in Nat
  /\ Empty \in Payloads /\ LengthOf[Empty] = 0
  /\ {EntrySize, Batch} \subseteq Nat \ {0} /\ MaxCalls \in Nat

VARIABLES
  hive,      \* the cells and which of the stable ones are dirty
  file,      \* the cells in the file
  overrun,   \* have data been copied past the end of their cell?
  stranded,  \* the data cells, in memory and in the file, of values lost at a reload
  calls      \* how many calls have changed values

vars == <<hive, file, overrun, stranded, calls>>

-----------------------------------------------------------------------------
(* Cells *)

Free == [kind |-> "free"]

CHILD_LIST(count, list) == [kind |-> "key", Count |-> count, List |-> list]
CM_KEY_VALUE(name) ==
  [kind |-> "value", Name |-> name, Small |-> FALSE, Inline |-> None, Length |-> 0, Data |-> HCELL_NIL]
KeyList(entries, size) == [kind |-> "list", KeyList |-> entries, Size |-> size]
Data(payload, size)    == [kind |-> "data", Bytes |-> payload, Size |-> size]

\* What a cell for n bytes offers.
CellSize(n) == 16 * ((n + 19) \div 16) - 4

\* Mutant of StoreOf: cells are stable whatever the key is.
StoreOfStable(key) == StableCells

StoreOf(key) == IF key = StableKey THEN StableCells ELSE VolatileCells
HvGetCellType(c) == IF c \in Stable THEN StableCells ELSE VolatileCells

FreeIn(h, store) == {c \in store : h.cell[c] = Free}

HvMarkCellsDirty(h, cs) == [h EXCEPT !.dirty = @ \cup (cs \cap Stable)]

Put(h, c, content) == HvMarkCellsDirty([h EXCEPT !.cell[c] = content], {c})

HvFreeCell(h, c) == Put(h, c, Free)

\* An allocation, or HCELL_NIL when no cell is free.
HvAllocateCell(h, store, content) ==
  IF FreeIn(h, store) = {} THEN [hive |-> h, cell |-> HCELL_NIL]
  ELSE [hive |-> Put(h, Min(FreeIn(h, store)), content), cell |-> Min(FreeIn(h, store))]

\* A list of values moves when it does not fit, or when half the cell would do.
HvReallocateCell(h, c, n) ==
  LET moves  == n > h.cell[c].Size \/ (n < h.cell[c].Size \div 2 /\ FreeIn(h, HvGetCellType(c)) # {})
      moved(r) == IF r.cell = HCELL_NIL THEN r ELSE [r EXCEPT !.hive = HvFreeCell(r.hive, c)]
  IN  IF moves THEN moved(HvAllocateCell(h, HvGetCellType(c), KeyList(h.cell[c].KeyList, CellSize(n))))
      ELSE [hive |-> h, cell |-> c]

-----------------------------------------------------------------------------
(* Lists of values *)

ValuesOf(h, key) ==
  IF h.cell[key].Count = 0 THEN <<>>
  ELSE SubSeq(h.cell[h.cell[key].List].KeyList, 1, h.cell[key].Count)

\* The position of the value from 1, and 0 when there is none of this name.
CmpFindNameInList(h, key, name) == SelectInSeq(ValuesOf(h, key), LAMBDA v : h.cell[v].Name = name)

ROUND_UP(n, m) == m * ((n + m - 1) \div m)

\* Mutant of ListLength: the list has room for the entries it has.
ListLengthBefore(count) == EntrySize * (count - 1)

ListLength(count) == EntrySize * (IF count < Batch THEN count ELSE ROUND_UP(count, Batch))

\* Mutant of Entered: the value takes the place of the one at its position.
EnteredOver(h, key, entries, v, index) ==
  [h EXCEPT !.cell[key].Count = @ + 1,
            !.cell[h.cell[key].List].KeyList = Append(ReplaceAt(entries, Max({Len(entries), 1}), v), v)]

\* The value v is entered before the position index, in a list that has room.
Entered(h, key, entries, v, index) ==
  [h EXCEPT !.cell[key].Count = @ + 1,
            !.cell[h.cell[key].List].KeyList = InsertAt(entries, index + 1, v)]

EnteredAt(r, key, entries, v, index) ==
  IF r.cell = HCELL_NIL THEN r
  ELSE [r EXCEPT !.hive = Entered([r.hive EXCEPT !.cell[key].List = r.cell], key, entries, v, index)]

CmpAddValueToList(h, key, v, index, store) ==
  EnteredAt(IF h.cell[key].Count > 0
            THEN HvReallocateCell(h, h.cell[key].List, ListLength(h.cell[key].Count + 1))
            ELSE HvAllocateCell(h, store, KeyList(<<>>, CellSize(EntrySize))),
            key, ValuesOf(h, key), v, index)

\* The list without the entry at the position i, in a cell of the length left.
Shortened(r, key, entries) ==
  [r.hive EXCEPT !.cell[key] = CHILD_LIST(Len(entries), r.cell), !.cell[r.cell].KeyList = entries]

CmpRemoveValueFromList(h, key, i) ==
  IF h.cell[key].Count > 1
  THEN Shortened(HvReallocateCell(h, h.cell[key].List, EntrySize * (h.cell[key].Count - 1)),
                 key, RemoveAt(ValuesOf(h, key), i))
  ELSE [HvFreeCell(h, h.cell[key].List) EXCEPT !.cell[key] = CHILD_LIST(0, HCELL_NIL)]

-----------------------------------------------------------------------------
(* Values *)

HasData(value) == ~value.Small /\ value.Data # HCELL_NIL

CmpFreeValueData(h, v) == IF HasData(h.cell[v]) THEN HvFreeCell(h, h.cell[v].Data) ELSE h

CmpFreeValue(h, v) == HvFreeCell(CmpFreeValueData(h, v), v)

CmpMarkValueDataDirty(h, v) ==
  IF HasData(h.cell[v]) THEN HvMarkCellsDirty(h, {h.cell[v].Data}) ELSE h

\* What a query of the value yields.
CmpGetValueData(h, v) ==
  IF h.cell[v].Small THEN h.cell[v].Inline
  ELSE IF h.cell[v].Data = HCELL_NIL THEN Void ELSE h.cell[h.cell[v].Data].Bytes

\* The list of the key is marked before the value is entered.
Listed(r, h, key, v) ==
  IF r.cell = HCELL_NIL THEN [hive |-> HvFreeCell(h, v), cell |-> HCELL_NIL]
  ELSE [hive |-> r.hive, cell |-> v]

CmiAddValueKey(h, key, name, index) ==
  LET marked(g) == IF g.cell[key].Count > 0 THEN HvMarkCellsDirty(g, {g.cell[key].List}) ELSE g
      listed(g, v) == Listed(CmpAddValueToList(g, key, v, index, StoreOf(key)), g, key, v)
      r == HvAllocateCell(h, StoreOf(key), CM_KEY_VALUE(name))
  IN  IF r.cell = HCELL_NIL THEN r ELSE listed(marked(r.hive), r.cell)

-----------------------------------------------------------------------------
(* Setting and deleting *)

\* A ULONG is far larger than any length; sixteen bits of it are looked at.
ULONG(n) == n % 2 ^ 16

SetInline(h, v, p) ==
  Put(IF h.cell[v].Length > 0 THEN HvFreeCell(h, h.cell[v].Data) ELSE h, v,
      [h.cell[v] EXCEPT !.Small = TRUE, !.Inline = p, !.Length = 0, !.Data = HCELL_NIL])

\* The size of the present data cell as the code works it out, negated.
DataCellSize(h, v) == IF h.cell[v].Length > 0 THEN ULONG(-h.cell[h.cell[v].Data].Size) ELSE 0

WithData(h, v, d, p) ==
  Put(Put(h, d, [h.cell[d] EXCEPT !.Bytes = p]), v,
      [h.cell[v] EXCEPT !.Small = FALSE, !.Inline = None, !.Length = LengthOf[p], !.Data = d])

\* A new cell for the data is a stable one, whatever the store of the value.
NewData(h, v, p) == HvAllocateCell(h, StableCells, Data(p, CellSize(LengthOf[p])))

Replaced(r, v, p) ==
  IF r.cell = HCELL_NIL THEN r.hive
  ELSE WithData(IF r.hive.cell[v].Length > 0 THEN HvFreeCell(r.hive, r.hive.cell[v].Data) ELSE r.hive,
                v, r.cell, p)

SetData(h, v, p) ==
  IF LengthOf[p] > DataCellSize(h, v) THEN Replaced(NewData(h, v, p), v, p)
  ELSE WithData(h, v, h.cell[v].Data, p)

Fits(h) == \A c \in Cells : h.cell[c].kind = "data" => LengthOf[h.cell[c].Bytes] <= h.cell[c].Size

\* A call changes the hive; copying past the end of a cell is noticed.
Call(h) ==
  /\ ~overrun /\ calls < MaxCalls
  /\ calls' = calls + 1
  /\ hive' = h
  /\ overrun' = ~Fits(hive')
  /\ UNCHANGED <<file, stranded>>

Found(h, key, name) ==
  LET i == CmpFindNameInList(h, key, name)
  IN  IF i = 0 THEN CmiAddValueKey(h, key, name, h.cell[key].Count)
      ELSE [hive |-> h, cell |-> ValuesOf(h, key)[i]]

NTRegSetValueExW(key, name, p) ==
  /\ calls < MaxCalls
  /\ \E marked \in {HvMarkCellsDirty(hive, {key})} :
     \E r \in {Found(marked, key, name)} :
       Call(CASE r.cell = HCELL_NIL -> r.hive
              [] r.cell # HCELL_NIL /\ LengthOf[p] <= 4 -> SetInline(r.hive, r.cell, p)
              [] OTHER -> SetData(r.hive, r.cell, p))

\* Mutant of MarkedForDelete: the list of the key is forgotten.
MarkedForDeleteNoList(h, key, v) ==
  CmpMarkValueDataDirty(HvMarkCellsDirty(h, {key, v}), v)

MarkedForDelete(h, key, v) ==
  CmpMarkValueDataDirty(HvMarkCellsDirty(h, {key, h.cell[key].List, v}), v)

NTRegDeleteValueW(key, name) ==
  LET i == CmpFindNameInList(hive, key, name)
      v == ValuesOf(hive, key)[i]
  IN  /\ i # 0
      /\ Call(CmpFreeValue(CmpRemoveValueFromList(MarkedForDelete(hive, key, v), key, i), v))

\* Mutant of Emptied: the last value is forgotten.
EmptiedButLast(h, key) ==
  IF h.cell[key].Count = 0 THEN h
  ELSE [HvFreeCell(FoldLeft(CmpFreeValue, h, Front(ValuesOf(h, key))), h.cell[key].List)
          EXCEPT !.cell[key] = CHILD_LIST(0, HCELL_NIL)]

\* Every value of the key is freed, and then their list.
Emptied(h, key) ==
  IF h.cell[key].Count = 0 THEN h
  ELSE [HvFreeCell(FoldLeft(CmpFreeValue, h, ValuesOf(h, key)), h.cell[key].List)
          EXCEPT !.cell[key] = CHILD_LIST(0, HCELL_NIL)]

DataOf(h, key) == {h.cell[v].Data : v \in Range(ValuesOf(h, key))} \ {HCELL_NIL}

\* The key, its list, its values and their data.
CmpMarkKeyDirty(h, key) ==
  HvMarkCellsDirty(h, {key} \cup DataOf(h, key) \cup Range(ValuesOf(h, key))
                      \cup (IF h.cell[key].Count > 0 THEN {h.cell[key].List} ELSE {}))

\* The key is deleted with its values, and made anew in the same place.
CmpFreeKeyByCell(key) ==
  /\ hive.cell[key].Count > 0
  /\ Call(Emptied(CmpMarkKeyDirty(hive, key), key))

-----------------------------------------------------------------------------
(* Copying the values of a key *)

\* The copy of a value body, once it has a cell c.
Copied(h, v, c, store) ==
  LET value == h.cell[v]
      into(r) == IF r.cell = HCELL_NIL THEN [hive |-> HvFreeCell(h, c), cell |-> HCELL_NIL]
                 ELSE [hive |-> Put(r.hive, c, [value EXCEPT !.Data = r.cell]), cell |-> c]
  IN  CASE CmpGetValueData(h, v) \in {Empty, Void} ->
             [hive |-> Put(h, c, CM_KEY_VALUE(value.Name)), cell |-> c]
        [] value.Small /\ value.Inline # Empty -> [hive |-> Put(h, c, value), cell |-> c]
        [] OTHER -> into(HvAllocateCell(h, store, h.cell[value.Data]))

CmpCopyValue(h, v, store) ==
  LET r == HvAllocateCell(h, store, h.cell[v])
  IN  IF r.cell = HCELL_NIL THEN r ELSE Copied(r.hive, v, r.cell, store)

\* One more value has been copied to the list; entering it may fail.
CopiedInto(r, key, store) ==
  IF r.cell = HCELL_NIL THEN [hive |-> r.hive, good |-> FALSE]
  ELSE LET added == CmpAddValueToList(r.hive, key, r.cell, r.hive.cell[key].Count, store)
       IN  IF added.cell = HCELL_NIL
           THEN [hive |-> CmpFreeValue(r.hive, r.cell), good |-> FALSE]
           ELSE [hive |-> added.hive, good |-> TRUE]

(***************************************************************************)
(* The values of one key are copied to another, which has none.  Nothing   *)
(* in the repository calls it; here it copies to the volatile key.         *)
(***************************************************************************)
CmpCopyKeyValueList ==
  /\ hive.cell[VolatileKey].Count = 0
  /\ LET copy(a, v) == IF a.good THEN CopiedInto(CmpCopyValue(a.hive, v, VolatileCells),
                                                  VolatileKey, VolatileCells)
                       ELSE a
         outcomes == FoldLeft(LAMBDA as, v : {copy(a, v) : a \in as},
                              {[hive |-> hive, good |-> TRUE]}, ValuesOf(hive, StableKey))
     IN  \E a \in outcomes : Call(IF a.good THEN a.hive ELSE Emptied(a.hive, VolatileKey))

-----------------------------------------------------------------------------
(* The file *)

NoCells == [c \in Cells |-> IF c \in Keys THEN CHILD_LIST(0, HCELL_NIL) ELSE Free]

Init ==
  /\ hive = [cell |-> NoCells, dirty |-> {}]
  /\ file = [c \in Stable |-> NoCells[c]]
  /\ overrun = FALSE
  /\ stranded = [memory |-> {}, file |-> {}]
  /\ calls = 0

\* The cells that are dirty are written.
Flush ==
  /\ ~overrun /\ hive.dirty # {}
  /\ file' = [c \in Stable |-> IF c \in hive.dirty THEN hive.cell[c] ELSE file[c]]
  /\ hive' = [hive EXCEPT !.dirty = {}]
  /\ stranded' = [stranded EXCEPT !.file = stranded.memory \cup (DataOf(hive, VolatileKey) \cap StableCells)]
  /\ UNCHANGED <<overrun, calls>>

\* The hive of the file, with the volatile store empty and its key made anew.
InFile == [cell |-> [c \in Cells |-> IF c \in Stable THEN file[c] ELSE NoCells[c]], dirty |-> {}]

\* The hive is loaded again, with or without a flush before.
Reload ==
  /\ ~overrun
  /\ hive' = InFile
  /\ stranded' = [stranded EXCEPT !.memory = stranded.file]
  /\ UNCHANGED <<file, overrun, calls>>

Next ==
  \/ \E key \in Keys, name \in Names :
       \/ \E p \in Payloads : NTRegSetValueExW(key, name, p)
       \/ NTRegDeleteValueW(key, name)
  \/ \E key \in Keys : CmpFreeKeyByCell(key)
  \/ CmpCopyKeyValueList
  \/ Flush
  \/ Reload

Spec == Init /\ [][Next]_vars

-----------------------------------------------------------------------------
(* Properties *)

Content(c) ==
  IF c \in Keys THEN [kind : {"key"}, Count : Nat, List : Cells \cup {HCELL_NIL}]
  ELSE {Free}
       \cup [kind : {"value"}, Name : Names, Small : BOOLEAN, Inline : Payloads \cup {None},
             Length : Nat, Data : StableCells \cup VolatileCells \cup {HCELL_NIL}]
       \cup [kind : {"data"}, Bytes : Payloads, Size : Nat]

\* A cell is a key, free, a value, data, or a list of values; the list and the
\* values of a key are in its own store (CmiAddValueKey, CmpAddValueToList).
TypeOK ==
  /\ \A c \in Cells : \/ hive.cell[c] \in Content(c)
                      \/ /\ c \notin Keys /\ hive.cell[c].kind = "list"
                         /\ hive.cell[c].KeyList \in Seq(Cells) /\ hive.cell[c].Size \in Nat
  /\ \A key \in Keys : hive.cell[key].Count > 0 =>
       {hive.cell[key].List} \cup Range(ValuesOf(hive, key)) \subseteq StoreOf(key)
  /\ hive.dirty \subseteq Stable
  /\ DOMAIN file = Stable
  /\ {stranded.memory, stranded.file} \subseteq SUBSET StableCells
  /\ overrun \in BOOLEAN /\ calls \in 0..MaxCalls

\* The references to cells that begin with a key: from the key to its list, from
\* the list to its values, by position, and from a value to its data.
References(h, key) ==
  LET values == ValuesOf(h, key)
  IN  IF h.cell[key].Count = 0 THEN {}
      ELSE {[to |-> h.cell[key].List, by |-> key, at |-> 0]}
           \cup {[to |-> values[i], by |-> h.cell[key].List, at |-> i] : i \in DOMAIN values}
           \cup {[to |-> h.cell[v].Data, by |-> v, at |-> 0] :
                   v \in {w \in Range(values) : HasData(h.cell[w])}}

\* However calls fail half way - a value without room for its list or its data,
\* a copy that is undone - and however often the hive is flushed and loaded, a
\* cell in use is referred to once; only the data of values that were
\* volatile when the file was written is stranded, in the stable store, where
\* NTRegSetValueExW puts all data.
CellsOwnedOnce ==
  LET references == References(hive, StableKey) \cup References(hive, VolatileKey)
      owned == {r.to : r \in references}
  IN  /\ \A r, s \in references : r.to = s.to => r = s
      /\ owned \cap stranded.memory = {}
      /\ {c \in Cells \ Keys : hive.cell[c] # Free} = owned \cup stranded.memory

\* A list of values never has more entries than its cell holds, whether it grows
\* by one entry or by a batch, is shortened in place or moves to a smaller cell
\* (CmpAddValueToList, CmpRemoveValueFromList, HvReallocateCell).
ListsFit ==
  \A c \in Cells : hive.cell[c].kind = "list" =>
    EntrySize * Len(hive.cell[c].KeyList) <= hive.cell[c].Size

\* What differs from the file is dirty, also after a call that failed: a flush
\* writes all of it.
ChangesAreDirty == {c \in Stable : hive.cell[c] # file[c]} \subseteq hive.dirty

\* What a query finds under each name: the first value of this name.
ValuesIn(h, key) ==
  FoldRight(LAMBDA v, found : [found EXCEPT ![h.cell[v].Name] = CmpGetValueData(h, v)],
            ValuesOf(h, key), [n \in Names |-> None])

Values == INSTANCE ValueMap WITH
  stable   <- ValuesIn(hive, StableKey),
  volatile <- ValuesIn(hive, VolatileKey),
  saved    <- ValuesIn([cell |-> file], StableKey)

\* Through lists that move, data inline and in cells, allocations that fail and
\* copies that are undone, the two keys map names to data: a call changes one
\* value, or none, or copies all; a reload brings back what was flushed.
MapSpec == Values!Spec

\* Data fit into the cell they are copied to: the test Value.OverwriteTypes sets
\* five bytes and then twenty-two, and expects to read the latter.
DataFits == ~overrun
=============================================================================
